---------------------------- MODULE AccountsProofs ----------------------------
(***************************************************************************)
(* What is proved of persons: who may be merged, what a merge keeps, and   *)
(* that a deletion request is the end of what is let in, for any number of *)
(* requests, credentials, persons and records.                             *)
(***************************************************************************)
EXTENDS Accounts, TLAPS

USE DEF people, records, accountVars

-----------------------------------------------------------------------------
(* The inductive invariant. *)

AllOps    == {"price", "removePrice", "copy", "removeCopy", "event", "delete", "cancel", "link"}
LinkSteps == {"go", "discard", "move", "commit"}
Keys      == Persons \X Records
Calls     == [q : Asks(AllOps), user : Persons, step : LinkSteps \cup {"sessions"}, since : Nat,
              gone : SUBSET Keys, moved : SUBSET Keys, event : BOOLEAN]
PriceRows == [live : BOOLEAN, updated : Nat, admitted : Nat]

AccountsTypeOK ==
  /\ now \in Nat
  /\ DOMAIN users \subseteq Persons /\ \A u \in DOMAIN users : users[u] \in Nat \cup {None}
  /\ DOMAIN accounts \subseteq Logins \cup Hashes
  /\ \A a \in DOMAIN accounts : accounts[a] \in [user : DOMAIN users, device : {Device, None}]
  /\ sessions \subseteq DOMAIN users
  /\ calls \in [Requests -> Calls \cup {NoCall}]

RowsTypeOK ==
  /\ \A k \in DOMAIN prices :
       /\ k \in (DOMAIN users) \X Records
       /\ prices[k] \in PriceRows /\ prices[k].updated <= now /\ prices[k].admitted <= now
  /\ \A u \in DOMAIN events : u \in DOMAIN users /\ events[u] \in Nat /\ events[u] <= now

LoginOf(u) == \E l \in Logins \cap DOMAIN accounts : accounts[l].user = u

\* Sessions belong to persons who log in, and whoever has two credentials logs in with one.
PersonsInv ==
  /\ \A u \in sessions : LoginOf(u)
  /\ \A a, b \in DOMAIN accounts :
       a # b /\ accounts[a].user = accounts[b].user => LoginOf(accounts[a].user)

Writes(r) == Busy(r) /\ calls[r].step # "sessions" /\ calls[r].q.op \notin {"delete", "cancel"}
Links(r)  == Busy(r) /\ calls[r].q.op = "link"

\* A request that writes was let in before the deletion was asked for, if it was.
WritesInv ==
  \A r \in Requests :
    /\ Busy(r) => calls[r].since <= now
    /\ Writes(r) /\ There(r) /\ users[calls[r].user] # None =>
         calls[r].since <= users[calls[r].user]

\* A link goes from a person of one key to one who logs in.
LinkOK(r) ==
  /\ Links(r) => calls[r].step \in LinkSteps /\ (There(r) => LoginOf(calls[r].user))
  /\ Linking(r) => Links(r) /\ calls[r].q.hash \in DOMAIN accounts /\ ~HasLogin(LinkFrom(r))

\* What it has written are rows of the two, and none of a new name was there.
HeldRows(r) ==
  /\ \A k \in Written(r) : k \in DOMAIN prices /\ k[1] \in {LinkFrom(r), calls[r].user}
  /\ \A k \in calls[r].moved :
       k[1] = LinkFrom(r) /\ k \notin calls[r].gone
         /\ <<calls[r].user, k[2]>> \notin DOMAIN prices \ calls[r].gone
  /\ calls[r].step # "commit" => calls[r].moved = {}
  /\ calls[r].step = "discard" => calls[r].gone = {}

\* The other row of the same record.
Other(r, k) == <<IF k[1] = LinkFrom(r) THEN calls[r].user ELSE LinkFrom(r), k[2]>>

\* For every row that is deleted another stays that was written as late, and is renamed if need be.
LaterStays(r) ==
  There(r) =>
    \A k \in calls[r].gone :
      /\ Other(r, k) \in DOMAIN prices \ calls[r].gone
      /\ prices[k].updated <= prices[Other(r, k)].updated
      /\ calls[r].step = "commit" /\ k[1] # LinkFrom(r) => Other(r, k) \in calls[r].moved

\* What the person of the key has beside the rows that moved came while the link was under way.
OthersAreLate(r) ==
  calls[r].step = "commit" =>
    \A k \in DOMAIN prices :
      k[1] = LinkFrom(r) => k \in Written(r) \/ calls[r].since <= prices[k].updated

HeldBy(r) == Linking(r) => HeldRows(r) /\ LaterStays(r) /\ OthersAreLate(r)

\* Two links have not the same key, and write not the same rows.
Apart(r, s) == calls[r].q.hash # calls[s].q.hash /\ Locks(r) \cap Locks(s) = {}

LinksInv ==
  /\ \A r \in Requests : LinkOK(r) /\ HeldBy(r)
  /\ \A r, s \in Requests : Linking(r) /\ Linking(s) /\ r # s => Apart(r, s)

AccountsInv == AccountsTypeOK /\ RowsTypeOK /\ PersonsInv /\ WritesInv /\ LinksInv

-----------------------------------------------------------------------------
(* What the operators do. *)

LEMMA FreshFact ==
  ASSUME NEW u \in FreshPerson
  PROVE  u \in Persons /\ u \notin DOMAIN users /\ u \notin Meant
BY DEF FreshPerson

LEMMA BusyIsCall ==
  ASSUME AccountsTypeOK, NEW r \in Requests, Busy(r)
  PROVE  /\ calls[r] \in Calls /\ calls[r].user \in Persons /\ calls[r].since \in Nat
         /\ calls[r].q \in Asks(AllOps) /\ calls[r].step \in LinkSteps \cup {"sessions"}
         /\ calls[r].gone \in SUBSET Keys /\ calls[r].moved \in SUBSET Keys
BY DEF AccountsTypeOK, Busy, Calls

\* Of two rows of a record one outlives the other, and is as late.
LEMMA OneOutlives ==
  ASSUME NEW t, NEW from, NEW to, from # to,
         \A k \in DOMAIN t : k = <<k[1], k[2]>> /\ t[k].updated \in Nat,
         NEW k \in Outlived(t, from, to)
  PROVE  LET o == <<IF k[1] = from THEN to ELSE from, k[2]>>
         IN /\ k \in DOMAIN t /\ k[1] \in {from, to}
            /\ o \in DOMAIN t \ Outlived(t, from, to) /\ t[k].updated <= t[o].updated
<1>1. k \in DOMAIN t /\ k[1] \in {from, to} /\ k = <<k[1], k[2]>> /\ t[k].updated \in Nat
  BY DEF Outlived, RowsBy
<1>2. PICK o \in RowsBy(t, {from, to}) :
        /\ o[1] # k[1] /\ o[2] = k[2]
        /\ t[k].updated < t[o].updated \/ (t[k].updated = t[o].updated /\ k[1] = from)
  BY DEF Outlived
<1>3. o \in DOMAIN t /\ o[1] \in {from, to} /\ t[o].updated \in Nat /\ o = <<o[1], o[2]>>
  BY DEF RowsBy
<1>4. ASSUME NEW p \in RowsBy(t, {from, to}), p[1] # o[1], p[2] = o[2] PROVE p = k
  <2>1. p[1] \in {from, to} /\ p = <<p[1], p[2]>>
    BY DEF RowsBy
  <2> QED
    BY <1>1, <1>2, <1>3, <1>4, <2>1
<1>5. o \notin Outlived(t, from, to)
  <2> SUFFICES ASSUME NEW p \in RowsBy(t, {from, to}), p[1] # o[1], p[2] = o[2],
                      t[o].updated < t[p].updated
                        \/ (t[o].updated = t[p].updated /\ o[1] = from)
               PROVE  FALSE
    BY DEF Outlived
  <2>1. p = k
    BY <1>4
  <2> QED
    BY <1>1, <1>2, <1>3, <2>1
<1>6. o = <<IF k[1] = from THEN to ELSE from, k[2]>>
  BY <1>1, <1>2, <1>3
<1> QED
  BY <1>1, <1>2, <1>3, <1>5, <1>6

-----------------------------------------------------------------------------
(* What others do while a link is under way. *)

\* The person of its key stays with its one credential, and nobody gets or loses a login.
PersonsFrame(R) ==
  /\ \A v \in DOMAIN users \cap DOMAIN users' : LoginOf(v)' = LoginOf(v)
  /\ \A s \in Requests :
       Busy(s) /\ calls[s].user \in DOMAIN users' => calls[s].user \in DOMAIN users
  /\ \A s \in Requests \ R : Linking(s) =>
       /\ calls[s].q.hash \in DOMAIN accounts' /\ accounts'[calls[s].q.hash].user = LinkFrom(s)
       /\ LinkFrom(s) \in DOMAIN users' /\ LinkFrom(s) \notin sessions'

\* Its rows stay as they are, the other rows of the two are only written later, and a new row has
\* none of its new names.
RowsFrame(s) ==
  /\ \A k \in Written(s) : k \in DOMAIN prices' /\ prices'[k] = prices[k]
  /\ \A k \in DOMAIN prices \cap DOMAIN prices' : prices[k].updated <= prices'[k].updated
  /\ calls[s].user \in DOMAIN users' =>
       \A k \in DOMAIN prices : k[1] \in {LinkFrom(s), calls[s].user} => k \in DOMAIN prices'
  /\ \A k \in DOMAIN prices' \ DOMAIN prices :
       k \notin Renamed(s) /\ (k[1] = LinkFrom(s) => calls[s].since <= prices'[k].updated)

\* All requests but those of R stay as they are or end, and R is one that is new or goes on.
CallsFrame(R) ==
  /\ \A r, s \in R : r = s
  /\ \A s \in Requests \ R : Busy(s)' => Busy(s) /\ calls'[s] = calls[s]

LEMMA LinkStays ==
  ASSUME AccountsInv, NEW R \in SUBSET Requests, PersonsFrame(R), CallsFrame(R),
         NEW s \in Requests \ R, Busy(s)'
  PROVE  LinkOK(s)' /\ (Linking(s)' => LinkFrom(s)' = LinkFrom(s))
<1> USE DEF AccountsInv
<1>1. Busy(s) /\ calls'[s] = calls[s] /\ LinkOK(s)
  BY DEF CallsFrame, LinksInv
<1>2. ASSUME Links(s)'
      PROVE  calls'[s].step \in LinkSteps /\ (There(s)' => LoginOf(calls[s].user)')
  <2>1. Links(s) /\ calls[s].step \in LinkSteps /\ (There(s) => LoginOf(calls[s].user))
    BY <1>1, <1>2 DEF LinkOK, Links
  <2>2. ASSUME There(s)' PROVE LoginOf(calls[s].user)'
    <3>1. calls[s].user \in DOMAIN users \cap DOMAIN users'
      BY <1>1, <2>2 DEF There, PersonsFrame
    <3>2. LoginOf(calls[s].user)
      BY <2>1, <3>1 DEF There
    <3> DEFINE v == calls[s].user
    <3>3. LoginOf(v)' = LoginOf(v)
      BY <1>1, <3>1 DEF PersonsFrame, LoginOf
    <3> QED
      BY <3>2, <3>3
  <2> QED
    BY <1>1, <2>1, <2>2
<1>3. ASSUME Linking(s)'
      PROVE  /\ LinkFrom(s)' = LinkFrom(s) /\ Links(s)' /\ calls'[s].q.hash \in DOMAIN accounts'
             /\ HasLogin(LinkFrom(s))' = FALSE
  <2>1. /\ Linking(s) /\ Links(s) /\ calls[s].q.hash \in DOMAIN accounts /\ ~HasLogin(LinkFrom(s))
    BY <1>1, <1>3 DEF Linking, LinkOK
  <2>2. /\ calls[s].q.hash \in DOMAIN accounts' /\ accounts'[calls[s].q.hash].user = LinkFrom(s)
        /\ LinkFrom(s) \in DOMAIN users' /\ LinkFrom(s) \notin sessions'
    BY <2>1 DEF PersonsFrame
  <2>3. LinkFrom(s)' = LinkFrom(s) /\ LinkFrom(s) \in DOMAIN users
    BY <1>1, <2>1, <2>2 DEF LinkFrom, AccountsTypeOK
  <2>4. ~LoginOf(LinkFrom(s))
    BY <2>1 DEF HasLogin, LoginOf
  <2>5. \A v : v = LinkFrom(s) => LoginOf(v)' = LoginOf(v)
    BY <2>2, <2>3 DEF PersonsFrame
  <2>6. HasLogin(LinkFrom(s))' = FALSE
    <3> DEFINE from == LinkFrom(s)
    <3>1. \A l \in Logins \cap DOMAIN accounts' : accounts'[l].user # from
      BY <2>4, <2>5 DEF LoginOf
    <3> QED
      BY <2>2, <2>3, <3>1 DEF HasLogin
  <2> QED
    BY <1>1, <1>3, <2>1, <2>2, <2>3, <2>6 DEF Links, Linking
<1> QED
  BY <1>1, <1>2, <1>3 DEF LinkOK, LoginOf

LEMMA HeldStays ==
  ASSUME AccountsInv, NEW R \in SUBSET Requests, PersonsFrame(R), CallsFrame(R),
         NEW s \in Requests \ R, Linking(s)', RowsFrame(s), RowsTypeOK'
  PROVE  HeldBy(s)'
<1> DEFINE from == LinkFrom(s)   to == calls[s].user   gone == calls[s].gone
<1>1. Linking(s) /\ calls'[s] = calls[s] /\ LinkFrom(s)' = from
  BY LinkStays DEF CallsFrame, Linking, Busy
<1>2. HeldRows(s) /\ LaterStays(s) /\ OthersAreLate(s)
  BY <1>1 DEF AccountsInv, LinksInv, HeldBy
<1>3. /\ Written(s)' = Written(s) /\ \A k : Other(s, k)' = Other(s, k)
      /\ There(s)' => There(s)
  BY <1>1 DEF Written, Other, There, PersonsFrame, Linking
<1>4. HeldRows(s)'
  <2>1. \A k \in Written(s) : k \in DOMAIN prices' /\ k[1] \in {from, to}
    BY <1>2 DEF RowsFrame, HeldRows
  <2>2. ASSUME NEW k \in calls[s].moved
        PROVE  k[1] = from /\ k \notin gone /\ <<to, k[2]>> \notin DOMAIN prices' \ gone
    <3>1. <<to, k[2]>> \in Renamed(s)
      BY DEF Renamed
    <3> QED
      BY <1>2, <2>2, <3>1 DEF HeldRows, RowsFrame
  <2> QED
    BY <1>1, <1>2, <1>3, <2>1, <2>2 DEF HeldRows
<1>5. LaterStays(s)'
  <2> SUFFICES ASSUME There(s)', NEW k \in gone
               PROVE  /\ Other(s, k) \in DOMAIN prices' \ gone
                      /\ prices'[k].updated <= prices'[Other(s, k)].updated
                      /\ calls[s].step = "commit" /\ k[1] # from => Other(s, k) \in calls[s].moved
    BY <1>1, <1>3 DEF LaterStays
  <2>1. /\ Other(s, k) \in DOMAIN prices \ gone
        /\ prices[k].updated <= prices[Other(s, k)].updated
        /\ calls[s].step = "commit" /\ k[1] # from => Other(s, k) \in calls[s].moved
    BY <1>2, <1>3 DEF LaterStays
  <2>2. k \in Written(s) /\ k \in DOMAIN prices /\ k \in DOMAIN prices' /\ prices'[k] = prices[k]
    BY <1>2 DEF RowsFrame, Written, HeldRows
  <2>3. Other(s, k)[1] \in {from, to} /\ to \in DOMAIN users'
    BY <1>1 DEF Other, There
  <2>4. Other(s, k) \in DOMAIN prices'
    BY <2>1, <2>3 DEF RowsFrame
  <2>5. prices[Other(s, k)].updated <= prices'[Other(s, k)].updated
    BY <2>1, <2>4 DEF RowsFrame
  <2>6. /\ prices[k].updated \in Nat /\ prices[Other(s, k)].updated \in Nat
        /\ prices'[Other(s, k)].updated \in Nat
    BY <2>1, <2>2, <2>4 DEF AccountsInv, RowsTypeOK, PriceRows
  <2> QED
    BY <2>1, <2>2, <2>4, <2>5, <2>6
<1>6. OthersAreLate(s)'
  <2> SUFFICES ASSUME calls[s].step = "commit", NEW k \in DOMAIN prices', k[1] = from,
                      k \notin Written(s)
               PROVE  calls[s].since <= prices'[k].updated
    BY <1>1, <1>3 DEF OthersAreLate
  <2>1. CASE k \in DOMAIN prices
    <3>1. calls[s].since <= prices[k].updated /\ prices[k].updated <= prices'[k].updated
      BY <1>2, <2>1 DEF OthersAreLate, RowsFrame
    <3>2. calls[s].since \in Nat /\ prices[k].updated \in Nat /\ prices'[k].updated \in Nat
      BY <1>1, <2>1, BusyIsCall DEF AccountsInv, RowsTypeOK, PriceRows, Linking
    <3> QED
      BY <3>1, <3>2
  <2>2. CASE k \notin DOMAIN prices
    BY <2>2 DEF RowsFrame
  <2> QED
    BY <2>1, <2>2
<1> QED
  BY <1>4, <1>5, <1>6 DEF HeldBy

LEMMA LinksStay ==
  ASSUME AccountsInv, RowsTypeOK', NEW R \in SUBSET Requests, PersonsFrame(R), CallsFrame(R),
         \A s \in Requests \ R : Linking(s) => RowsFrame(s),
         \A r \in R : LinkOK(r)' /\ HeldBy(r)',
         \A r \in R, s \in Requests \ R : Linking(r)' /\ Linking(s) /\ calls'[s] = calls[s] =>
           calls'[r].q.hash # calls[s].q.hash /\ Locks(r)' \cap Locks(s) = {}
  PROVE  LinksInv'
<1> USE DEF AccountsInv
<1>1. ASSUME NEW s \in Requests \ R, Linking(s)'
      PROVE  /\ Linking(s) /\ calls'[s] = calls[s] /\ Locks(s)' = Locks(s)
             /\ LinkOK(s)' /\ HeldBy(s)'
  <2>1. Busy(s)' /\ Linking(s) /\ calls'[s] = calls[s]
    BY <1>1 DEF CallsFrame, Linking, Busy
  <2>2. Locks(s)' = Locks(s)
    BY <2>1 DEF Locks, Written, Renamed
  <2> QED
    BY <1>1, <2>1, <2>2, LinkStays, HeldStays
<1>2. ASSUME NEW s \in Requests PROVE LinkOK(s)' /\ HeldBy(s)'
  <2>1. CASE s \in R
    BY <2>1
  <2>2. CASE s \notin R /\ Linking(s)'
    BY <1>1, <2>2
  <2>3. CASE s \notin R /\ ~Linking(s)' /\ Busy(s)'
    BY <2>3, LinkStays DEF HeldBy
  <2>4. CASE s \notin R /\ ~Busy(s)'
    BY <2>4 DEF HeldBy, LinkOK, Links, Linking
  <2> QED
    BY <2>1, <2>2, <2>3, <2>4
<1>3. ASSUME NEW s \in Requests, NEW t \in Requests, Linking(s)', Linking(t)', s # t
      PROVE  Apart(s, t)'
  <2>1. CASE s \notin R /\ t \notin R
    <3>1. Apart(s, t) /\ calls'[s] = calls[s] /\ calls'[t] = calls[t]
      BY <1>1, <1>3, <2>1 DEF LinksInv
    <3> QED
      BY <1>1, <1>3, <2>1, <3>1 DEF Apart
  <2>2. CASE s \in R /\ t \notin R
    <3>1. Linking(t) /\ calls'[t] = calls[t] /\ Locks(t)' = Locks(t)
      BY <1>1, <1>3, <2>2
    <3> QED
      BY <1>3, <2>2, <3>1 DEF Apart
  <2>3. CASE s \notin R /\ t \in R
    <3>1. Linking(s) /\ calls'[s] = calls[s] /\ Locks(s)' = Locks(s)
      BY <1>1, <1>3, <2>3
    <3>2. calls'[t].q.hash # calls[s].q.hash /\ Locks(t)' \cap Locks(s) = {}
      BY <1>3, <2>3, <3>1
    <3> QED
      BY <3>1, <3>2 DEF Apart
  <2>4. ~(s \in R /\ t \in R)
    BY <1>3 DEF CallsFrame
  <2> QED
    BY <2>1, <2>2, <2>3, <2>4
<1> QED
  BY <1>2, <1>3 DEF LinksInv

\* A step that leaves the rows leaves them to every link.
LEMMA RowsAlone ==
  ASSUME AccountsInv, UNCHANGED prices, NEW s \in Requests, Linking(s)
  PROVE  RowsFrame(s)
<1>1. \A k \in Written(s) : k \in DOMAIN prices
  BY DEF AccountsInv, LinksInv, HeldBy, HeldRows
<1>2. \A k \in DOMAIN prices : prices[k].updated <= prices[k].updated
  BY DEF AccountsInv, RowsTypeOK, PriceRows
<1> QED
  BY <1>1, <1>2 DEF RowsFrame

\* A step that leaves the persons leaves them to every link.
LEMMA PersonsAlone ==
  ASSUME AccountsInv, UNCHANGED <<DOMAIN users, accounts>>, sessions' \subseteq sessions,
         NEW R \in SUBSET Requests
  PROVE  PersonsFrame(R)
<1>1. \A v : LoginOf(v)' = LoginOf(v)
  BY DEF LoginOf
<1>2. ASSUME NEW s \in Requests, Linking(s)
      PROVE  /\ calls[s].q.hash \in DOMAIN accounts /\ accounts[calls[s].q.hash].user = LinkFrom(s)
             /\ LinkFrom(s) \in DOMAIN users /\ LinkFrom(s) \notin sessions
  BY <1>2 DEF AccountsInv, LinksInv, LinkOK, HasLogin, LinkFrom, AccountsTypeOK
<1> QED
  BY <1>1, <1>2 DEF PersonsFrame

-----------------------------------------------------------------------------
(* What one step does, action by action. *)

LEMMA EndsCalls ==
  ASSUME AccountsInv, NEW r \in Requests, Ends(r)
  PROVE  /\ calls' \in [Requests -> Calls \cup {NoCall}] /\ calls'[r] = NoCall /\ now' = now
         /\ \A s \in Requests \ {r} : calls'[s] = calls[s]
         /\ \A s \in Requests : Busy(s)' => Busy(s) /\ calls'[s] = calls[s]
         /\ CallsFrame({})
<1>1. /\ calls' \in [Requests -> Calls \cup {NoCall}] /\ calls'[r] = NoCall /\ now' = now
      /\ \A s \in Requests \ {r} : calls'[s] = calls[s]
  BY DEF Ends, AccountsInv, AccountsTypeOK
<1>2. \A s \in Requests : Busy(s)' => Busy(s) /\ calls'[s] = calls[s]
  BY <1>1 DEF Busy
<1> QED
  BY <1>1, <1>2 DEF CallsFrame

\* A request that ends changes nothing the invariants say of the others.
LEMMA EndsFact ==
  ASSUME AccountsInv, NEW r \in Requests, Ends(r), UNCHANGED people, RowsTypeOK',
         \A s \in Requests : Linking(s) => RowsFrame(s)
  PROVE  AccountsInv'
<1>1. /\ calls' \in [Requests -> Calls \cup {NoCall}] /\ now' = now
      /\ \A s \in Requests : Busy(s)' => Busy(s) /\ calls'[s] = calls[s]
      /\ CallsFrame({})
  BY EndsCalls
<1>2. AccountsTypeOK'
  BY <1>1 DEF AccountsInv, AccountsTypeOK
<1>3. PersonsInv'
  BY DEF AccountsInv, PersonsInv, LoginOf
<1>4. WritesInv'
  BY <1>1 DEF AccountsInv, WritesInv, Writes, There
<1>5. LinksInv'
  BY <1>1, PersonsAlone, LinksStay
<1> QED
  BY <1>2, <1>3, <1>4, <1>5 DEF AccountsInv

LEMMA CutStep ==
  ASSUME AccountsInv, NEW r \in Requests, CutCall(r) PROVE AccountsInv'
BY EndsFact, RowsAlone DEF CutCall, AccountsInv, RowsTypeOK, Ends

LEMMA WrittenPrice ==
  ASSUME AccountsInv, NEW k \in (DOMAIN users) \X Records, NEW live \in BOOLEAN,
         NEW since \in Nat, since <= now,
         prices' = Put(prices, k, PriceRow(live, since)),
         UNCHANGED <<users, events, now>>
  PROVE  RowsTypeOK'
<1> USE DEF AccountsInv
<1>1. ASSUME NEW x \in DOMAIN prices'
      PROVE  /\ x \in (DOMAIN users) \X Records
             /\ prices'[x] \in PriceRows /\ prices'[x].updated <= now /\ prices'[x].admitted <= now
  <2>1. CASE x = k
    <3>1. prices'[x] = [live |-> live, updated |-> now, admitted |-> since] /\ now \in Nat
      BY <2>1 DEF AccountsTypeOK, Put, PriceRow
    <3> QED
      BY <2>1, <3>1 DEF PriceRows
  <2>2. CASE x # k
    <3>1. x \in DOMAIN prices /\ prices'[x] = prices[x]
      BY <1>1, <2>2 DEF Put
    <3> QED
      BY <3>1 DEF RowsTypeOK
  <2> QED
    BY <2>1, <2>2
<1> QED
  BY <1>1 DEF RowsTypeOK

\* A row that no link holds is written between the statements of every link.
LEMMA WrittenBeside ==
  ASSUME AccountsInv, NEW k, NEW live, NEW since,
         prices' = Put(prices, k, PriceRow(live, since)), UNCHANGED now,
         NEW s \in Requests, Linking(s), k \notin Written(s),
         k \in DOMAIN prices \/ k \notin Renamed(s)
  PROVE  RowsFrame(s)
<1> USE DEF AccountsInv
<1>1. /\ DOMAIN prices' = DOMAIN prices \cup {k} /\ prices'[k].updated = now /\ now \in Nat
      /\ \A x \in DOMAIN prices \ {k} : prices'[x] = prices[x]
  <2> DEFINE row == PriceRow(live, since)
  <2>1. row.updated = now /\ now \in Nat
    BY DEF PriceRow, AccountsTypeOK
  <2> HIDE DEF row
  <2>2. prices' = Put(prices, k, row)
    BY DEF row
  <2> QED
    BY <2>1, <2>2 DEF Put
<1>2. \A x \in Written(s) : x \in DOMAIN prices
  BY DEF LinksInv, HeldBy, HeldRows
<1>3. \A x \in DOMAIN prices : prices[x].updated \in Nat /\ prices[x].updated <= now
  BY DEF RowsTypeOK, PriceRows
<1>4. calls[s].since <= now
  BY DEF WritesInv, Linking
<1> QED
  BY <1>1, <1>2, <1>3, <1>4 DEF RowsFrame

LEMMA UpsertPriceStep ==
  ASSUME AccountsInv, NEW r \in Requests, UpsertPrice(r) PROVE AccountsInv'
<1> USE DEF AccountsInv
<1>1. CASE There(r)
  <2>1. calls[r].user \in Persons /\ calls[r].q.record \in Records /\ calls[r].since \in Nat
    BY BusyIsCall DEF UpsertPrice, At, Asks
  <2>2. Row(r) \in (DOMAIN users) \X Records /\ calls[r].since <= now
    BY <1>1, <2>1 DEF There, Row, UpsertPrice, At, WritesInv
  <2>3. /\ prices' = Put(prices, Row(r), PriceRow(TRUE, calls[r].since))
        /\ UNCHANGED <<users, events, now>>
    BY <1>1 DEF UpsertPrice, Ends
  <2>4. RowsTypeOK'
    BY <2>1, <2>2, <2>3, WrittenPrice
  <2>5. ASSUME NEW s \in Requests, Linking(s) PROVE RowsFrame(s)
    BY <2>3, <2>5, WrittenBeside DEF UpsertPrice, Locks
  <2> QED
    BY <2>4, <2>5, EndsFact DEF UpsertPrice
<1>2. CASE ~There(r)
  BY <1>2, EndsFact, RowsAlone DEF UpsertPrice, RowsTypeOK, Ends
<1> QED
  BY <1>1, <1>2

LEMMA RemovePriceStep ==
  ASSUME AccountsInv, NEW r \in Requests, RemovePrice(r) PROVE AccountsInv'
<1> USE DEF AccountsInv
<1>1. CASE Row(r) \in DOMAIN prices
  <2>1. Row(r) \in (DOMAIN users) \X Records
    BY <1>1 DEF RowsTypeOK
  <2>2. calls[r].since \in Nat /\ calls[r].since <= now
    BY BusyIsCall DEF RemovePrice, At, WritesInv
  <2>3. /\ prices' = Put(prices, Row(r), PriceRow(FALSE, calls[r].since))
        /\ UNCHANGED <<users, events, now>>
    BY <1>1 DEF RemovePrice, Ends
  <2>4. RowsTypeOK'
    BY <2>1, <2>2, <2>3, WrittenPrice
  <2>5. ASSUME NEW s \in Requests, Linking(s) PROVE RowsFrame(s)
    BY <1>1, <2>3, <2>5, WrittenBeside DEF RemovePrice
  <2> QED
    BY <2>4, <2>5, EndsFact DEF RemovePrice
<1>2. CASE Row(r) \notin DOMAIN prices
  BY <1>2, EndsFact, RowsAlone DEF RemovePrice, RowsTypeOK, Ends
<1> QED
  BY <1>1, <1>2

LEMMA EventStep ==
  ASSUME AccountsInv, NEW r \in Requests, InsertEvents(r) PROVE AccountsInv'
<1> USE DEF AccountsInv
<1>1. RowsTypeOK'
  <2>1. CASE There(r)
    <3>1. /\ events' = EventsOf(events, calls[r].user, calls[r].since)
          /\ calls[r].since \in Nat /\ calls[r].since <= now /\ calls[r].user \in DOMAIN users
      BY <2>1, BusyIsCall DEF InsertEvents, At, WritesInv, There
    <3>2. \A v \in DOMAIN events : events[v] \in Nat
      BY DEF RowsTypeOK
    <3> DEFINE w == calls[r].user   since == calls[r].since
    <3>4. /\ DOMAIN events' = DOMAIN events \cup {w} /\ events'[w] \in Nat
          /\ \A v \in DOMAIN events \ {w} : events'[v] = events[v]
          /\ events'[w] = since \/ (w \in DOMAIN events /\ events'[w] = events[w])
      <4>1. /\ events' = EventsOf(events, w, since) /\ since \in Nat
            /\ \A v \in DOMAIN events : events[v] \in Nat
        BY <3>1, <3>2
      <4> HIDE DEF w, since
      <4> QED
        BY <4>1 DEF EventsOf, Put, Later
    <3>3. \A u \in DOMAIN events' : u \in DOMAIN users /\ events'[u] \in Nat /\ events'[u] <= now
      BY <3>1, <3>2, <3>4 DEF RowsTypeOK
    <3> QED
      BY <3>3 DEF InsertEvents, RowsTypeOK, Ends
  <2>2. CASE ~There(r)
    BY <2>2 DEF InsertEvents, RowsTypeOK, Ends
  <2> QED
    BY <2>1, <2>2
<1> QED
  BY <1>1, EndsFact, RowsAlone DEF InsertEvents

LEMMA CopyStep ==
  ASSUME AccountsInv, NEW r \in Requests, UpsertCopy(r) \/ RemoveCopy(r) PROVE AccountsInv'
BY EndsFact, RowsAlone DEF UpsertCopy, RemoveCopy, AccountsInv, RowsTypeOK, Ends

-----------------------------------------------------------------------------
(* Who asks: a credential that is known, or a new one with a person of its own. *)

Joined(cred, u) ==
  /\ DOMAIN accounts' = DOMAIN accounts \cup {cred}
  /\ \A a \in DOMAIN accounts \ {cred} : accounts'[a] = accounts[a]
  /\ accounts'[cred] \in [user : {u}, device : {Device, None}]

\* Nobody else notices: persons, their deletions and their logins stay.
LEMMA JoinedFact ==
  ASSUME AccountsInv, NEW cred \in Logins \cup Hashes, NEW u \in Persons,
         Found(cred, u), Joined(cred, u)
  PROVE  /\ DOMAIN users' = DOMAIN users \cup {u} /\ DOMAIN users' \subseteq Persons
         /\ \A v \in DOMAIN users : users'[v] = users[v]
         /\ u \notin DOMAIN users => users'[u] = None /\ u \notin Meant
         /\ \A a \in DOMAIN accounts : accounts'[a].user = accounts[a].user
         /\ \A a \in DOMAIN accounts' :
              accounts'[a] \in [user : DOMAIN users', device : {Device, None}]
         /\ \A v \in DOMAIN users : LoginOf(v)' = LoginOf(v)
         /\ \A a, b \in DOMAIN accounts' :
              a # b /\ accounts'[a].user = accounts'[b].user => LoginOf(accounts[a].user)'
<1> USE DEF AccountsInv, AccountsTypeOK
<1>1. /\ DOMAIN users' = DOMAIN users \cup {u} /\ DOMAIN users' \subseteq Persons
      /\ \A v \in DOMAIN users : users'[v] = users[v]
      /\ u \notin DOMAIN users => users'[u] = None /\ u \notin Meant
  <2>1. CASE cred \in DOMAIN accounts
    BY <2>1 DEF Found
  <2>2. CASE cred \notin DOMAIN accounts
    <3>1. u \notin DOMAIN users /\ u \notin Meant /\ users' = Put(users, u, None)
      BY <2>2, FreshFact DEF Found
    <3> QED
      BY <3>1 DEF Put
  <2> QED
    BY <2>1, <2>2
<1>2. \A a \in DOMAIN accounts : accounts'[a].user = accounts[a].user
  BY DEF Found, Joined
<1>3. \A a \in DOMAIN accounts' :
        accounts'[a] \in [user : DOMAIN users', device : {Device, None}]
  BY <1>1 DEF Joined
<1>4. cred \notin DOMAIN accounts => u \notin DOMAIN users
  BY FreshFact DEF Found
<1>5. \A v \in DOMAIN users : LoginOf(v)' = LoginOf(v)
  <2> SUFFICES ASSUME NEW v \in DOMAIN users PROVE LoginOf(v)' <=> LoginOf(v)
    BY DEF LoginOf
  <2>1. ASSUME LoginOf(v) PROVE LoginOf(v)'
    BY <1>2, <2>1 DEF LoginOf, Joined
  <2>2. ASSUME LoginOf(v)' PROVE LoginOf(v)
    <3>1. PICK l \in Logins \cap DOMAIN accounts' : accounts'[l].user = v
      BY <2>2 DEF LoginOf
    <3>2. l \in DOMAIN accounts
      BY <1>4, <3>1 DEF Joined
    <3> QED
      BY <1>2, <3>1, <3>2 DEF LoginOf
  <2> QED
    BY <2>1, <2>2
<1>6. ASSUME NEW a \in DOMAIN accounts', NEW b \in DOMAIN accounts', a # b,
             accounts'[a].user = accounts'[b].user
      PROVE  LoginOf(accounts[a].user)'
  <2>1. a \in DOMAIN accounts /\ b \in DOMAIN accounts
    BY <1>2, <1>4, <1>6 DEF Joined
  <2>2. LoginOf(accounts[a].user)
    BY <1>2, <1>6, <2>1 DEF PersonsInv
  <2> QED
    BY <1>2, <1>5, <2>1, <2>2 DEF LoginOf
<1> QED
  BY <1>1, <1>2, <1>3, <1>5, <1>6

LEMMA RecordedJoins ==
  ASSUME AccountsInv, NEW cred, NEW u, Found(cred, u), Recorded(cred, u)
  PROVE  Joined(cred, u)
<1>1. CASE cred \in DOMAIN accounts
  BY <1>1 DEF Found, Recorded, Joined, Put, AccountsInv, AccountsTypeOK, Device
<1>2. CASE cred \notin DOMAIN accounts
  BY <1>2 DEF Found, Recorded, Joined, Put, Device
<1> QED
  BY <1>1, <1>2

LEMMA JoinedFrame ==
  ASSUME AccountsInv, NEW cred \in Logins \cup Hashes, NEW u \in Persons,
         Found(cred, u), Joined(cred, u), NEW R \in SUBSET Requests,
         sessions' = sessions \/ (sessions' = sessions \cup {u} /\ cred \in Logins)
  PROVE  PersonsFrame(R)
<1> USE DEF AccountsInv
<1>1. /\ DOMAIN users' = DOMAIN users \cup {u}
      /\ u \notin DOMAIN users => u \notin Meant
      /\ \A a \in DOMAIN accounts : accounts'[a].user = accounts[a].user
      /\ \A v \in DOMAIN users : LoginOf(v)' = LoginOf(v)
  BY JoinedFact
<1>2. \A s \in Requests :
        Busy(s) /\ calls[s].user \in DOMAIN users' => calls[s].user \in DOMAIN users
  BY <1>1 DEF Meant, Busy
<1>3. ASSUME NEW s \in Requests, Linking(s)
      PROVE  /\ calls[s].q.hash \in DOMAIN accounts'
             /\ accounts'[calls[s].q.hash].user = LinkFrom(s)
             /\ LinkFrom(s) \in DOMAIN users' /\ LinkFrom(s) \notin sessions'
  <2> DEFINE from == LinkFrom(s)
  <2>1. calls[s].q.hash \in DOMAIN accounts /\ ~HasLogin(from)
    BY <1>3 DEF LinksInv, LinkOK
  <2>2. /\ calls[s].q.hash \in DOMAIN accounts' /\ accounts'[calls[s].q.hash].user = from
        /\ from \in DOMAIN users
    BY <1>1, <2>1 DEF LinkFrom, Joined, AccountsTypeOK
  <2>3. ~LoginOf(from) /\ from \notin sessions
    BY <2>1 DEF HasLogin, LoginOf
  <2>4. cred \in Logins => from # u
    <3> SUFFICES ASSUME cred \in Logins, from = u PROVE FALSE
      OBVIOUS
    <3>1. cred \in Logins \cap DOMAIN accounts' /\ accounts'[cred].user = u
      BY DEF Joined
    <3>2. LoginOf(u)'
      BY <3>1 DEF LoginOf
    <3>3. LoginOf(u)' = LoginOf(u)
      BY <1>1, <2>2
    <3> QED
      BY <2>3, <3>2, <3>3
  <2> QED
    BY <1>1, <2>2, <2>3, <2>4
<1> QED
  BY <1>1, <1>2, <1>3 DEF PersonsFrame

LEMMA GuardStep ==
  ASSUME AccountsInv, NEW ops, NEW logins \in SUBSET Logins, NEW r \in Requests,
         Guard(r, ops, logins)
  PROVE  AccountsInv'
<1>1. PICK cred \in logins \cup Hashes, q \in Asks(ops), u \in Persons :
        /\ ~Busy(r)
        /\ q.op = "link" => cred \in Logins
        /\ Found(cred, u)
        /\ Recorded(cred, u)
        /\ calls' = IF MayWrite(q.op, u)
                    THEN [calls EXCEPT ![r] = Call(q, u, "go", now, {}, {}, FALSE)] ELSE calls
        /\ UNCHANGED <<sessions, records, now>>
  BY DEF Guard
<1>2. cred \in Logins \cup Hashes /\ q \in Asks(AllOps)
  BY DEF Asks, AllOps
<1>3. Joined(cred, u)
  BY <1>1, RecordedJoins
<1> DEFINE call == Call(q, u, "go", now, {}, {}, FALSE)
<1>4. /\ DOMAIN users' = DOMAIN users \cup {u} /\ DOMAIN users' \subseteq Persons
      /\ \A v \in DOMAIN users : users'[v] = users[v]
      /\ u \notin DOMAIN users => users'[u] = None /\ u \notin Meant
      /\ \A a \in DOMAIN accounts : accounts'[a].user = accounts[a].user
      /\ \A a \in DOMAIN accounts' :
           accounts'[a] \in [user : DOMAIN users', device : {Device, None}]
      /\ \A v \in DOMAIN users : LoginOf(v)' = LoginOf(v)
      /\ \A a, b \in DOMAIN accounts' :
           a # b /\ accounts'[a].user = accounts'[b].user => LoginOf(accounts[a].user)'
  BY <1>1, <1>2, <1>3, JoinedFact
<1>5. /\ call \in Calls /\ call.user = u /\ call.q = q /\ call.step = "go" /\ call.since = now
  <2>1. now \in Nat /\ {} \in SUBSET Keys /\ FALSE \in BOOLEAN
    BY DEF AccountsInv, AccountsTypeOK
  <2> QED
    BY <1>2, <2>1 DEF Calls, Call, LinkSteps
<1> HIDE DEF call
<1>6. calls' = calls \/ (calls' = [calls EXCEPT ![r] = call] /\ MayWrite(q.op, u))
  BY <1>1 DEF call
<1>7. /\ calls' \in [Requests -> Calls \cup {NoCall}]
      /\ \A s \in Requests \ {r} : calls'[s] = calls[s]
      /\ \/ calls'[r] = calls[r]
         \/ calls'[r] = call /\ MayWrite(q.op, u)
  BY <1>5, <1>6 DEF AccountsInv, AccountsTypeOK
<1>8. AccountsTypeOK'
  BY <1>1, <1>2, <1>3, <1>4, <1>7 DEF AccountsInv, AccountsTypeOK, Joined
<1>9. RowsTypeOK'
  BY <1>1, <1>4 DEF AccountsInv, RowsTypeOK
<1>10. PersonsInv'
  BY <1>1, <1>4 DEF AccountsInv, AccountsTypeOK, PersonsInv
<1>11. ASSUME NEW s \in Requests, Busy(s)'
       PROVE  \/ Busy(s) /\ calls'[s] = calls[s]
              \/ s = r /\ calls'[r] = call /\ MayWrite(q.op, u)
  BY <1>1, <1>7, <1>11 DEF Busy
<1>12. WritesInv'
  <2>1. ASSUME NEW s \in Requests, Busy(s)' PROVE calls'[s].since <= now
    <3>1. CASE Busy(s) /\ calls'[s] = calls[s]
      BY <3>1 DEF AccountsInv, WritesInv
    <3>2. CASE s = r /\ calls'[r] = call
      BY <1>5, <3>2 DEF AccountsInv, AccountsTypeOK
    <3> QED
      BY <1>11, <2>1, <3>1, <3>2
  <2>2. ASSUME NEW s \in Requests, Writes(s)', There(s)', users'[calls'[s].user] # None
        PROVE  calls'[s].since <= users'[calls'[s].user]
    <3>1. CASE Busy(s) /\ calls'[s] = calls[s]
      <4>1. Writes(s) /\ calls[s].user \in Meant /\ calls[s].user \in DOMAIN users'
        BY <2>2, <3>1 DEF Writes, Busy, Meant, There
      <4>2. calls[s].user \in DOMAIN users
        BY <1>4, <4>1
      <4> QED
        BY <1>4, <2>2, <3>1, <4>1, <4>2 DEF AccountsInv, WritesInv, There
    <3>2. CASE s = r /\ calls'[r] = call /\ MayWrite(q.op, u)
      <4>1. q.op \notin {"delete", "cancel"}
        BY <1>5, <2>2, <3>2 DEF Writes
      <4> QED
        BY <1>4, <1>5, <2>2, <3>2, <4>1 DEF MayWrite
    <3>3. Busy(s)'
      BY <2>2 DEF Writes
    <3> QED
      BY <1>11, <3>1, <3>2, <3>3
  <2> QED
    BY <1>1, <2>1, <2>2 DEF WritesInv
<1>13. LinksInv'
  <2>1. CASE calls'[r] = calls[r]
    <3>1. CallsFrame({}) /\ PersonsFrame({})
      BY <1>1, <1>2, <1>3, <1>7, <2>1, JoinedFrame DEF CallsFrame, Busy
    <3> QED
      BY <1>1, <1>9, <3>1, LinksStay, RowsAlone
  <2>2. CASE calls'[r] = call
    <3>1. CallsFrame({r}) /\ PersonsFrame({r})
      BY <1>1, <1>2, <1>3, <1>7, JoinedFrame DEF CallsFrame, Busy
    <3>2. ~Linking(r)'
      BY <1>5, <2>2 DEF Linking
    <3>3. LinkOK(r)' /\ HeldBy(r)'
      <4>1. Links(r)' => LoginOf(u)'
        BY <1>1, <1>3, <1>5, <2>2 DEF Links, Joined, LoginOf
      <4>2. Links(r)' => LoginOf(calls[r].user)'
        BY <1>5, <2>2, <4>1 DEF LoginOf
      <4> QED
        BY <1>5, <2>2, <3>2, <4>2 DEF LinkOK, HeldBy, LinkSteps
    <3> QED
      BY <1>1, <1>9, <3>1, <3>2, <3>3, LinksStay, RowsAlone
  <2> QED
    BY <1>7, <2>1, <2>2
<1> QED
  BY <1>8, <1>9, <1>10, <1>12, <1>13 DEF AccountsInv

LEMMA LoginStep ==
  ASSUME AccountsInv, NEW l \in Logins, Login(l) PROVE AccountsInv'
<1>1. PICK u \in Persons :
        /\ Found(l, u)
        /\ accounts' = IF l \in DOMAIN accounts THEN accounts
                       ELSE Put(accounts, l, [user |-> u, device |-> None])
        /\ sessions' = sessions \cup {u}
        /\ UNCHANGED <<records, calls, now>>
  BY DEF Login
<1>2. Joined(l, u)
  <2>1. CASE l \in DOMAIN accounts
    BY <1>1, <2>1 DEF Found, Joined, AccountsInv, AccountsTypeOK
  <2>2. CASE l \notin DOMAIN accounts
    BY <1>1, <2>2 DEF Joined, Put
  <2> QED
    BY <2>1, <2>2
<1>3. /\ DOMAIN users' = DOMAIN users \cup {u} /\ DOMAIN users' \subseteq Persons
      /\ \A v \in DOMAIN users : users'[v] = users[v]
      /\ u \notin DOMAIN users => users'[u] = None /\ u \notin Meant
      /\ \A a \in DOMAIN accounts : accounts'[a].user = accounts[a].user
      /\ \A a \in DOMAIN accounts' :
           accounts'[a] \in [user : DOMAIN users', device : {Device, None}]
      /\ \A v \in DOMAIN users : LoginOf(v)' = LoginOf(v)
      /\ \A a, b \in DOMAIN accounts' :
           a # b /\ accounts'[a].user = accounts'[b].user => LoginOf(accounts[a].user)'
  BY <1>1, <1>2, JoinedFact
<1>4. LoginOf(u)'
  BY <1>2 DEF Joined, LoginOf
<1>5. AccountsTypeOK'
  BY <1>1, <1>2, <1>3 DEF AccountsInv, AccountsTypeOK, Joined
<1>6. RowsTypeOK'
  BY <1>1, <1>3 DEF AccountsInv, RowsTypeOK
<1>7. PersonsInv'
  <2>1. ASSUME NEW v \in sessions' PROVE LoginOf(v)'
    <3>1. CASE v = u
      BY <1>4, <3>1
    <3>2. CASE v \in sessions
      <4>1. v \in DOMAIN users /\ LoginOf(v)
        BY <3>2 DEF AccountsInv, AccountsTypeOK, PersonsInv
      <4> QED
        BY <1>3, <4>1
    <3> QED
      BY <1>1, <2>1, <3>1, <3>2
  <2> QED
    BY <1>3, <2>1 DEF PersonsInv
<1>8. WritesInv'
  <2> SUFFICES ASSUME NEW s \in Requests, Writes(s)', There(s)', users'[calls'[s].user] # None
               PROVE  calls'[s].since <= users'[calls'[s].user]
    BY <1>1 DEF AccountsInv, WritesInv, Busy
  <2>1. Writes(s) /\ calls[s].user \in Meant /\ calls[s].user \in DOMAIN users'
    BY <1>1 DEF Writes, Busy, Meant, There
  <2>2. calls[s].user \in DOMAIN users
    BY <1>3, <2>1
  <2> QED
    BY <1>1, <1>3, <2>1, <2>2 DEF AccountsInv, WritesInv, There
<1>9. LinksInv'
  <2>1. CallsFrame({}) /\ PersonsFrame({})
    BY <1>1, <1>2, JoinedFrame DEF CallsFrame, Busy
  <2> QED
    BY <1>1, <1>6, <2>1, LinksStay, RowsAlone
<1> QED
  BY <1>5, <1>6, <1>7, <1>8, <1>9 DEF AccountsInv

LEMMA EndSessionStep ==
  ASSUME AccountsInv, NEW u \in sessions, EndSession(u) PROVE AccountsInv'
<1> USE DEF EndSession
<1>1. AccountsTypeOK' /\ RowsTypeOK' /\ PersonsInv' /\ WritesInv'
  BY DEF AccountsInv, AccountsTypeOK, RowsTypeOK, PersonsInv, LoginOf, WritesInv, Writes, Busy,
         There
<1>2. PersonsFrame({}) /\ CallsFrame({})
  BY PersonsAlone DEF CallsFrame, Busy
<1>3. LinksInv'
  BY <1>1, <1>2, LinksStay, RowsAlone
<1> QED
  BY <1>1, <1>3 DEF AccountsInv

LEMMA TimePassesStep ==
  ASSUME AccountsInv, TimePasses PROVE AccountsInv'
<1>1. now' = now + 1 /\ now \in Nat /\ UNCHANGED <<people, records, calls>>
  BY DEF TimePasses, AccountsInv, AccountsTypeOK
<1>2. AccountsTypeOK' /\ PersonsInv'
  BY <1>1 DEF AccountsInv, AccountsTypeOK, PersonsInv, LoginOf
<1>3. RowsTypeOK'
  BY <1>1 DEF AccountsInv, RowsTypeOK, PriceRows
<1>4. WritesInv'
  <2>1. \A s \in Requests : Busy(s) => calls[s].since \in Nat
    BY BusyIsCall DEF AccountsInv
  <2> QED
    BY <1>1, <2>1 DEF AccountsInv, WritesInv, Writes, Busy, There
<1>5. PersonsFrame({}) /\ CallsFrame({})
  BY <1>1, PersonsAlone DEF CallsFrame, Busy
<1>6. LinksInv'
  BY <1>1, <1>3, <1>5, LinksStay, RowsAlone
<1> QED
  BY <1>2, <1>3, <1>4, <1>6 DEF AccountsInv

-----------------------------------------------------------------------------
(* Deletion. *)

LEMMA RequestDeletionStep ==
  ASSUME AccountsInv, NEW r \in Requests, RequestDeletion(r) PROVE AccountsInv'
<1> USE DEF AccountsInv
<1>1. /\ DOMAIN users' = DOMAIN users
      /\ \A u \in DOMAIN users : users'[u] = users[u] \/ users'[u] = now
  BY DEF RequestDeletion, There, AccountsTypeOK
<1>2. /\ Busy(r) /\ calls[r].step = "go" /\ calls[r].q.op = "delete" /\ calls[r] \in Calls
      /\ calls' = [calls EXCEPT ![r].step = "sessions"]
      /\ UNCHANGED <<accounts, sessions, records, now>>
  BY BusyIsCall DEF RequestDeletion, At
<1>3. /\ calls' \in [Requests -> Calls \cup {NoCall}]
      /\ \A s \in Requests \ {r} : calls'[s] = calls[s]
      /\ calls'[r].step = "sessions" /\ calls'[r].q = calls[r].q /\ calls'[r].since = calls[r].since
  BY <1>2 DEF AccountsTypeOK, Calls, LinkSteps
<1>4. AccountsTypeOK'
  BY <1>1, <1>2, <1>3 DEF AccountsTypeOK
<1>5. RowsTypeOK' /\ PersonsInv'
  BY <1>1, <1>2 DEF RowsTypeOK, PersonsInv, LoginOf
<1>6. WritesInv'
  <2>1. ASSUME NEW s \in Requests, Busy(s)' PROVE calls'[s].since <= now
    BY <1>2, <1>3, <2>1 DEF WritesInv, Busy
  <2>2. ASSUME NEW s \in Requests, Writes(s)', There(s)', users'[calls'[s].user] # None
        PROVE  calls'[s].since <= users'[calls'[s].user]
    <3>1. s # r /\ Writes(s) /\ There(s) /\ calls'[s] = calls[s]
      BY <1>1, <1>3, <2>2 DEF Writes, Busy, There
    <3>2. CASE users'[calls[s].user] = now
      BY <2>1, <2>2, <3>1, <3>2 DEF Writes
    <3>3. CASE users'[calls[s].user] = users[calls[s].user]
      BY <2>2, <3>1, <3>3 DEF WritesInv
    <3> QED
      BY <1>1, <3>1, <3>2, <3>3 DEF There
  <2> QED
    BY <1>2, <2>1, <2>2 DEF WritesInv
<1>7. LinksInv'
  <2>1. PersonsFrame({r}) /\ CallsFrame({r})
    BY <1>1, <1>2, <1>3, PersonsAlone DEF CallsFrame, Busy
  <2>2. ~Links(r)' /\ ~Linking(r)'
    BY <1>2, <1>3 DEF Links, Linking
  <2>3. LinkOK(r)' /\ HeldBy(r)'
    BY <2>2 DEF LinkOK, HeldBy
  <2> QED
    BY <1>2, <1>5, <2>1, <2>2, <2>3, LinksStay, RowsAlone
<1> QED
  BY <1>4, <1>5, <1>6, <1>7

LEMMA CancelDeletionStep ==
  ASSUME AccountsInv, NEW r \in Requests, CancelDeletion(r) PROVE AccountsInv'
<1>1. /\ DOMAIN users' = DOMAIN users
      /\ \A u \in DOMAIN users : users'[u] \in {users[u], None}
      /\ UNCHANGED <<accounts, sessions, records>> /\ Ends(r)
  BY DEF CancelDeletion, There, AccountsInv, AccountsTypeOK
<1>2. /\ calls' \in [Requests -> Calls \cup {NoCall}] /\ now' = now
      /\ \A s \in Requests : Busy(s)' => Busy(s) /\ calls'[s] = calls[s]
      /\ CallsFrame({})
  BY <1>1, EndsCalls
<1>3. AccountsTypeOK'
  BY <1>1, <1>2 DEF AccountsInv, AccountsTypeOK
<1>4. RowsTypeOK' /\ PersonsInv'
  BY <1>1, <1>2 DEF AccountsInv, RowsTypeOK, PersonsInv, LoginOf
<1>5. WritesInv'
  BY <1>1, <1>2 DEF AccountsInv, WritesInv, Writes, There
<1>6. LinksInv'
  BY <1>1, <1>2, <1>4, PersonsAlone, LinksStay, RowsAlone
<1> QED
  BY <1>3, <1>4, <1>5, <1>6 DEF AccountsInv

LEMMA DropSessionsStep ==
  ASSUME AccountsInv, NEW r \in Requests, DropSessions(r) PROVE AccountsInv'
<1>1. /\ UNCHANGED <<users, accounts, records>> /\ sessions' \subseteq sessions /\ Ends(r)
  BY DEF DropSessions
<1>2. /\ calls' \in [Requests -> Calls \cup {NoCall}] /\ now' = now
      /\ \A s \in Requests : Busy(s)' => Busy(s) /\ calls'[s] = calls[s]
      /\ CallsFrame({})
  BY <1>1, EndsCalls
<1>3. AccountsTypeOK' /\ RowsTypeOK' /\ PersonsInv'
  BY <1>1, <1>2 DEF AccountsInv, AccountsTypeOK, RowsTypeOK, PersonsInv, LoginOf
<1>4. WritesInv'
  BY <1>1, <1>2 DEF AccountsInv, WritesInv, Writes, There
<1>5. LinksInv'
  BY <1>1, <1>2, <1>3, PersonsAlone, LinksStay, RowsAlone
<1> QED
  BY <1>3, <1>4, <1>5 DEF AccountsInv

LEMMA PurgeStep ==
  ASSUME AccountsInv, Purge PROVE AccountsInv'
<1> DEFINE due == {u \in DOMAIN users : users[u] # None /\ users[u] + Grace < now}
<1> USE DEF AccountsInv
<1>1. /\ users' = Drop(users, due)
      /\ accounts' = Drop(accounts, UNION {AccountsOf(u) : u \in due})
      /\ sessions' = sessions \ due
      /\ prices' = Drop(prices, RowsBy(prices, due))
      /\ events' = Drop(events, due)
      /\ UNCHANGED <<calls, now>>
      /\ \A u \in due : ~Pinned(u)
  BY DEF Purge
<1>2. due \subseteq DOMAIN users
  OBVIOUS
<1> HIDE DEF due
<1>3. /\ DOMAIN users' = DOMAIN users \ due /\ \A u \in DOMAIN users' : users'[u] = users[u]
      /\ DOMAIN prices' = {k \in DOMAIN prices : k[1] \notin due}
      /\ \A k \in DOMAIN prices' : prices'[k] = prices[k]
      /\ DOMAIN events' = DOMAIN events \ due /\ \A u \in DOMAIN events' : events'[u] = events[u]
  BY <1>1 DEF Drop, RowsBy
<1>4. /\ DOMAIN accounts' = {a \in DOMAIN accounts : accounts[a].user \notin due}
      /\ \A a \in DOMAIN accounts' : accounts'[a] = accounts[a]
  BY <1>1 DEF Drop, AccountsOf
<1>5. AccountsTypeOK'
  <2>1. \A a \in DOMAIN accounts' : accounts'[a] \in [user : DOMAIN users', device : {Device, None}]
    BY <1>3, <1>4 DEF AccountsTypeOK
  <2> QED
    BY <1>1, <1>3, <1>4, <2>1 DEF AccountsTypeOK
<1>6. RowsTypeOK'
  <2>1. ASSUME NEW k \in DOMAIN prices' PROVE k \in (DOMAIN users') \X Records
    <3>1. k \in (DOMAIN users) \X Records /\ k[1] \notin due
      BY <1>3, <2>1 DEF RowsTypeOK
    <3> QED
      BY <1>3, <3>1
  <2> QED
    BY <1>1, <1>3, <2>1 DEF RowsTypeOK
<1>7. \A v : v \notin due => LoginOf(v)' = LoginOf(v)
  BY <1>4 DEF LoginOf
<1>8. PersonsInv'
  <2>1. ASSUME NEW v \in sessions' PROVE LoginOf(v)'
    BY <1>1, <1>7, <2>1 DEF PersonsInv
  <2>2. ASSUME NEW a \in DOMAIN accounts', NEW b \in DOMAIN accounts', a # b,
               accounts'[a].user = accounts'[b].user
        PROVE  LoginOf(accounts[a].user)'
    <3>1. accounts[a].user \notin due /\ LoginOf(accounts[a].user) /\ accounts'[a] = accounts[a]
      BY <1>4, <2>2 DEF PersonsInv
    <3> QED
      BY <1>7, <3>1 DEF LoginOf
  <2> QED
    BY <2>1, <2>2 DEF PersonsInv
<1>9. WritesInv'
  BY <1>1, <1>3 DEF WritesInv, Writes, Busy, There
<1>10. PersonsFrame({}) /\ CallsFrame({})
  <2>1. ASSUME NEW s \in Requests, Linking(s)
        PROVE  /\ calls[s].q.hash \in DOMAIN accounts'
               /\ accounts'[calls[s].q.hash].user = LinkFrom(s)
               /\ LinkFrom(s) \in DOMAIN users' /\ LinkFrom(s) \notin sessions'
    <3>1. LinkFrom(s) \notin due
      BY <1>1, <2>1 DEF Pinned
    <3>2. calls[s].q.hash \in DOMAIN accounts /\ ~HasLogin(LinkFrom(s))
      BY <2>1 DEF LinksInv, LinkOK
    <3> QED
      BY <1>1, <1>3, <1>4, <3>1, <3>2 DEF LinkFrom, HasLogin, AccountsTypeOK
  <2> QED
    BY <1>1, <1>3, <1>7, <2>1 DEF PersonsFrame, CallsFrame, Busy
<1>11. ASSUME NEW s \in Requests, Linking(s) PROVE RowsFrame(s)
  <2> DEFINE to == calls[s].user
  <2>1. HeldRows(s) /\ LinkFrom(s) \notin due
    BY <1>1, <1>11 DEF LinksInv, HeldBy, Pinned
  <2>2. ASSUME NEW k \in Written(s) PROVE k[1] \notin due
    <3>1. k[1] = to /\ to # LinkFrom(s) => k \in calls[s].gone
      BY <2>1, <2>2 DEF HeldRows, Written
    <3>2. k[1] = to /\ to # LinkFrom(s) => Pinned(to)
      BY <1>11, <3>1 DEF Pinned
    <3> QED
      BY <1>1, <2>1, <2>2, <3>2 DEF HeldRows
  <2>3. \A k \in DOMAIN prices : prices[k].updated <= prices[k].updated
    BY DEF RowsTypeOK, PriceRows
  <2> QED
    BY <1>3, <2>1, <2>2, <2>3 DEF RowsFrame, HeldRows
<1>12. LinksInv'
  BY <1>6, <1>10, <1>11, LinksStay
<1> QED
  BY <1>5, <1>6, <1>8, <1>9, <1>12

-----------------------------------------------------------------------------
(* Linking. *)

\* The person a link takes has one credential, a hash, and no session.
LEMMA LinkingFact ==
  ASSUME AccountsInv, NEW r \in Requests, Linking(r)
  PROVE  /\ calls[r] \in Calls /\ Links(r) /\ (There(r) => LoginOf(calls[r].user))
         /\ calls[r].q.hash \in DOMAIN accounts /\ calls[r].q.hash \notin Logins
         /\ LinkFrom(r) \in DOMAIN users /\ LinkFrom(r) \notin sessions
         /\ ~LoginOf(LinkFrom(r)) /\ LinkFrom(r) # calls[r].user
         /\ AccountsOf(LinkFrom(r)) = {calls[r].q.hash}
<1> USE DEF AccountsInv
<1> DEFINE from == LinkFrom(r)   hash == calls[r].q.hash
<1>1. /\ Links(r) /\ hash \in DOMAIN accounts /\ ~HasLogin(from)
      /\ There(r) => LoginOf(calls[r].user)
  BY DEF LinksInv, LinkOK
<1>2. calls[r] \in Calls /\ calls[r].q \in Asks(AllOps) /\ calls[r].q.op = "link"
  BY <1>1, BusyIsCall DEF Linking, Links
<1>3. hash \in Hashes /\ hash \notin Logins
  BY <1>2, AccountsAssumption DEF Asks
<1>4. from \in DOMAIN users /\ accounts[hash].user = from
  BY <1>1 DEF AccountsTypeOK, LinkFrom
<1>5. ~LoginOf(from) /\ from \notin sessions
  BY <1>1 DEF HasLogin, LoginOf
<1>6. \A a \in DOMAIN accounts : accounts[a].user = from => a = hash
  BY <1>1, <1>4, <1>5 DEF PersonsInv
<1>7. AccountsOf(from) = {hash}
  BY <1>1, <1>4, <1>6 DEF AccountsOf
<1>8. from # calls[r].user
  BY <1>1, <1>4, <1>5 DEF There
<1> QED
  BY <1>1, <1>2, <1>3, <1>4, <1>5, <1>7, <1>8

\* Two links go from different persons, and neither to the person the other goes from.
LEMMA FromsDiffer ==
  ASSUME AccountsInv, NEW r \in Requests, Linking(r), NEW s \in Requests, Linking(s), r # s
  PROVE  LinkFrom(r) # LinkFrom(s) /\ LinkFrom(r) # calls[s].user
<1>1. /\ AccountsOf(LinkFrom(r)) = {calls[r].q.hash} /\ AccountsOf(LinkFrom(s)) = {calls[s].q.hash}
      /\ LinkFrom(r) \in DOMAIN users /\ ~LoginOf(LinkFrom(r))
      /\ There(s) => LoginOf(calls[s].user)
  BY LinkingFact
<1>2. calls[r].q.hash # calls[s].q.hash
  BY DEF AccountsInv, LinksInv, Apart
<1> QED
  BY <1>1, <1>2 DEF There

\* A link goes on: its call is the same but for what it has done.
LEMMA GoesFact ==
  ASSUME AccountsInv, NEW r \in Requests, Busy(r), NEW step \in LinkSteps,
         NEW gone \in SUBSET Keys, NEW moved \in SUBSET Keys, NEW event \in BOOLEAN,
         Links(r), Goes(r, step, gone, moved, event), UNCHANGED <<people, records>>
  PROVE  /\ AccountsTypeOK' /\ RowsTypeOK' /\ PersonsInv' /\ WritesInv' /\ CallsFrame({r})
         /\ PersonsFrame({r})
         /\ calls'[r].q = calls[r].q /\ calls'[r].user = calls[r].user
         /\ calls'[r].step = step /\ calls'[r].since = calls[r].since
         /\ calls'[r].gone = gone /\ calls'[r].moved = moved
<1> DEFINE call == Call(calls[r].q, calls[r].user, step, calls[r].since, gone, moved, event)
<1>1. calls[r] \in Calls
  BY BusyIsCall DEF AccountsInv
<1>2. /\ call \in Calls /\ call.q = calls[r].q /\ call.user = calls[r].user /\ call.step = step
      /\ call.since = calls[r].since /\ call.gone = gone /\ call.moved = moved
  BY <1>1 DEF Call, Calls
<1>3. calls' = [calls EXCEPT ![r] = call] /\ now' = now
  BY DEF Goes
<1> HIDE DEF call
<1>4. /\ calls' \in [Requests -> Calls \cup {NoCall}] /\ calls'[r] = call
      /\ \A s \in Requests \ {r} : calls'[s] = calls[s]
  BY <1>2, <1>3 DEF AccountsInv, AccountsTypeOK
<1>5. AccountsTypeOK' /\ RowsTypeOK' /\ PersonsInv'
  BY <1>3, <1>4 DEF AccountsInv, AccountsTypeOK, RowsTypeOK, PersonsInv, LoginOf
<1>6. Writes(r)
  BY DEF Links, Writes, AccountsInv, LinksInv, LinkOK, LinkSteps
<1>7. \A s \in Requests \ {r} : Busy(s)' => Busy(s)
  BY <1>4 DEF Busy
<1>8. WritesInv'
  <2>1. ASSUME NEW s \in Requests, Busy(s)'
        PROVE  /\ Busy(s) /\ (Writes(s)' => Writes(s))
               /\ calls'[s].since = calls[s].since /\ calls'[s].user = calls[s].user
    <3>1. CASE s = r
      BY <1>2, <1>4, <1>6, <3>1
    <3>2. CASE s # r
      BY <1>4, <1>7, <2>1, <3>2 DEF Writes
    <3> QED
      BY <3>1, <3>2
  <2> QED
    BY <1>3, <2>1 DEF AccountsInv, WritesInv, Writes, There
<1>9. CallsFrame({r}) /\ PersonsFrame({r})
  BY <1>4, <1>7, PersonsAlone DEF CallsFrame
<1> QED
  BY <1>2, <1>4, <1>5, <1>8, <1>9

\* It is still from a person of one key to one who logs in.
LEMMA LinkKeeps ==
  ASSUME AccountsInv, NEW r \in Requests, Linking(r), UNCHANGED people,
         calls'[r].q = calls[r].q, calls'[r].user = calls[r].user,
         calls'[r].step \in {"move", "commit"}
  PROVE  LinkOK(r)'
<1>1. /\ Links(r) /\ calls[r].q.hash \in DOMAIN accounts /\ ~HasLogin(LinkFrom(r))
      /\ There(r) => LoginOf(calls[r].user)
  BY DEF AccountsInv, LinksInv, LinkOK
<1>2. LinkFrom(r)' = LinkFrom(r) /\ HasLogin(LinkFrom(r))' = FALSE
  BY <1>1 DEF LinkFrom, HasLogin
<1>3. There(r)' => LoginOf(calls[r].user)'
  BY <1>1 DEF There, LoginOf
<1> QED
  BY <1>1, <1>2, <1>3 DEF LinkOK, Links, Linking, LinkSteps, LoginOf

LEMMA LinkLookStep ==
  ASSUME AccountsInv, NEW r \in Requests, LinkLook(r) PROVE AccountsInv'
<1> DEFINE to == calls[r].user   hash == calls[r].q.hash
<1> USE DEF AccountsInv
<1>1. /\ Busy(r) /\ calls[r].step = "go" /\ calls[r].q.op = "link" /\ Links(r)
      /\ hash \in Hashes /\ hash \notin Logins /\ (There(r) => LoginOf(to))
      /\ UNCHANGED <<users, sessions, records>>
  <2>1. Busy(r) /\ Links(r)
    BY DEF LinkLook, At, Links
  <2>2. hash \in Hashes
    BY <2>1, BusyIsCall DEF Links, Asks
  <2> QED
    BY <2>1, <2>2, AccountsAssumption DEF LinkLook, At, LinksInv, LinkOK
<1>2. CASE /\ hash \in DOMAIN accounts /\ Movable(accounts[hash].user)
           /\ accounts' = accounts /\ Goes(r, "discard", {}, {}, FALSE)
  <2>1. /\ AccountsTypeOK' /\ RowsTypeOK' /\ PersonsInv' /\ WritesInv' /\ CallsFrame({r})
        /\ PersonsFrame({r})
        /\ calls'[r].q = calls[r].q /\ calls'[r].user = to /\ calls'[r].step = "discard"
        /\ calls'[r].gone = {} /\ calls'[r].moved = {}
    <3>1. /\ "discard" \in LinkSteps /\ {} \in SUBSET Keys /\ FALSE \in BOOLEAN
          /\ UNCHANGED <<people, records>>
      BY <1>1, <1>2 DEF LinkSteps
    <3> QED
      BY <1>1, <1>2, <3>1, GoesFact
  <2>2. LinkFrom(r)' = accounts[hash].user /\ Written(r)' = {} /\ Locks(r)' = {}
    BY <1>2, <2>1 DEF LinkFrom, Written, Locks, Renamed
  <2>3. LinkOK(r)'
    <3> DEFINE from == accounts[hash].user
    <3>1. HasLogin(from)' = FALSE
      <4>1. ~HasLogin(from) /\ accounts' = accounts /\ sessions' = sessions
        BY <1>1, <1>2 DEF Movable
      <4> QED
        BY <2>1, <4>1 DEF HasLogin
    <3>2. There(r)' => LoginOf(to)'
      BY <1>1, <1>2, <2>1 DEF There, LoginOf
    <3> QED
      BY <1>1, <1>2, <2>1, <2>2, <3>1, <3>2 DEF LinkOK, Links, Linking, LinkSteps, LoginOf
  <2>4. HeldBy(r)'
    BY <2>1, <2>2 DEF HeldBy, HeldRows, LaterStays, OthersAreLate
  <2>5. \A s \in Requests : Linking(s) => calls[s].q.hash # hash
    BY DEF LinkLook, LinkHolds
  <2>6. \A s \in Requests : Linking(s) => RowsFrame(s)
    BY <1>1, RowsAlone
  <2>7. LinksInv'
    BY <2>1, <2>2, <2>3, <2>4, <2>5, <2>6, LinksStay
  <2> QED
    BY <2>1, <2>7
<1>3. CASE /\ Ends(r)
           /\ \/ accounts' = accounts
              \/ /\ hash \notin DOMAIN accounts /\ There(r)
                 /\ accounts' = Put(accounts, hash, [user |-> to, device |-> None])
  <2>1. /\ calls' \in [Requests -> Calls \cup {NoCall}] /\ now' = now
        /\ \A s \in Requests : Busy(s)' => Busy(s) /\ calls'[s] = calls[s]
        /\ CallsFrame({})
    BY <1>3, EndsCalls
  <2>2. /\ DOMAIN accounts' \in {DOMAIN accounts, DOMAIN accounts \cup {hash}}
        /\ \A a \in DOMAIN accounts : accounts'[a] = accounts[a]
        /\ \A a \in DOMAIN accounts' \ DOMAIN accounts :
             a = hash /\ There(r) /\ accounts'[a] = [user |-> to, device |-> None]
    BY <1>3 DEF Put
  <2>3. \A v : LoginOf(v)' = LoginOf(v)
    <3> TAKE v
    <3>1. Logins \cap DOMAIN accounts' = Logins \cap DOMAIN accounts
      BY <1>1, <2>2
    <3> QED
      BY <2>2, <3>1 DEF LoginOf
  <2>4. AccountsTypeOK' /\ RowsTypeOK'
    BY <1>1, <2>1, <2>2 DEF AccountsTypeOK, RowsTypeOK, There
  <2>5. PersonsInv'
    <3>1. ASSUME NEW a \in DOMAIN accounts', NEW b \in DOMAIN accounts', a # b,
                 accounts'[a].user = accounts'[b].user
          PROVE  LoginOf(accounts'[a].user)
      <4>1. CASE a \in DOMAIN accounts /\ b \in DOMAIN accounts
        BY <2>2, <3>1, <4>1 DEF PersonsInv
      <4>2. CASE a \notin DOMAIN accounts \/ b \notin DOMAIN accounts
        <5>1. accounts'[a].user = to /\ There(r)
          BY <2>2, <3>1, <4>2
        <5> QED
          BY <1>1, <5>1
      <4> QED
        BY <4>1, <4>2
    <3>2. \A a \in DOMAIN accounts' : LoginOf(accounts'[a].user) => LoginOf(accounts[a].user)'
      BY <2>3 DEF LoginOf
    <3> QED
      BY <1>1, <2>3, <3>1, <3>2 DEF PersonsInv
  <2>6. WritesInv'
    BY <1>1, <2>1 DEF WritesInv, Writes, There
  <2>7. PersonsFrame({})
    <3>1. ASSUME NEW s \in Requests, Linking(s)
          PROVE  /\ calls[s].q.hash \in DOMAIN accounts'
                 /\ accounts'[calls[s].q.hash].user = LinkFrom(s)
                 /\ LinkFrom(s) \in DOMAIN users' /\ LinkFrom(s) \notin sessions'
      <4>1. /\ calls[s].q.hash \in DOMAIN accounts /\ LinkFrom(s) \in DOMAIN users
            /\ LinkFrom(s) \notin sessions
        BY <3>1, LinkingFact
      <4> QED
        BY <1>1, <2>2, <4>1 DEF LinkFrom
    <3> QED
      BY <1>1, <2>3, <3>1 DEF PersonsFrame
  <2>8. LinksInv'
    BY <1>1, <2>1, <2>4, <2>7, LinksStay, RowsAlone
  <2> QED
    BY <2>4, <2>5, <2>6, <2>8
<1> QED
  BY <1>2, <1>3 DEF LinkLook

LEMMA LinkDiscardStep ==
  ASSUME AccountsInv, NEW r \in Requests, LinkDiscard(r) PROVE AccountsInv'
<1> DEFINE from == LinkFrom(r)   to == calls[r].user   gone == Outlived(prices, from, to)
<1> USE DEF AccountsInv
<1>1. /\ Busy(r) /\ calls[r].step = "discard" /\ Linking(r) /\ Unlocked(r, gone)
      /\ Goes(r, "move", gone, {}, FALSE) /\ UNCHANGED <<people, records>>
  BY DEF LinkDiscard, Linking
<1>2. /\ Links(r) /\ from # to /\ from \in DOMAIN users
      /\ \A s \in Requests \ {r} : Linking(s) => calls[s].q.hash # calls[r].q.hash
  BY <1>1, LinkingFact DEF LinksInv, Apart
<1>3. \A k \in DOMAIN prices :
        /\ k = <<k[1], k[2]>> /\ prices[k].updated \in Nat
        /\ k \in Keys
  BY DEF RowsTypeOK, PriceRows, AccountsTypeOK, Keys
<1>4. ASSUME NEW k \in gone
      PROVE  /\ k \in DOMAIN prices /\ k[1] \in {from, to}
             /\ Other(r, k) \in DOMAIN prices \ gone
             /\ prices[k].updated <= prices[Other(r, k)].updated
  <2> HIDE DEF from, to
  <2>1. LET o == <<IF k[1] = from THEN to ELSE from, k[2]>>
        IN /\ k \in DOMAIN prices /\ k[1] \in {from, to}
           /\ o \in DOMAIN prices \ gone /\ prices[k].updated <= prices[o].updated
    BY <1>2, <1>3, OneOutlives
  <2> QED
    BY <2>1 DEF Other, from, to
<1> HIDE DEF gone
<1>5. /\ AccountsTypeOK' /\ RowsTypeOK' /\ PersonsInv' /\ WritesInv' /\ CallsFrame({r})
      /\ PersonsFrame({r})
      /\ calls'[r].q = calls[r].q /\ calls'[r].user = to /\ calls'[r].step = "move"
      /\ calls'[r].gone = gone /\ calls'[r].moved = {}
  <2>1. /\ "move" \in LinkSteps /\ gone \in SUBSET Keys /\ {} \in SUBSET Keys
        /\ FALSE \in BOOLEAN /\ Busy(r) /\ Links(r) /\ UNCHANGED <<people, records>>
    BY <1>1, <1>2, <1>3, <1>4 DEF LinkSteps
  <2>2. Goes(r, "move", gone, {}, FALSE)
    BY <1>1
  <2> QED
    BY <2>1, <2>2, GoesFact
<1>6. /\ LinkFrom(r)' = from /\ Written(r)' = gone /\ Locks(r)' = gone
      /\ \A k : Other(r, k)' = Other(r, k)
  BY <1>1, <1>5 DEF LinkFrom, Written, Locks, Renamed, Other
<1>7. LinkOK(r)'
  BY <1>1, <1>2, <1>5, <1>6, LinkKeeps
<1>8. HeldBy(r)'
  BY <1>1, <1>4, <1>5, <1>6 DEF HeldBy, HeldRows, LaterStays, OthersAreLate
<1>9. \A s \in Requests : Linking(s) => RowsFrame(s)
  BY <1>1, RowsAlone
<1>10. \A s \in Requests \ {r} : Linking(s) => gone \cap Locks(s) = {}
  BY <1>1 DEF Unlocked
<1>11. LinksInv'
  BY <1>2, <1>5, <1>6, <1>7, <1>8, <1>9, <1>10, LinksStay
<1> QED
  BY <1>5, <1>11

LEMMA LinkMoveStep ==
  ASSUME AccountsInv, NEW r \in Requests, LinkMove(r) PROVE AccountsInv'
<1> DEFINE from == LinkFrom(r)   to == calls[r].user   gone == calls[r].gone
           moved == RowsBy(prices, {from}) \ gone
           new == {<<to, k[2]>> : k \in moved}
<1> USE DEF AccountsInv
<1>1. /\ Busy(r) /\ calls[r].step = "move" /\ Linking(r) /\ Unlocked(r, moved \cup new)
      /\ UNCHANGED <<people, records>>
  BY DEF LinkMove, Linking
<1>2. CASE /\ new \cap (DOMAIN prices \ gone) = {}
           /\ Goes(r, "commit", gone, moved, from \in DOMAIN events)
  <2>1. /\ Links(r) /\ from # to /\ gone \in SUBSET Keys
        /\ \A s \in Requests \ {r} :
             Linking(s) => calls[s].q.hash # calls[r].q.hash /\ gone \cap Locks(s) = {}
    BY <1>1, LinkingFact, BusyIsCall DEF LinksInv, Apart, Locks, Written
  <2>2. HeldRows(r) /\ LaterStays(r)
    BY <1>1 DEF LinksInv, HeldBy
  <2>3. \A k \in moved : k \in DOMAIN prices /\ k[1] = from /\ k \notin gone /\ k \in Keys
    BY DEF RowsBy, RowsTypeOK, AccountsTypeOK, Keys
  <2>4. \A k \in moved : <<to, k[2]>> \in new
    OBVIOUS
  <2>5. \A k \in DOMAIN prices : k[1] = from /\ k \notin gone => k \in moved
    BY DEF RowsBy
  <2> DEFINE event == from \in DOMAIN events
  <2>6. event \in BOOLEAN
    OBVIOUS
  <2>7. Goes(r, "commit", gone, moved, event)
    BY <1>2
  <2> HIDE DEF moved, new, event
  <2>8. /\ AccountsTypeOK' /\ RowsTypeOK' /\ PersonsInv' /\ WritesInv' /\ CallsFrame({r})
        /\ PersonsFrame({r})
        /\ calls'[r].q = calls[r].q /\ calls'[r].user = to /\ calls'[r].step = "commit"
        /\ calls'[r].since = calls[r].since /\ calls'[r].gone = gone /\ calls'[r].moved = moved
    <3>1. /\ "commit" \in LinkSteps /\ moved \in SUBSET Keys /\ gone \in SUBSET Keys
          /\ Busy(r) /\ Links(r) /\ UNCHANGED <<people, records>>
      BY <1>1, <2>1, <2>3 DEF LinkSteps
    <3> QED
      BY <2>6, <2>7, <3>1, GoesFact
  <2>9. /\ LinkFrom(r)' = from /\ Written(r)' = gone \cup moved
        /\ \A k : Other(r, k)' = Other(r, k)
    BY <1>1, <2>8 DEF LinkFrom, Written, Other
  <2>10. Locks(r)' = gone \cup moved \cup new
    <3>1. Renamed(r)' = new
      BY <2>8 DEF Renamed, new
    <3> QED
      BY <2>9, <3>1 DEF Locks
  <2>11. LinkOK(r)'
    BY <1>1, <2>8, LinkKeeps
  <2>12. HeldBy(r)'
    <3>1. HeldRows(r)'
      BY <1>1, <1>2, <2>2, <2>3, <2>4, <2>8, <2>9 DEF HeldRows, Written
    <3>2. LaterStays(r)'
      <4>1. ASSUME NEW k \in gone, There(r)
            PROVE  /\ Other(r, k) \in DOMAIN prices \ gone
                   /\ prices[k].updated <= prices[Other(r, k)].updated
                   /\ k[1] # from => Other(r, k) \in moved
        <5>1. /\ Other(r, k) \in DOMAIN prices \ gone
              /\ prices[k].updated <= prices[Other(r, k)].updated
          BY <2>2, <4>1 DEF LaterStays
        <5>2. k[1] # from => Other(r, k)[1] = from
          BY DEF Other
        <5> QED
          BY <2>5, <5>1, <5>2
      <4>2. There(r)' => There(r)
        BY <1>1, <2>8 DEF There
      <4> QED
        BY <1>1, <2>8, <2>9, <4>1, <4>2 DEF LaterStays
    <3>3. OthersAreLate(r)'
      BY <1>1, <2>5, <2>8, <2>9 DEF OthersAreLate
    <3> QED
      BY <3>1, <3>2, <3>3 DEF HeldBy
  <2>13. \A s \in Requests : Linking(s) => RowsFrame(s)
    BY <1>1, RowsAlone
  <2>14. \A s \in Requests \ {r} : Linking(s) => Locks(r)' \cap Locks(s) = {}
    BY <1>1, <2>1, <2>10 DEF Unlocked
  <2>15. LinksInv'
    BY <2>1, <2>8, <2>11, <2>12, <2>13, <2>14, LinksStay
  <2> QED
    BY <2>8, <2>15
<1>3. CASE Ends(r)
  <2>1. RowsTypeOK'
    BY <1>1, <1>3 DEF RowsTypeOK, Ends
  <2> QED
    BY <1>1, <1>3, <2>1, EndsFact, RowsAlone
<1> QED
  BY <1>2, <1>3 DEF LinkMove

\* What a merge leaves of drop prices: the renamed rows, and every row of others it did not delete.
LEMMA MergedFact ==
  ASSUME AccountsInv, NEW r \in Requests, Linking(r)
  PROVE  /\ \A x \in Renamed(r) :
              /\ x \in DOMAIN Merged(r) /\ x \notin DOMAIN prices \ calls[r].gone
              /\ x = <<calls[r].user, x[2]>> /\ x[1] = calls[r].user
              /\ <<LinkFrom(r), x[2]>> \in calls[r].moved
              /\ Merged(r)[x] = [live     |-> prices[<<LinkFrom(r), x[2]>>].live,
                                 updated  |-> prices[<<LinkFrom(r), x[2]>>].updated,
                                 admitted |-> calls[r].since]
         /\ \A x \in DOMAIN Merged(r) \ Renamed(r) :
              /\ x \in DOMAIN prices \ calls[r].gone /\ x[1] # LinkFrom(r)
              /\ Merged(r)[x] = prices[x]
         /\ \A x \in DOMAIN prices \ calls[r].gone :
              x[1] # LinkFrom(r) => x \in DOMAIN Merged(r) \ Renamed(r)
<1> USE DEF AccountsInv
<1> DEFINE from == LinkFrom(r)   to == calls[r].user
<1>1. /\ \A k \in calls[r].moved : k \in DOMAIN prices /\ k[1] = from
                                     /\ <<to, k[2]>> \notin DOMAIN prices \ calls[r].gone
      /\ \A k \in DOMAIN prices : k = <<k[1], k[2]>>
  BY DEF LinksInv, HeldBy, HeldRows, RowsTypeOK, Written
<1>2. ASSUME NEW x \in Renamed(r)
      PROVE  /\ x \notin DOMAIN prices \ calls[r].gone /\ x = <<to, x[2]>> /\ x[1] = to
             /\ <<from, x[2]>> \in calls[r].moved
  <2>1. PICK k \in calls[r].moved : x = <<to, k[2]>>
    BY DEF Renamed
  <2>2. k = <<from, k[2]>> /\ x[2] = k[2] /\ x[1] = to
    BY <1>1, <2>1
  <2> QED
    BY <1>1, <2>1, <2>2
<1>3. /\ DOMAIN Merged(r) =
           (DOMAIN prices \ (calls[r].gone \cup RowsBy(prices, {from}))) \cup Renamed(r)
      /\ \A x \in DOMAIN Merged(r) \ Renamed(r) : Merged(r)[x] = prices[x]
      /\ \A x \in Renamed(r) :
           Merged(r)[x] = [live |-> prices[<<from, x[2]>>].live,
                           updated |-> prices[<<from, x[2]>>].updated, admitted |-> calls[r].since]
  BY DEF Merged
<1>4. \A x \in DOMAIN prices : x \in RowsBy(prices, {from}) <=> x[1] = from
  BY DEF RowsBy
<1> QED
  BY <1>2, <1>3, <1>4

\* Of usage events: those of others, and with the person given some the time of the link.
LEMMA EventsMerged ==
  ASSUME AccountsInv, NEW r \in Requests, LinkCommit(r), There(r), NEW v \in DOMAIN events'
  PROVE  \/ v \in DOMAIN events \ {LinkFrom(r)} /\ events'[v] = events[v]
         \/ v = calls[r].user /\ events'[v] = calls[r].since
<1> DEFINE others == Drop(events, {LinkFrom(r)})
<1>1. events' = IF calls[r].event THEN EventsOf(others, calls[r].user, calls[r].since) ELSE others
  BY DEF LinkCommit
<1>2. /\ DOMAIN others = DOMAIN events \ {LinkFrom(r)}
      /\ \A u \in DOMAIN others : others[u] = events[u]
  BY DEF Drop
<1> HIDE DEF others
<1> QED
  BY <1>1, <1>2 DEF EventsOf, Put, Later

\* The rows of another link stay, for the two lock different rows and go from different persons.
LEMMA MergedBeside ==
  ASSUME AccountsInv, NEW r \in Requests, Linking(r), calls[r].step = "commit", There(r),
         prices' = Merged(r), users' = Drop(users, {LinkFrom(r)}),
         NEW s \in Requests \ {r}, Linking(s)
  PROVE  RowsFrame(s)
<1> USE DEF AccountsInv
<1> DEFINE from == LinkFrom(r)   to == calls[r].user
<1>1. /\ LinkFrom(s) # from /\ calls[s].user # from /\ LinkFrom(s) # to /\ from # to
      /\ Locks(r) \cap Locks(s) = {}
  BY FromsDiffer, LinkingFact DEF LinksInv, Apart
<1>2. /\ \A k \in Written(s) : k \in DOMAIN prices /\ k[1] \in {LinkFrom(s), calls[s].user}
      /\ \A k \in calls[r].gone : k \in DOMAIN prices /\ k[1] \in {from, to}
  BY DEF LinksInv, HeldBy, HeldRows, Written
<1>3. ASSUME NEW k \in calls[r].gone, k[1] # from
      PROVE  /\ k \in Renamed(r) /\ <<from, k[2]>> \in DOMAIN prices
             /\ prices[k].updated <= prices[<<from, k[2]>>].updated
  <2>1. /\ Other(r, k) \in DOMAIN prices /\ prices[k].updated <= prices[Other(r, k)].updated
        /\ Other(r, k) \in calls[r].moved
    BY <1>3 DEF LinksInv, HeldBy, LaterStays
  <2>2. k[1] = to /\ Other(r, k) = <<from, k[2]>> /\ k = <<to, k[2]>>
    BY <1>2, <1>3 DEF Other, RowsTypeOK
  <2>3. <<to, <<from, k[2]>>[2]>> \in Renamed(r)
    BY <2>1, <2>2 DEF Renamed
  <2> QED
    BY <2>1, <2>2, <2>3
<1>4. ASSUME NEW k \in Written(s) PROVE k \in DOMAIN prices' /\ prices'[k] = prices[k]
  <2>1. k \notin calls[r].gone /\ k[1] # from
    BY <1>1, <1>2 DEF Locks, Written
  <2> QED
    BY <1>2, <2>1, MergedFact
<1>5. ASSUME NEW k \in DOMAIN prices \cap DOMAIN prices'
      PROVE  prices[k].updated <= prices'[k].updated
  <2>1. CASE k \in Renamed(r)
    <3> DEFINE o == <<from, k[2]>>
    <3>1. /\ k \notin DOMAIN prices \ calls[r].gone /\ k[1] = to
          /\ prices'[k] = [live |-> prices[o].live, updated |-> prices[o].updated,
                           admitted |-> calls[r].since]
      BY <2>1, MergedFact
    <3>2. k \in calls[r].gone /\ prices'[k].updated = prices[o].updated
      BY <1>5, <3>1
    <3> QED
      BY <1>1, <1>3, <3>1, <3>2
  <2>2. CASE k \notin Renamed(r)
    BY <1>5, <2>2, MergedFact DEF RowsTypeOK, PriceRows
  <2> QED
    BY <2>1, <2>2
<1>6. ASSUME NEW k \in DOMAIN prices, k[1] \in {LinkFrom(s), calls[s].user}
      PROVE  k \in DOMAIN prices'
  <2>1. CASE k \in calls[r].gone
    BY <1>1, <1>3, <1>6, <2>1, MergedFact
  <2>2. CASE k \notin calls[r].gone
    BY <1>1, <1>6, <2>2, MergedFact
  <2> QED
    BY <2>1, <2>2
<1>7. ASSUME NEW k \in DOMAIN prices' \ DOMAIN prices
      PROVE  k \notin Renamed(s) /\ k[1] # LinkFrom(s)
  <2>1. k \in Renamed(r) /\ k[1] = to
    BY <1>7, MergedFact
  <2> QED
    BY <1>1, <2>1 DEF Locks
<1> QED
  BY <1>4, <1>5, <1>6, <1>7 DEF RowsFrame

LEMMA MergeStep ==
  ASSUME AccountsInv, NEW r \in Requests, LinkCommit(r), There(r) PROVE AccountsInv'
<1> DEFINE from == LinkFrom(r)   to == calls[r].user   hash == calls[r].q.hash
           since == calls[r].since
<1> USE DEF AccountsInv
<1>1. /\ Linking(r) /\ calls[r].step = "commit" /\ calls[r] \in Calls /\ LoginOf(to)
      /\ to \in DOMAIN users /\ since \in Nat /\ since <= now
      /\ hash \in DOMAIN accounts /\ hash \notin Logins
      /\ from \in DOMAIN users /\ from \notin sessions /\ ~LoginOf(from) /\ from # to
      /\ AccountsOf(from) = {hash}
  <2>1. Linking(r) /\ Busy(r) /\ calls[r].step = "commit"
    BY DEF LinkCommit, Linking
  <2> QED
    BY <2>1, LinkingFact, BusyIsCall DEF There, WritesInv
<1>2. /\ \E missed \in SUBSET Requests :
           calls' = [s \in Requests |-> IF s \in missed \cup {r} THEN NoCall ELSE calls[s]]
      /\ prices' = Merged(r) /\ now' = now
      /\ events' = LET others == Drop(events, {from})
                   IN IF calls[r].event THEN EventsOf(others, to, since) ELSE others
      /\ accounts' = [a \in DOMAIN accounts |-> IF a \in AccountsOf(from)
                                                THEN MovedAccount(a, to) ELSE accounts[a]]
      /\ users' = Drop(users, {from})
      /\ sessions' = sessions \cap DOMAIN users'
  <2> DEFINE waited == {s \in Requests : At(s, "removePrice") /\ Row(s) \in calls[r].gone}
  <2>1. \E missed \in SUBSET waited :
          calls' = [s \in Requests |-> IF s \in missed \cup {r} THEN NoCall ELSE calls[s]]
    BY DEF LinkCommit
  <2>2. SUBSET waited \subseteq SUBSET Requests
    OBVIOUS
  <2> HIDE DEF waited
  <2>3. \E missed \in SUBSET Requests :
          calls' = [s \in Requests |-> IF s \in missed \cup {r} THEN NoCall ELSE calls[s]]
    BY <2>1, <2>2
  <2> QED
    BY <2>3 DEF LinkCommit
<1>3. /\ DOMAIN users' = DOMAIN users \ {from} /\ \A v \in DOMAIN users' : users'[v] = users[v]
      /\ sessions' = sessions
  BY <1>1, <1>2 DEF Drop, AccountsTypeOK
<1>4. /\ DOMAIN accounts' = DOMAIN accounts
      /\ \A a \in DOMAIN accounts \ {hash} : accounts'[a] = accounts[a] /\ accounts[a].user # from
      /\ accounts'[hash] \in [user : {to}, device : {Device, None}]
  <2>1. accounts[hash].device \in {Device, None}
    BY <1>1 DEF AccountsTypeOK
  <2>2. MovedAccount(hash, to) \in [user : {to}, device : {Device, None}]
    BY <2>1 DEF MovedAccount
  <2> QED
    BY <1>1, <1>2, <2>2 DEF AccountsOf
<1>5. /\ calls' \in [Requests -> Calls \cup {NoCall}] /\ calls'[r] = NoCall
      /\ \A s \in Requests : calls'[s] \in {calls[s], NoCall}
  BY <1>2 DEF AccountsTypeOK
<1>6. \A s \in Requests : Busy(s)' => s # r /\ Busy(s) /\ calls'[s] = calls[s]
  BY <1>5 DEF Busy
<1>7. \A v : LoginOf(v)' = LoginOf(v)
  BY <1>1, <1>4 DEF LoginOf
<1>8. AccountsTypeOK'
  <2>1. \A a \in DOMAIN accounts' : accounts'[a] \in [user : DOMAIN users', device : {Device, None}]
    BY <1>1, <1>3, <1>4 DEF AccountsTypeOK
  <2> QED
    BY <1>1, <1>2, <1>3, <1>4, <1>5, <2>1 DEF AccountsTypeOK
<1>9. RowsTypeOK'
  <2>1. ASSUME NEW x \in DOMAIN prices'
        PROVE  /\ x \in (DOMAIN users') \X Records
               /\ prices'[x] \in PriceRows /\ prices'[x].updated <= now
               /\ prices'[x].admitted <= now
    <3>1. CASE x \in Renamed(r)
      <4> DEFINE k == <<from, x[2]>>
      <4>1. /\ x = <<to, x[2]>> /\ k \in DOMAIN prices
            /\ prices'[x] = [live |-> prices[k].live, updated |-> prices[k].updated,
                             admitted |-> since]
        BY <1>1, <1>2, <3>1, MergedFact DEF LinksInv, HeldBy, HeldRows, Written
      <4>2. x[2] \in Records /\ prices[k] \in PriceRows /\ prices[k].updated <= now
        BY <4>1 DEF RowsTypeOK
      <4>3. x \in (DOMAIN users') \X Records
        BY <1>1, <1>3, <4>1, <4>2
      <4>4. prices[k].live \in BOOLEAN /\ prices[k].updated \in Nat
        BY <4>2 DEF PriceRows
      <4> QED
        BY <1>1, <4>1, <4>2, <4>3, <4>4 DEF PriceRows
    <3>2. CASE x \notin Renamed(r)
      <4>1. x \in DOMAIN prices /\ x[1] # from /\ prices'[x] = prices[x]
        BY <1>1, <1>2, <2>1, <3>2, MergedFact
      <4>2. x \in (DOMAIN users) \X Records
        BY <4>1 DEF RowsTypeOK
      <4> QED
        BY <1>3, <4>1, <4>2 DEF RowsTypeOK
    <3> QED
      BY <3>1, <3>2
  <2>2. ASSUME NEW v \in DOMAIN events'
        PROVE  v \in DOMAIN users' /\ events'[v] \in Nat /\ events'[v] <= now
    <3>1. \/ v \in DOMAIN events \ {from} /\ events'[v] = events[v]
          \/ v = to /\ events'[v] = since
      BY <2>2, EventsMerged
    <3> QED
      BY <1>1, <1>3, <3>1 DEF RowsTypeOK
  <2> QED
    BY <1>2, <2>1, <2>2 DEF RowsTypeOK
<1>10. PersonsInv'
  <2>1. ASSUME NEW a \in DOMAIN accounts', NEW b \in DOMAIN accounts', a # b,
               accounts'[a].user = accounts'[b].user
        PROVE  LoginOf(accounts'[a].user)
    <3>1. CASE a = hash \/ b = hash
      BY <1>1, <1>4, <2>1, <3>1
    <3>2. CASE a # hash /\ b # hash
      BY <1>4, <2>1, <3>2 DEF PersonsInv
    <3> QED
      BY <3>1, <3>2
  <2>2. \A a \in DOMAIN accounts' : LoginOf(accounts'[a].user) => LoginOf(accounts[a].user)'
    BY <1>7 DEF LoginOf
  <2> QED
    BY <1>3, <1>7, <2>1, <2>2 DEF PersonsInv
<1>11. WritesInv'
  BY <1>2, <1>3, <1>6 DEF WritesInv, Writes, There
<1>12. PersonsFrame({r}) /\ CallsFrame({r})
  <2>1. ASSUME NEW s \in Requests \ {r}, Linking(s)
        PROVE  /\ calls[s].q.hash \in DOMAIN accounts'
               /\ accounts'[calls[s].q.hash].user = LinkFrom(s)
               /\ LinkFrom(s) \in DOMAIN users' /\ LinkFrom(s) \notin sessions'
    <3>1. /\ calls[s].q.hash \in DOMAIN accounts /\ LinkFrom(s) \in DOMAIN users
          /\ LinkFrom(s) \notin sessions
      BY <2>1, LinkingFact
    <3>2. LinkFrom(s) # from
      BY <1>1, <2>1, FromsDiffer
    <3>3. calls[s].q.hash # hash
      BY <3>2 DEF LinkFrom
    <3> QED
      BY <1>3, <1>4, <3>1, <3>2, <3>3 DEF LinkFrom
  <2> QED
    BY <1>3, <1>6, <1>7, <2>1 DEF PersonsFrame, CallsFrame
<1>13. ASSUME NEW s \in Requests \ {r}, Linking(s) PROVE RowsFrame(s)
  BY <1>1, <1>2, <1>13, MergedBeside
<1>14. LinksInv'
  <2>1. ~Busy(r)'
    BY <1>6
  <2>2. LinkOK(r)' /\ HeldBy(r)' /\ ~Linking(r)'
    BY <2>1 DEF LinkOK, HeldBy, Links, Linking
  <2> QED
    BY <1>9, <1>12, <1>13, <2>2, LinksStay
<1> QED
  BY <1>8, <1>9, <1>10, <1>11, <1>14

LEMMA LinkCommitStep ==
  ASSUME AccountsInv, NEW r \in Requests, LinkCommit(r) PROVE AccountsInv'
<1>1. CASE ~There(r)
  <2>1. Ends(r) /\ UNCHANGED <<users, accounts, records>>
    BY <1>1 DEF LinkCommit
  <2>2. sessions' = sessions
    BY <2>1 DEF LinkCommit, AccountsInv, AccountsTypeOK
  <2>3. RowsTypeOK'
    BY <2>1 DEF AccountsInv, RowsTypeOK, Ends
  <2> QED
    BY <2>1, <2>2, <2>3, EndsFact, RowsAlone
<1> QED
  BY <1>1, MergeStep

-----------------------------------------------------------------------------
(* Every step. *)

LEMMA AccountsNextStep ==
  ASSUME AccountsInv, NEW ops, NEW logins \in SUBSET Logins, AccountsNext(ops, logins)
  PROVE  AccountsInv'
BY GuardStep, UpsertPriceStep, RemovePriceStep, CopyStep, EventStep, RequestDeletionStep,
   DropSessionsStep, CancelDeletionStep, LinkLookStep, LinkDiscardStep, LinkMoveStep,
   LinkCommitStep, CutStep, LoginStep, EndSessionStep, PurgeStep, TimePassesStep DEF AccountsNext

LEMMA AccountsStutter ==
  ASSUME AccountsInv, UNCHANGED accountVars PROVE AccountsInv'
<1> USE DEF AccountsInv
<1>1. AccountsTypeOK' /\ RowsTypeOK' /\ PersonsInv'
  BY DEF AccountsTypeOK, RowsTypeOK, PersonsInv, LoginOf
<1>2. WritesInv'
  BY DEF WritesInv, Writes, Busy, There
<1>3. CallsFrame({}) /\ PersonsFrame({})
  BY PersonsAlone DEF CallsFrame, Busy
<1>4. LinksInv'
  BY <1>1, <1>3, LinksStay, RowsAlone
<1> QED
  BY <1>1, <1>2, <1>4

LEMMA AccountsStart == AccountsInit => AccountsInv
<1> SUFFICES ASSUME AccountsInit PROVE AccountsInv
  OBVIOUS
<1>1. \A r \in Requests : ~Busy(r)
  BY DEF AccountsInit, Busy
<1>2. DOMAIN users = {} /\ DOMAIN accounts = {} /\ DOMAIN prices = {} /\ DOMAIN events = {}
  BY DEF AccountsInit
<1>3. LinksInv
  BY <1>1 DEF LinksInv, LinkOK, Links, Linking, HeldBy
<1> QED
  BY <1>1, <1>2, <1>3 DEF AccountsInit, AccountsInv, AccountsTypeOK, RowsTypeOK, PersonsInv,
                          WritesInv, Writes

-----------------------------------------------------------------------------
(* Linking merges a person of a key only, and keeps what was written last. *)

\* A person whose link is at its end goes with that link and with no other step.
LEMMA MergingIsLinkCommit ==
  ASSUME AccountsInv, NEW ops, NEW logins, AccountsNext(ops, logins),
         NEW r \in Requests, Merging(r)
  PROVE  LinkCommit(r) /\ There(r) /\ Linking(r)
<1> DEFINE from == LinkFrom(r)
<1>1. Linking(r) /\ calls[r].step = "commit" /\ from \in DOMAIN users /\ from \notin DOMAIN users'
  BY DEF Merging, Linking
<1>2. ~(UNCHANGED users)
  BY <1>1
<1>3. ASSUME NEW cred, NEW u, Found(cred, u) PROVE DOMAIN users \subseteq DOMAIN users'
  BY <1>3 DEF Found, Put
<1>4. ASSUME NEW s \in Requests, RequestDeletion(s) \/ CancelDeletion(s)
      PROVE  DOMAIN users' = DOMAIN users
  BY <1>4 DEF RequestDeletion, CancelDeletion
<1>5. CASE Purge
  <2> DEFINE due == {u \in DOMAIN users : users[u] # None /\ users[u] + Grace < now}
  <2>1. users' = Drop(users, due) /\ \A u \in due : ~Pinned(u)
    BY <1>5 DEF Purge
  <2> HIDE DEF due
  <2>2. from \in due
    BY <1>1, <2>1 DEF Drop
  <2> QED
    BY <1>1, <2>1, <2>2 DEF Pinned
<1>6. ASSUME NEW s \in Requests, LinkCommit(s), There(s) PROVE s = r
  <2>1. Linking(s) /\ users' = Drop(users, {LinkFrom(s)})
    BY <1>6 DEF LinkCommit, Linking
  <2>2. LinkFrom(s) = from
    BY <1>1, <2>1 DEF Drop
  <2> QED
    BY <1>1, <2>1, <2>2, FromsDiffer
<1>7. ASSUME NEW s \in Requests, LinkCommit(s), ~There(s) PROVE UNCHANGED users
  BY <1>7 DEF LinkCommit
<1>8. ASSUME NEW s \in Requests, Guard(s, ops, logins) PROVE DOMAIN users \subseteq DOMAIN users'
  BY <1>3, <1>8 DEF Guard
<1>9. ASSUME NEW l \in logins, Login(l) PROVE DOMAIN users \subseteq DOMAIN users'
  BY <1>3, <1>9 DEF Login
<1>10. ASSUME NEW s \in Requests,
              \/ UpsertPrice(s) \/ RemovePrice(s) \/ UpsertCopy(s) \/ RemoveCopy(s)
              \/ InsertEvents(s) \/ DropSessions(s) \/ LinkLook(s) \/ LinkDiscard(s)
              \/ LinkMove(s) \/ CutCall(s)
       PROVE  UNCHANGED users
  BY <1>10 DEF UpsertPrice, RemovePrice, UpsertCopy, RemoveCopy, InsertEvents, DropSessions,
               LinkLook, LinkDiscard, LinkMove, CutCall
<1>11. ASSUME NEW u \in sessions, EndSession(u) PROVE UNCHANGED users
  BY <1>11 DEF EndSession
<1>12. CASE TimePasses
  BY <1>2, <1>12 DEF TimePasses
<1> QED
  BY <1>1, <1>2, <1>4, <1>5, <1>6, <1>7, <1>8, <1>9, <1>10, <1>11, <1>12 DEF AccountsNext

KeyPersonMerged(r) == Merging(r) => ~HasLogin(LinkFrom(r))

LatestKept(r) ==
  Merging(r) =>
    \A k \in RowsBy(prices, {LinkFrom(r), calls[r].user}) :
      LET kept == <<calls[r].user, k[2]>>
      IN \/ kept \in DOMAIN prices' /\ prices'[kept].updated >= prices[k].updated
         \/ /\ k[1] = LinkFrom(r) /\ prices[k].updated >= calls[r].since
            /\ Samples({k}) \subseteq anonymous'

LEMMA KeyPersonStep ==
  ASSUME AccountsInv, NEW r \in Requests PROVE KeyPersonMerged(r)
BY DEF AccountsInv, LinksInv, LinkOK, Linking, Merging, KeyPersonMerged

LEMMA LatestStep ==
  ASSUME AccountsInv, NEW ops, NEW logins, AccountsNext(ops, logins), NEW r \in Requests
  PROVE  LatestKept(r)
<1> USE DEF AccountsInv
<1> DEFINE from == LinkFrom(r)   to == calls[r].user   gone == calls[r].gone
<1> SUFFICES ASSUME Merging(r), NEW k \in RowsBy(prices, {from, to})
             PROVE  \/ /\ <<to, k[2]>> \in DOMAIN prices'
                       /\ prices'[<<to, k[2]>>].updated >= prices[k].updated
                    \/ /\ k[1] = from /\ prices[k].updated >= calls[r].since
                       /\ Samples({k}) \subseteq anonymous'
  BY DEF LatestKept
<1>1. /\ LinkCommit(r) /\ There(r) /\ Linking(r) /\ calls[r].step = "commit"
      /\ k \in DOMAIN prices /\ k[1] \in {from, to} /\ k = <<k[1], k[2]>>
      /\ \A x \in DOMAIN prices : prices[x].updated \in Nat
  BY MergingIsLinkCommit DEF Merging, RowsBy, RowsTypeOK, PriceRows
<1>2. /\ from # to /\ HeldRows(r) /\ LaterStays(r) /\ OthersAreLate(r)
      /\ calls[r].since \in Nat
  BY <1>1, LinkingFact, BusyIsCall DEF LinksInv, HeldBy, Linking
<1>3. prices' = Merged(r)
  BY <1>1 DEF LinkCommit
<1>4. ASSUME NEW m \in calls[r].moved, m[2] = k[2]
      PROVE  <<to, k[2]>> \in DOMAIN prices' /\ prices'[<<to, k[2]>>].updated = prices[m].updated
  <2> DEFINE x == <<to, k[2]>>
  <2>1. m = <<from, k[2]>> /\ x \in Renamed(r) /\ x[2] = k[2]
    BY <1>2, <1>4 DEF HeldRows, Written, RowsTypeOK, Renamed
  <2>2. /\ x \in DOMAIN Merged(r)
        /\ Merged(r)[x] = [live     |-> prices[<<from, x[2]>>].live,
                           updated  |-> prices[<<from, x[2]>>].updated,
                           admitted |-> calls[r].since]
    BY <1>1, <2>1, MergedFact
  <2> HIDE DEF from, to
  <2> QED
    BY <1>3, <2>1, <2>2
<1>5. CASE k \in gone
  <2>1. /\ Other(r, k) \in DOMAIN prices \ gone
        /\ prices[k].updated <= prices[Other(r, k)].updated
        /\ k[1] # from => Other(r, k) \in calls[r].moved
    BY <1>1, <1>2, <1>5 DEF LaterStays
  <2>2. CASE k[1] = from
    <3>1. Other(r, k) = <<to, k[2]>> /\ Other(r, k)[1] # from
      BY <1>2, <2>2 DEF Other
    <3>2. <<to, k[2]>> \in DOMAIN Merged(r) \ Renamed(r)
      BY <1>1, <2>1, <3>1, MergedFact
    <3>3. Merged(r)[<<to, k[2]>>] = prices[<<to, k[2]>>]
      BY <1>1, <3>2, MergedFact
    <3> QED
      BY <1>1, <1>3, <2>1, <3>1, <3>2, <3>3
  <2>3. CASE k[1] # from
    <3>1. Other(r, k) \in calls[r].moved /\ Other(r, k)[2] = k[2]
      BY <2>1, <2>3 DEF Other
    <3> QED
      BY <1>1, <1>4, <2>1, <3>1
  <2> QED
    BY <2>2, <2>3
<1>6. CASE k \in calls[r].moved
  <2>1. <<to, k[2]>> \in DOMAIN prices' /\ prices'[<<to, k[2]>>].updated = prices[k].updated
    BY <1>4, <1>6
  <2> QED
    BY <1>1, <2>1
<1>7. CASE k \notin Written(r) /\ k[1] = from
  <2>1. prices[k].updated >= calls[r].since
    BY <1>1, <1>2, <1>7 DEF OthersAreLate
  <2>2. k \in RowsBy(prices, {from}) \ Written(r)
    BY <1>1, <1>7 DEF RowsBy
  <2> DEFINE late == RowsBy(prices, {from}) \ Written(r)
  <2>3. anonymous' = anonymous \cup Samples(late)
    BY <1>1 DEF LinkCommit
  <2> HIDE DEF late
  <2>4. k \in late
    BY <2>2 DEF late
  <2>5. Samples({k}) \subseteq Samples(late)
    BY <2>4 DEF Samples
  <2> QED
    BY <1>7, <2>1, <2>3, <2>5
<1>8. CASE k \notin Written(r) /\ k[1] # from
  <2>1. k = <<to, k[2]>> /\ k \notin gone
    BY <1>1, <1>8 DEF Written
  <2>2. k \in DOMAIN Merged(r) \ Renamed(r)
    BY <1>1, <1>8, <2>1, MergedFact
  <2>3. Merged(r)[k] = prices[k]
    BY <1>1, <2>2, MergedFact
  <2> QED
    BY <1>1, <1>3, <2>1, <2>2, <2>3
<1> QED
  BY <1>1, <1>5, <1>6, <1>7, <1>8 DEF Written

-----------------------------------------------------------------------------
(* A deletion request is the end of what is let in. *)

Asked == DeletionEndsAdmission

LEMMA AskedOfPrice ==
  ASSUME AccountsInv, Asked, NEW k, NEW live, NEW since,
         users[k[1]] # None => since <= users[k[1]],
         prices' = Put(prices, k, PriceRow(live, since)), UNCHANGED <<users, events, anonymous>>
  PROVE  Asked'
<1> DEFINE row == PriceRow(live, since)
<1>1. row.admitted = since /\ prices' = Put(prices, k, row)
  BY DEF PriceRow
<1> HIDE DEF row
<1>2. ASSUME NEW x \in DOMAIN prices', users[x[1]] # None PROVE prices'[x].admitted <= users[x[1]]
  <2>1. CASE x = k
    BY <1>1, <1>2, <2>1 DEF Put
  <2>2. CASE x # k
    <3>1. x \in DOMAIN prices /\ prices'[x] = prices[x]
      BY <1>1, <1>2, <2>2 DEF Put
    <3> QED
      BY <1>2, <3>1 DEF Asked, DeletionEndsAdmission
  <2> QED
    BY <2>1, <2>2
<1> QED
  BY <1>2 DEF Asked, DeletionEndsAdmission

LEMMA AskedOfUpload ==
  ASSUME AccountsInv, Asked, NEW r \in Requests,
         UpsertPrice(r) \/ RemovePrice(r) \/ InsertEvents(r)
  PROVE  Asked'
<1> USE DEF AccountsInv
<1> DEFINE u == calls[r].user   since == calls[r].since
<1>1. Writes(r) /\ since \in Nat
  BY BusyIsCall DEF UpsertPrice, RemovePrice, InsertEvents, At, Writes
<1>2. There(r) /\ users[u] # None => since <= users[u]
  BY <1>1 DEF WritesInv
<1>3. CASE UpsertPrice(r) /\ There(r)
  <2>1. Row(r)[1] = u
    BY DEF Row
  <2> QED
    BY <1>2, <1>3, <2>1, AskedOfPrice DEF UpsertPrice
<1>4. CASE RemovePrice(r) /\ Row(r) \in DOMAIN prices
  <2>1. Row(r)[1] = u /\ u \in DOMAIN users
    BY <1>4 DEF Row, RowsTypeOK
  <2> QED
    BY <1>2, <1>4, <2>1, AskedOfPrice DEF RemovePrice, There
<1>5. CASE InsertEvents(r) /\ There(r)
  <2>1. events' = EventsOf(events, u, since) /\ UNCHANGED <<users, prices, anonymous>>
    BY <1>5 DEF InsertEvents
  <2>2. \A v \in DOMAIN events : users[v] # None => events[v] <= users[v]
    BY DEF Asked, DeletionEndsAdmission
  <2>3. users[u] # None => since <= users[u]
    BY <1>2, <1>5
  <2> HIDE DEF u, since
  <2>4. ASSUME NEW v \in DOMAIN events', users[v] # None PROVE events'[v] <= users[v]
    BY <2>1, <2>2, <2>3, <2>4 DEF EventsOf, Put, Later
  <2> QED
    BY <2>1, <2>4 DEF Asked, DeletionEndsAdmission
<1>6. CASE UNCHANGED <<users, prices, events, anonymous>>
  BY <1>6 DEF Asked, DeletionEndsAdmission
<1> QED
  BY <1>3, <1>4, <1>5, <1>6 DEF UpsertPrice, RemovePrice, InsertEvents

LEMMA AskedOfPersons ==
  ASSUME AccountsInv, Asked, UNCHANGED records,
         \A u \in DOMAIN users : users'[u] \in {users[u], None, now}
  PROVE  Asked'
<1> USE DEF AccountsInv
<1>1. ASSUME NEW k \in DOMAIN prices, users'[k[1]] # None
      PROVE  prices[k].admitted <= users'[k[1]]
  <2>1. k[1] \in DOMAIN users /\ prices[k].admitted <= now
    BY DEF RowsTypeOK
  <2>2. users'[k[1]] = now \/ (users'[k[1]] = users[k[1]] /\ users[k[1]] # None)
    BY <1>1, <2>1
  <2> QED
    BY <2>1, <2>2 DEF Asked, DeletionEndsAdmission
<1>2. ASSUME NEW u \in DOMAIN events, users'[u] # None PROVE events[u] <= users'[u]
  <2>1. u \in DOMAIN users /\ events[u] <= now
    BY DEF RowsTypeOK
  <2>2. users'[u] = now \/ (users'[u] = users[u] /\ users[u] # None)
    BY <1>2, <2>1
  <2> QED
    BY <2>1, <2>2 DEF Asked, DeletionEndsAdmission
<1> QED
  BY <1>1, <1>2 DEF Asked, DeletionEndsAdmission

\* What stays of a person's rows without them came as they did.
LEMMA AskedOfSamples ==
  ASSUME Asked, NEW K \in SUBSET DOMAIN prices, NEW row \in Samples(K), row.asked # None
  PROVE  row.admitted <= row.asked
<1>1. PICK k \in K : row = [admitted |-> prices[k].admitted, asked |-> users[k[1]]]
  BY DEF Samples
<1> QED
  BY <1>1 DEF Asked, DeletionEndsAdmission

LEMMA AskedOfPurge ==
  ASSUME AccountsInv, Asked, Purge PROVE Asked'
<1> USE DEF AccountsInv
<1> DEFINE due == {u \in DOMAIN users : users[u] # None /\ users[u] + Grace < now}
<1>1. /\ users' = Drop(users, due) /\ prices' = Drop(prices, RowsBy(prices, due))
      /\ events' = Drop(events, due)
      /\ anonymous' = anonymous \cup Samples(RowsBy(prices, due))
  BY DEF Purge
<1> HIDE DEF due
<1>2. /\ \A u \in DOMAIN users \ due : users'[u] = users[u]
      /\ \A u \in DOMAIN events' : u \in DOMAIN events /\ events'[u] = events[u] /\ u \notin due
      /\ \A k \in DOMAIN prices' : k \in DOMAIN prices /\ prices'[k] = prices[k] /\ k[1] \notin due
  BY <1>1 DEF Drop, RowsBy
<1>3. /\ \A u \in DOMAIN events' : users'[u] = users[u]
      /\ \A k \in DOMAIN prices' : users'[k[1]] = users[k[1]]
  BY <1>2 DEF RowsTypeOK
<1>4. \A k \in DOMAIN prices' : users'[k[1]] # None => prices'[k].admitted <= users'[k[1]]
  BY <1>2, <1>3 DEF Asked, DeletionEndsAdmission
<1>5. \A u \in DOMAIN events' : users'[u] # None => events'[u] <= users'[u]
  BY <1>2, <1>3 DEF Asked, DeletionEndsAdmission
<1>6. \A row \in anonymous' : row.asked # None => row.admitted <= row.asked
  <2>1. RowsBy(prices, due) \in SUBSET DOMAIN prices
    BY DEF RowsBy
  <2> QED
    BY <1>1, <2>1, AskedOfSamples DEF Asked, DeletionEndsAdmission
<1> QED
  BY <1>4, <1>5, <1>6 DEF Asked, DeletionEndsAdmission

LEMMA AskedOfLink ==
  ASSUME AccountsInv, Asked, NEW r \in Requests, LinkCommit(r), There(r) PROVE Asked'
<1> USE DEF AccountsInv
<1> DEFINE from == LinkFrom(r)   to == calls[r].user
           late == RowsBy(prices, {from}) \ Written(r)
<1>1. Linking(r) /\ calls[r].since \in Nat /\ from # to /\ to \in DOMAIN users
  <2>1. Linking(r) /\ Busy(r)
    BY DEF LinkCommit, Linking
  <2> QED
    BY <2>1, LinkingFact, BusyIsCall DEF There
<1>2. /\ users' = Drop(users, {from}) /\ prices' = Merged(r)
      /\ anonymous' = anonymous \cup Samples(late)
  BY DEF LinkCommit
<1>3. \A u \in DOMAIN users \ {from} : users'[u] = users[u]
  BY <1>2 DEF Drop
<1>4. users[to] # None => calls[r].since <= users[to]
  <2>1. Links(r)
    BY <1>1, LinkingFact
  <2>2. Writes(r)
    BY <2>1 DEF Links, Writes, LinksInv, LinkOK, LinkSteps
  <2> QED
    BY <2>2 DEF WritesInv
<1>5. ASSUME NEW x \in DOMAIN prices', users'[x[1]] # None
      PROVE  prices'[x].admitted <= users'[x[1]]
  <2>1. CASE x \in Renamed(r)
    <3> DEFINE k == <<from, x[2]>>
    <3>1. /\ x[1] = to
          /\ prices'[x] = [live |-> prices[k].live, updated |-> prices[k].updated,
                           admitted |-> calls[r].since]
      BY <1>1, <1>2, <2>1, MergedFact
    <3>2. prices'[x].admitted = calls[r].since
      BY <3>1
    <3> QED
      BY <1>1, <1>3, <1>4, <1>5, <3>1, <3>2
  <2>2. CASE x \notin Renamed(r)
    <3>1. x \in DOMAIN prices /\ x[1] # from /\ prices'[x] = prices[x]
      BY <1>1, <1>2, <1>5, <2>2, MergedFact
    <3>2. users'[x[1]] = users[x[1]]
      BY <1>3, <3>1 DEF RowsTypeOK
    <3> QED
      BY <1>5, <3>1, <3>2 DEF Asked, DeletionEndsAdmission
  <2> QED
    BY <2>1, <2>2
<1>6. ASSUME NEW v \in DOMAIN events', users'[v] # None PROVE events'[v] <= users'[v]
  <2>1. \/ v \in DOMAIN events \ {from} /\ events'[v] = events[v]
        \/ v = to /\ events'[v] = calls[r].since
    BY <1>6, EventsMerged
  <2>2. CASE v \in DOMAIN events \ {from} /\ events'[v] = events[v]
    <3>1. users'[v] = users[v]
      BY <1>3, <2>2 DEF RowsTypeOK
    <3> QED
      BY <1>6, <2>2, <3>1 DEF Asked, DeletionEndsAdmission
  <2>3. CASE v = to /\ events'[v] = calls[r].since
    BY <1>1, <1>3, <1>4, <1>6, <2>3
  <2> QED
    BY <2>1, <2>2, <2>3
<1>7. ASSUME NEW row \in anonymous', row.asked # None PROVE row.admitted <= row.asked
  <2>1. late \in SUBSET DOMAIN prices
    BY DEF RowsBy
  <2> HIDE DEF late
  <2>2. CASE row \in Samples(late)
    BY <1>7, <2>1, <2>2, AskedOfSamples
  <2>3. CASE row \in anonymous
    BY <1>7, <2>3 DEF Asked, DeletionEndsAdmission
  <2> QED
    BY <1>2, <1>7, <2>2, <2>3
<1> QED
  BY <1>5, <1>6, <1>7 DEF Asked, DeletionEndsAdmission

LEMMA AskedStep ==
  ASSUME AccountsInv, Asked, NEW ops, NEW logins \in SUBSET Logins, AccountsNext(ops, logins)
  PROVE  Asked'
<1> USE DEF AccountsInv
<1>1. ASSUME NEW r \in Requests, UpsertPrice(r) \/ RemovePrice(r) \/ InsertEvents(r) PROVE Asked'
  BY <1>1, AskedOfUpload
<1>2. CASE UNCHANGED <<users, prices, events, anonymous>>
  BY <1>2 DEF Asked, DeletionEndsAdmission
<1>3. ASSUME NEW cred, NEW u, Found(cred, u)
      PROVE  \A v \in DOMAIN users : users'[v] = users[v]
  <2>1. CASE cred \in DOMAIN accounts
    BY <1>3, <2>1 DEF Found
  <2>2. CASE cred \notin DOMAIN accounts
    <3>1. u \notin DOMAIN users /\ users' = Put(users, u, None)
      BY <1>3, <2>2, FreshFact DEF Found
    <3> QED
      BY <3>1 DEF Put
  <2> QED
    BY <2>1, <2>2
<1>4. ASSUME NEW r \in Requests, Guard(r, ops, logins) PROVE Asked'
  <2>1. UNCHANGED records /\ \E cred, u : Found(cred, u)
    BY <1>4 DEF Guard
  <2> QED
    BY <1>3, <2>1, AskedOfPersons
<1>5. ASSUME NEW l \in logins, Login(l) PROVE Asked'
  <2>1. UNCHANGED records /\ \E cred, u : Found(cred, u)
    BY <1>5 DEF Login
  <2> QED
    BY <1>3, <2>1, AskedOfPersons
<1>6. ASSUME NEW r \in Requests, RequestDeletion(r) PROVE Asked'
  <2>1. UNCHANGED records /\ \A v \in DOMAIN users : users'[v] \in {users[v], now}
    BY <1>6 DEF RequestDeletion
  <2> QED
    BY <2>1, AskedOfPersons
<1>7. ASSUME NEW r \in Requests, CancelDeletion(r) PROVE Asked'
  <2>1. UNCHANGED records /\ \A v \in DOMAIN users : users'[v] \in {users[v], None}
    BY <1>7 DEF CancelDeletion
  <2> QED
    BY <2>1, AskedOfPersons
<1>8. ASSUME NEW r \in Requests,
             \/ UpsertCopy(r) \/ RemoveCopy(r) \/ DropSessions(r) \/ LinkLook(r) \/ LinkDiscard(r)
             \/ LinkMove(r) \/ CutCall(r)
      PROVE  UNCHANGED <<users, prices, events, anonymous>>
  BY <1>8 DEF UpsertCopy, RemoveCopy, DropSessions, LinkLook, LinkDiscard, LinkMove, CutCall
<1>9. ASSUME NEW r \in Requests, LinkCommit(r) PROVE Asked'
  <2>1. CASE There(r)
    BY <1>9, <2>1, AskedOfLink
  <2>2. CASE ~There(r)
    BY <1>2, <1>9, <2>2 DEF LinkCommit
  <2> QED
    BY <2>1, <2>2
<1>10. ASSUME NEW u \in sessions, EndSession(u) PROVE Asked'
  BY <1>2, <1>10 DEF EndSession
<1>11. CASE Purge
  BY <1>11, AskedOfPurge
<1>12. CASE TimePasses
  BY <1>2, <1>12 DEF TimePasses
<1> QED
  BY <1>1, <1>2, <1>4, <1>5, <1>6, <1>7, <1>8, <1>9, <1>10, <1>11, <1>12 DEF AccountsNext

=============================================================================
