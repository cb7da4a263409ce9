--------------------------- MODULE NoticeDelivery ---------------------------
(***************************************************************************)
(* Notices and their announcement, from src/src/modules/notices: a poller  *)
(* stores what is new on Nexon's list and pushes it, and then pushes the   *)
(* operator's notices whose time has come; meanwhile the operator writes,  *)
(* announces again, deletes and unschedules notices.  Storing, pushing and *)
(* marking a notice as sent are three steps of which each may fail, or     *)
(* succeed without its answer arriving.                                    *)
(*                                                                         *)
(* One of Nexon's four kinds is modelled: a round goes through the kinds   *)
(* one after the other, and what goes wrong in one does not stop the next. *)
(* Titles, bodies and links are left out.                                  *)
(***************************************************************************)
EXTENDS Integers, FiniteSets

CONSTANTS
  Posts,      \* Nexon's posts
  Apps,       \* notices an operator may write
  Operators,  \* requests of operators that push
  None,       \* SQL NULL
  Old,        \* posts on the list when the server first runs, over an empty table
  Stale,      \* STALE_MS
  RoundMax,   \* the poller is through with the posts of a round within this time
  MaxNow,     \* bound: the clock stops here
  MaxAsked,   \* bound: announcements the operator asks for, per notice
  MaxFaults   \* bound: lost answers, failed marks and crashes

ASSUME NoticeAssumption ==
  /\ Old \subseteq Posts
  /\ Posts \cap Apps = {}
  /\ None \notin Posts \cup Apps \cup Nat
  /\ IsFiniteSet(Operators)

ASSUME TimeAssumption ==
  /\ Stale \in Nat /\ RoundMax \in Nat
  /\ MaxNow \in Nat /\ MaxAsked \in Nat /\ MaxFaults \in Nat

Notices == Posts \cup Apps

VARIABLES
  now,
  listed,       \* posts on Nexon's list
  published,    \* published_at of a post
  row,          \* whether a notice is in the table
  scheduledAt,  \* scheduled_at
  sent,         \* sent_at is set
  poller,       \* the statement tick() is at; idle: running is false
  todo,         \* what is left of the loop it is in
  item,         \* the notice it pushes or marks
  seeding,      \* the local of collect()
  at,           \* the local `now` of collect()
  pc,           \* the statement an operator's request is at
  on,           \* its notice
  up,           \* the process is running
  pushes,       \* times a notice was pushed to the phones
  pushedAt,     \* when a post was pushed last
  asked,        \* times the operator asked for it
  tried,        \* how often the poller tried to push a notice
  halfSeeded,   \* the round over the empty table was stopped in the middle
  faults

tableVars  == <<row, scheduledAt, sent>>
pollerVars == <<poller, todo, item, seeding, at>>
opVars     == <<pc, on>>
pushVars   == <<pushes, pushedAt>>
nexonVars  == <<listed, published>>
history    == <<asked, tried, halfSeeded>>
vars == <<now, nexonVars, tableVars, pollerVars, opVars, up, pushVars, history, faults>>

TypeOK ==
  /\ now \in Nat
  /\ listed \in SUBSET Posts
  /\ published \in [Posts -> Nat]
  /\ row \in [Notices -> {"none", "there", "deleted"}]
  /\ scheduledAt \in [Apps -> Nat \cup {None}]
  /\ sent \in [Notices -> BOOLEAN]
  /\ poller \in {"idle", "list", "known", "posts", "push", "mark", "due", "apps"}
  /\ todo \in SUBSET Notices
  /\ item \in Notices \cup {None}
  /\ seeding \in BOOLEAN
  /\ at \in Nat
  /\ pc \in [Operators -> {"idle", "push", "mark"}]
  /\ on \in [Operators -> Apps \cup {None}]
  /\ up \in BOOLEAN
  /\ pushes \in [Notices -> Nat]
  /\ pushedAt \in [Posts -> Nat]
  /\ asked \in [Apps -> Nat]
  /\ tried \in [Notices -> {"never", "once", "again"}]
  /\ halfSeeded \in BOOLEAN
  /\ faults \in Nat
  /\ poller \in {"posts", "push"} => todo \subseteq Posts
  /\ poller = "apps" => todo \subseteq Apps
  /\ poller = "push" => item \in Posts
  /\ poller = "mark" => item \in Notices
  /\ \A o \in Operators : pc[o] # "idle" => on[o] \in Apps

Init ==
  /\ now = 0
  /\ listed = Old
  /\ published = [p \in Posts |-> 0]
  /\ row = [n \in Notices |-> "none"]
  /\ scheduledAt = [n \in Apps |-> None]
  /\ sent = [n \in Notices |-> FALSE]
  /\ poller = "idle" /\ todo = {} /\ item = None /\ seeding = FALSE /\ at = 0
  /\ pc = [o \in Operators |-> "idle"]
  /\ on = [o \in Operators |-> None]
  /\ up = TRUE
  /\ pushes = [n \in Notices |-> 0]
  /\ pushedAt = [p \in Posts |-> 0]
  /\ asked = [n \in Apps |-> 0]
  /\ tried = [n \in Notices |-> "never"]
  /\ halfSeeded = FALSE
  /\ faults = 0

-----------------------------------------------------------------------------
(* Firebase, the table and what may go wrong with them. *)

Fault == faults < MaxFaults /\ faults' = faults + 1

\* Firebase sends the notice to every phone of its topic.
Delivered(n) ==
  /\ pushes' = [pushes EXCEPT ![n] = @ + 1]
  /\ pushedAt' = [p \in Posts |-> IF p = n THEN now ELSE pushedAt[p]]

\* sendNotice: sent; sent, but the answer is lost; or not sent.
Answered(n) == Delivered(n) /\ UNCHANGED faults
Unanswered(n) ==
  \/ Delivered(n) /\ Fault
  \/ UNCHANGED <<pushVars, faults>>

Tried(n) == tried' = [tried EXCEPT ![n] = IF @ = "never" THEN "once" ELSE "again"]

\* Mutant: markSent does nothing.
Forget(n) == UNCHANGED sent

\* markSent is an UPDATE by id: a notice that was deleted takes nothing.
Mark(n) == sent' = IF row[n] = "there" THEN [sent EXCEPT ![n] = TRUE] ELSE sent

-----------------------------------------------------------------------------
(* NoticePoller.tick: the posts of Nexon. *)

Publish(p) ==
  /\ p \notin listed
  /\ listed' = listed \cup {p}
  /\ published' = [published EXCEPT ![p] = now]
  /\ UNCHANGED <<now, tableVars, pollerVars, opVars, up, pushVars, history, faults>>

StartTick ==
  /\ up /\ poller = "idle"
  /\ poller' = "list"
  /\ UNCHANGED <<now, nexonVars, tableVars, todo, item, seeding, at, opVars, up, pushVars,
                 history, faults>>

\* The list of Nexon comes, or it fails.
NoticeList ==
  /\ up /\ poller = "list"
  /\ \/ poller' = "known" /\ todo' = listed
     \/ poller' = "due" /\ UNCHANGED todo
  /\ UNCHANGED <<now, nexonVars, tableVars, item, seeding, at, opVars, up, pushVars,
                 history, faults>>

Fresh == {p \in todo : row[p] = "none"}

\* Mutant: hasAny looks at nothing.
NeverEmpty == FALSE

EmptyTable == \A p \in Posts : row[p] = "none"

\* knownKeys and hasAny, as one step: nobody else writes posts.
KnownKeys ==
  /\ up /\ poller = "known"
  /\ \/ /\ Fresh # {}
        /\ poller' = "posts" /\ todo' = Fresh
        /\ seeding' = EmptyTable /\ at' = now
     \/ poller' = "due" /\ todo' = {} /\ UNCHANGED <<seeding, at>>
  /\ UNCHANGED <<now, nexonVars, tableVars, item, opVars, up, pushVars, history, faults>>

\* Mutant: the age is not looked at.
AnyAge(p) == ~seeding

News(p) == ~seeding /\ at - published[p] <= Stale

\* Mutant: what is left of a list is taken for notices of the operator.
Astray(n, rest) == IF rest = {} THEN "idle" ELSE "apps"

\* Where the poller goes when it is through with a notice.
After(n, rest) ==
  IF n \in Posts THEN IF rest = {} THEN "due" ELSE "posts"
  ELSE IF rest = {} THEN "idle" ELSE "apps"

\* Mutant: a post is stored only when there is nothing to push.
StoredIfSilent(p) == IF News(p) THEN row ELSE [row EXCEPT ![p] = "there"]

\* The post is in the table before it is pushed.
Stored(p) == [row EXCEPT ![p] = "there"]

Stopped ==
  /\ poller' = "due" /\ todo' = {}
  /\ halfSeeded' = (halfSeeded \/ (seeding /\ \E p \in Posts : row'[p] # "none"))

\* rowOf and insert: when either throws, the rest of the list waits for another round.  The key
\* of a post is unique.  News may be turned down by its title (shouldNotify).
Insert(p) ==
  /\ up /\ poller = "posts"
  /\ p \in todo
  /\ \/ /\ row[p] = "none" /\ row' = Stored(p)
        /\ todo' = todo \ {p}
        /\ \/ News(p) /\ item' = p /\ poller' = "push"
           \/ item' = None /\ poller' = After(p, todo')
        /\ UNCHANGED <<halfSeeded, faults>>
     \/ row[p] = "none" /\ row' = Stored(p) /\ Fault /\ Stopped /\ UNCHANGED item
     \/ UNCHANGED <<row, item, faults>> /\ Stopped
  /\ UNCHANGED <<now, nexonVars, scheduledAt, sent, seeding, at, opVars, up, pushVars, asked, tried>>

PushPost ==
  /\ up /\ poller = "push"
  /\ \/ Answered(item) /\ poller' = "mark" /\ UNCHANGED item
     \/ Unanswered(item) /\ poller' = After(item, todo) /\ item' = None
  /\ Tried(item)
  /\ UNCHANGED <<now, nexonVars, tableVars, todo, seeding, at, opVars, up, asked, halfSeeded>>

\* The notice is marked as sent, or its UPDATE fails and is only logged.
MarkSent ==
  /\ up /\ poller = "mark"
  /\ \/ Mark(item) /\ UNCHANGED faults
     \/ Fault /\ UNCHANGED sent
  /\ poller' = After(item, todo) /\ item' = None
  /\ UNCHANGED <<now, nexonVars, row, scheduledAt, todo, seeding, at, opVars, up, pushVars,
                 history>>

-----------------------------------------------------------------------------
(* NoticePoller.sendScheduled. *)

\* Mutants of dueScheduled: only what is due this minute; without sent_at IS NULL.
DueNow == {n \in Apps : row[n] = "there" /\ ~sent[n] /\ scheduledAt[n] = now}

DueAgain == {n \in Apps : row[n] = "there" /\ scheduledAt[n] # None /\ scheduledAt[n] <= now}

Due == {n \in Apps : /\ row[n] = "there" /\ ~sent[n]
                     /\ scheduledAt[n] # None /\ scheduledAt[n] <= now}

\* The locals of collect() are gone.
EndCollect == seeding' = FALSE /\ at' = 0

DueScheduled ==
  /\ up /\ poller = "due"
  /\ todo' = Due
  /\ poller' = IF Due = {} THEN "idle" ELSE "apps"
  /\ EndCollect
  /\ UNCHANGED <<now, nexonVars, tableVars, item, opVars, up, pushVars,
                 history, faults>>

\* The rows were read at the start of the loop: what the operator does meanwhile is not seen.
PushDue(n) ==
  /\ up /\ poller = "apps"
  /\ n \in todo
  /\ todo' = todo \ {n}
  /\ \/ Answered(n) /\ poller' = "mark" /\ item' = n
     \/ Unanswered(n) /\ poller' = After(n, todo') /\ UNCHANGED item
  /\ Tried(n)
  /\ UNCHANGED <<now, nexonVars, tableVars, seeding, at, opVars, up, asked, halfSeeded>>

-----------------------------------------------------------------------------
(* OperatorNoticesService, one request per element of Operators. *)

\* Saved only, scheduled, or saved and about to be pushed; the answer of the insert may be lost.
Create(o, n) ==
  /\ up /\ pc[o] = "idle"
  /\ row[n] = "none"
  /\ row' = [row EXCEPT ![n] = "there"]
  /\ \/ UNCHANGED <<scheduledAt, opVars, asked>>
     \/ \E t \in now + 1 .. MaxNow :
          /\ scheduledAt' = [scheduledAt EXCEPT ![n] = t]
          /\ asked' = [asked EXCEPT ![n] = @ + 1]
          /\ UNCHANGED opVars
     \/ /\ pc' = [pc EXCEPT ![o] = "push"]
        /\ on' = [on EXCEPT ![o] = n]
        /\ asked' = [asked EXCEPT ![n] = @ + 1]
        /\ UNCHANGED scheduledAt
  /\ UNCHANGED <<now, nexonVars, sent, pollerVars, up, pushVars, tried, halfSeeded, faults>>

\* An update that announces: the row was found and updated, and is not looked at again.
Update(o, n) ==
  /\ up /\ pc[o] = "idle"
  /\ row[n] = "there" /\ asked[n] < MaxAsked
  /\ pc' = [pc EXCEPT ![o] = "push"]
  /\ on' = [on EXCEPT ![o] = n]
  /\ asked' = [asked EXCEPT ![n] = @ + 1]
  /\ UNCHANGED <<now, nexonVars, tableVars, pollerVars, up, pushVars, tried, halfSeeded, faults>>

Finish(o) ==
  /\ pc' = [pc EXCEPT ![o] = "idle"]
  /\ on' = [on EXCEPT ![o] = None]

PushNow(o) ==
  /\ up /\ pc[o] = "push"
  /\ \/ Answered(on[o]) /\ pc' = [pc EXCEPT ![o] = "mark"] /\ UNCHANGED on
     \/ Unanswered(on[o]) /\ Finish(o)
  /\ UNCHANGED <<now, nexonVars, tableVars, pollerVars, up, history>>

MarkNow(o) ==
  /\ up /\ pc[o] = "mark"
  /\ \/ Mark(on[o]) /\ UNCHANGED faults
     \/ Fault /\ UNCHANGED sent
  /\ Finish(o)
  /\ UNCHANGED <<now, nexonVars, row, scheduledAt, pollerVars, up, pushVars, history>>

Remove(n) ==
  /\ up /\ row[n] = "there"
  /\ row' = [row EXCEPT ![n] = "deleted"]
  /\ UNCHANGED <<now, nexonVars, scheduledAt, sent, pollerVars, opVars, up, pushVars,
                 history, faults>>

CancelSchedule(n) ==
  /\ up /\ row[n] = "there" /\ scheduledAt[n] # None /\ ~sent[n]
  /\ scheduledAt' = [scheduledAt EXCEPT ![n] = None]
  /\ UNCHANGED <<now, nexonVars, row, sent, pollerVars, opVars, up, pushVars,
                 history, faults>>

-----------------------------------------------------------------------------
(* The clock and the process. *)

Tick ==
  /\ now < MaxNow
  /\ (poller \in {"posts", "push"} \/ item \in Posts) => now < at + RoundMax
  /\ now' = now + 1
  /\ UNCHANGED <<nexonVars, tableVars, pollerVars, opVars, up, pushVars, history, faults>>

\* The process dies by itself, or because dueScheduled fails: tick() rejects and nobody catches it.
Crash ==
  /\ up /\ Fault
  /\ up' = FALSE
  /\ halfSeeded' = (halfSeeded \/ (poller = "posts" /\ seeding /\ ~EmptyTable))
  /\ poller' = "idle" /\ todo' = {} /\ item' = None
  /\ pc' = [o \in Operators |-> "idle"]
  /\ on' = [o \in Operators |-> None]
  /\ EndCollect
  /\ UNCHANGED <<now, nexonVars, tableVars, pushVars, asked, tried>>

Restart ==
  /\ ~up
  /\ up' = TRUE
  /\ UNCHANGED <<now, nexonVars, tableVars, pollerVars, opVars, pushVars, history, faults>>

Poller ==
  \/ StartTick
  \/ NoticeList
  \/ KnownKeys
  \/ \E p \in Posts : Insert(p)
  \/ PushPost
  \/ MarkSent
  \/ DueScheduled
  \/ \E n \in Apps : PushDue(n)

Operator(o) ==
  \/ \E n \in Apps : Create(o, n)
  \/ \E n \in Apps : Update(o, n)
  \/ PushNow(o)
  \/ MarkNow(o)

Next ==
  \/ Poller
  \/ \E o \in Operators : Operator(o)
  \/ \E n \in Apps : Remove(n)
  \/ \E n \in Apps : CancelSchedule(n)
  \/ \E p \in Posts : Publish(p)
  \/ Tick
  \/ Crash
  \/ Restart

\* The interval fires, calls time out, a dead process is started again, and Firebase and the
\* database work again and again.
Fairness ==
  /\ WF_vars(Poller) /\ WF_vars(Restart)
  /\ \A n \in Apps : SF_vars(PushDue(n) /\ Answered(n))
  /\ SF_vars(MarkSent /\ UNCHANGED faults)

Spec == Init /\ [][Next]_vars /\ Fairness

-----------------------------------------------------------------------------
(* Properties. *)

\* A post of Nexon is announced at most once, whatever fails or restarts in the middle of a round.
AnnouncedOnce == \A p \in Posts : pushes[p] <= 1

\* Coming up over an empty table announces nothing that is already there, unless the first round
\* was stopped in the middle.
FirstRoundSilent == ~halfSeeded => \A p \in Old : pushes[p] = 0

\* Nothing old is announced, however long the server was down or Nexon did not answer.
NoBacklog ==
  \A p \in Posts : pushes[p] > 0 => pushedAt[p] <= published[p] + Stale + RoundMax

\* Each push of an operator's notice is one the operator asked for or the price of one fault: the
\* poller and a request that announces the same notice do not multiply it.
PushesAccounted == \A n \in Apps : pushes[n] <= asked[n] + faults

\* A scheduled notice goes out when its time comes: no round that stopped in the middle keeps the
\* next ones from running, and no failure makes the poller forget the notice.
DueIsSent ==
  \A n \in Apps :
    row[n] = "there" /\ scheduledAt[n] # None /\ scheduledAt[n] <= now ~>
      sent[n] \/ scheduledAt[n] = None \/ row[n] # "there"

\* What notice-poller.ts says: an announcement that fails is over with its round, and an empty
\* sent_at is no reason to push again.
FailureIsFinal == \A n \in Notices : tried[n] # "again"
=============================================================================
