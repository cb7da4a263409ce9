------------------------ MODULE NoticeDeliveryProofs ------------------------
(***************************************************************************)
(* The safety properties of NoticeDelivery, for any number of posts,       *)
(* notices and requests.                                                   *)
(***************************************************************************)
EXTENDS NoticeDelivery, FiniteSetTheorems, TLAPS

-----------------------------------------------------------------------------
(* The invariant. *)

\* What the poller holds in each of its loops.
Loops ==
  /\ item # None <=> poller \in {"push", "mark"}
  /\ poller = "mark" /\ item \in Posts => todo \subseteq Posts
  /\ poller = "mark" /\ item \in Apps => todo \subseteq Apps \ {item}
  /\ poller \in {"idle", "list", "due"} => todo = {}
  /\ poller = "known" => todo \subseteq Posts

\* A post is stored before it is pushed, and taken for a push once.
StoredFirst ==
  \A p \in Posts :
    /\ pushes[p] <= 1
    /\ row[p] = "none" => pushes[p] = 0
    /\ poller = "push" /\ item = p => row[p] # "none" /\ pushes[p] = 0

\* Until the old posts are stored, the table is empty or the round that fills it is running.
Seeded ==
  /\ poller = "known" => Old \subseteq todo
  /\ Old \subseteq listed
  /\ ~halfSeeded =>
       /\ \A p \in Old : pushes[p] = 0 /\ ~(poller = "push" /\ item = p)
       /\ \/ \A p \in Old : row[p] # "none"
          \/ EmptyTable /\ poller # "posts" /\ item \notin Posts
          \/ poller = "posts" /\ seeding /\ \A p \in Old : row[p] = "none" => p \in todo

\* The poller goes through posts of the list, within the time of a round.
Punctual ==
  /\ poller \in {"posts", "push"} \/ item \in Posts => now <= at + RoundMax
  /\ \A p \in Posts : p \in todo \/ p = item \/ pushes[p] > 0 => p \in listed
  /\ poller = "push" => at <= published[item] + Stale

\* Requests that are about to push a notice.
AboutToPush(n) == {o \in Operators : pc[o] = "push" /\ on[o] = n}

\* The poller still has a notice to push, or will find it again.
Scheduled(n) ==
  \/ n \in todo
  \/ /\ row[n] = "there" /\ ~sent[n] /\ scheduledAt[n] # None
     /\ ~(poller = "mark" /\ item = n)

Count(n) == Cardinality(AboutToPush(n))

Owed(n) == IF Scheduled(n) THEN 1 ELSE 0

\* A notice that was never written has no time.
Unwritten == \A n \in Apps : row[n] = "none" => scheduledAt[n] = None

\* Pushes made, about to be made, and still to come.
Budget == \A n \in Apps : pushes[n] + Count(n) + Owed(n) <= asked[n] + faults

USE NoticeAssumption, TimeAssumption
   DEF tableVars, pollerVars, opVars, pushVars, nexonVars, history

-----------------------------------------------------------------------------
(* Types, and what the poller holds. *)

LEMMA TypeStep == TypeOK /\ Loops /\ [Next]_vars => (TypeOK /\ Loops)'
  <1> SUFFICES ASSUME TypeOK, Loops, [Next]_vars PROVE (TypeOK /\ Loops)'
    OBVIOUS
  <1>1. CASE StartTick
    BY <1>1 DEF StartTick, TypeOK, Loops, Notices
  <1>2. CASE NoticeList
    BY <1>2 DEF NoticeList, TypeOK, Loops, Notices
  <1>3. CASE KnownKeys
    BY <1>3 DEF KnownKeys, Fresh, EmptyTable, TypeOK, Loops, Notices
  <1>4. ASSUME NEW p \in Posts, Insert(p)
      PROVE  (TypeOK /\ Loops)'
    BY <1>4 DEF Insert, Stored, Stopped, News, After, Fault, TypeOK, Loops, Notices
  <1>5. CASE PushPost
    BY <1>5
       DEF PushPost, Answered, Unanswered, Delivered, Fault, Tried, After, TypeOK, Loops,
           Notices
  <1>6. CASE MarkSent
    <2>1. item \in Notices
      BY <1>6 DEF MarkSent, TypeOK
    <2>2. sent' \in [Notices -> BOOLEAN]
      BY <1>6, <2>1 DEF MarkSent, Mark, TypeOK
    <2>3. faults' \in Nat
      BY <1>6 DEF MarkSent, Fault, TypeOK
    <2>4. QED
      BY <1>6, <2>1, <2>2, <2>3 DEF MarkSent, After, TypeOK, Loops, Notices
  <1>7. CASE DueScheduled
    BY <1>7 DEF DueScheduled, Due, EndCollect, TypeOK, Loops, Notices
  <1>8. ASSUME NEW n \in Apps, PushDue(n)
      PROVE  (TypeOK /\ Loops)'
    BY <1>8
       DEF PushDue, Answered, Unanswered, Delivered, Fault, Tried, After, TypeOK, Loops, Notices
  <1>9. ASSUME NEW o \in Operators, NEW n \in Apps, Create(o, n)
      PROVE  (TypeOK /\ Loops)'
    BY <1>9 DEF Create, TypeOK, Loops, Notices
  <1>10. ASSUME NEW o \in Operators, NEW n \in Apps, Update(o, n)
      PROVE  (TypeOK /\ Loops)'
    BY <1>10 DEF Update, TypeOK, Loops, Notices
  <1>11. ASSUME NEW o \in Operators, PushNow(o)
      PROVE  (TypeOK /\ Loops)'
    BY <1>11 DEF PushNow, Answered, Unanswered, Delivered, Fault, Finish, TypeOK, Loops, Notices
  <1>12. ASSUME NEW o \in Operators, MarkNow(o)
      PROVE  (TypeOK /\ Loops)'
    <2>1. on[o] \in Apps
      BY <1>12 DEF MarkNow, TypeOK
    <2>2. sent' \in [Notices -> BOOLEAN]
      BY <1>12, <2>1 DEF MarkNow, Mark, TypeOK, Notices
    <2>3. faults' \in Nat
      BY <1>12 DEF MarkNow, Fault, TypeOK
    <2>4. QED
      BY <1>12, <2>2, <2>3 DEF MarkNow, Finish, TypeOK, Loops
  <1>13. ASSUME NEW n \in Apps, Remove(n)
      PROVE  (TypeOK /\ Loops)'
    BY <1>13 DEF Remove, TypeOK, Loops, Notices
  <1>14. ASSUME NEW n \in Apps, CancelSchedule(n)
      PROVE  (TypeOK /\ Loops)'
    BY <1>14 DEF CancelSchedule, TypeOK, Loops, Notices
  <1>15. ASSUME NEW p \in Posts, Publish(p)
      PROVE  (TypeOK /\ Loops)'
    BY <1>15 DEF Publish, TypeOK, Loops, Notices
  <1>16. CASE Tick
    BY <1>16 DEF Tick, TypeOK, Loops, Notices
  <1>17. CASE Crash
    <2>1. halfSeeded' \in BOOLEAN
      BY <1>17 DEF Crash
    <2>2. faults' \in Nat
      BY <1>17 DEF Crash, Fault, TypeOK
    <2>3. pc' \in [Operators -> {"idle"}] /\ on' \in [Operators -> {None}]
      BY <1>17 DEF Crash
    <2>4. TypeOK'
      BY <1>17, <2>1, <2>2, <2>3 DEF Crash, EndCollect, TypeOK
    <2>5. Loops'
      BY <1>17 DEF Crash, Loops
    <2>6. QED
      BY <2>4, <2>5
  <1>18. CASE Restart
    BY <1>18 DEF Restart, TypeOK, Loops, Notices
  <1>19. CASE UNCHANGED vars
    BY <1>19 DEF vars, TypeOK, Loops, Notices
  <1>20. QED
    BY <1>1, <1>2, <1>3, <1>4, <1>5, <1>6, <1>7, <1>8, <1>9, <1>10, <1>11, <1>12, <1>13, <1>14, <1>15, <1>16, <1>17, <1>18, <1>19
       DEF Next, Poller, Operator

-----------------------------------------------------------------------------
(* Posts. *)

LEMMA StoredFirstStep ==
  TypeOK /\ Loops /\ StoredFirst /\ [Next]_vars => StoredFirst'
  <1> SUFFICES ASSUME TypeOK, Loops, StoredFirst, [Next]_vars PROVE StoredFirst'
    OBVIOUS
  <1>1. CASE StartTick
    BY <1>1 DEF StartTick, TypeOK, Loops, StoredFirst, Notices
  <1>2. CASE NoticeList
    BY <1>2 DEF NoticeList, TypeOK, Loops, StoredFirst, Notices
  <1>3. CASE KnownKeys
    BY <1>3 DEF KnownKeys, Fresh, EmptyTable, TypeOK, Loops, StoredFirst, Notices
  <1>4. ASSUME NEW p \in Posts, Insert(p)
      PROVE  StoredFirst'
    <2>1. (row[p] = "none" /\ row' = [row EXCEPT ![p] = "there"]) \/ UNCHANGED row
      BY <1>4 DEF Insert, Stored
    <2>2. poller' = "push" => item' = p /\ row[p] = "none" /\ row' = [row EXCEPT ![p] = "there"]
      BY <1>4 DEF Insert, Stored, Stopped, After
    <2>3. UNCHANGED pushes
      BY <1>4 DEF Insert
    <2>4. QED
      BY <2>1, <2>2, <2>3 DEF TypeOK, StoredFirst, Notices
  <1>5. CASE PushPost
    <2>1. item \in Posts /\ pushes[item] = 0
      BY <1>5 DEF PushPost, TypeOK, StoredFirst
    <2>2. \/ pushes' = [pushes EXCEPT ![item] = 1]
          \/ UNCHANGED pushes
      BY <1>5, <2>1 DEF PushPost, Answered, Unanswered, Delivered, TypeOK
    <2>3. poller' # "push" /\ UNCHANGED row
      BY <1>5 DEF PushPost, After
    <2>4. row[item] # "none"
      BY <1>5, <2>1 DEF PushPost, StoredFirst
    <2>5. QED
      BY <2>1, <2>2, <2>3, <2>4 DEF TypeOK, StoredFirst, Notices
  <1>6. CASE MarkSent
    BY <1>6 DEF MarkSent, Mark, Fault, After, TypeOK, Loops, StoredFirst, Notices
  <1>7. CASE DueScheduled
    BY <1>7 DEF DueScheduled, Due, EndCollect, TypeOK, Loops, StoredFirst, Notices
  <1>8. ASSUME NEW n \in Apps, PushDue(n)
      PROVE  StoredFirst'
    BY <1>8
       DEF PushDue, Answered, Unanswered, Delivered, Fault, Tried, After, TypeOK, Loops,
           StoredFirst, Notices
  <1>9. ASSUME NEW o \in Operators, NEW n \in Apps, Create(o, n)
      PROVE  StoredFirst'
    BY <1>9 DEF Create, TypeOK, Loops, StoredFirst, Notices
  <1>10. ASSUME NEW o \in Operators, NEW n \in Apps, Update(o, n)
      PROVE  StoredFirst'
    BY <1>10 DEF Update, TypeOK, Loops, StoredFirst, Notices
  <1>11. ASSUME NEW o \in Operators, PushNow(o)
      PROVE  StoredFirst'
    BY <1>11
       DEF PushNow, Answered, Unanswered, Delivered, Fault, Finish, TypeOK, Loops, StoredFirst,
           Notices
  <1>12. ASSUME NEW o \in Operators, MarkNow(o)
      PROVE  StoredFirst'
    BY <1>12 DEF MarkNow, Mark, Fault, Finish, TypeOK, Loops, StoredFirst, Notices
  <1>13. ASSUME NEW n \in Apps, Remove(n)
      PROVE  StoredFirst'
    BY <1>13 DEF Remove, TypeOK, Loops, StoredFirst, Notices
  <1>14. ASSUME NEW n \in Apps, CancelSchedule(n)
      PROVE  StoredFirst'
    BY <1>14 DEF CancelSchedule, TypeOK, Loops, StoredFirst, Notices
  <1>15. ASSUME NEW p \in Posts, Publish(p)
      PROVE  StoredFirst'
    BY <1>15 DEF Publish, TypeOK, Loops, StoredFirst, Notices
  <1>16. CASE Tick
    BY <1>16 DEF Tick, TypeOK, Loops, StoredFirst, Notices
  <1>17. CASE Crash
    BY <1>17 DEF Crash, Fault, EndCollect, EmptyTable, TypeOK, Loops, StoredFirst, Notices
  <1>18. CASE Restart
    BY <1>18 DEF Restart, TypeOK, Loops, StoredFirst, Notices
  <1>19. CASE UNCHANGED vars
    BY <1>19 DEF vars, TypeOK, Loops, StoredFirst, Notices
  <1>20. QED
    BY <1>1, <1>2, <1>3, <1>4, <1>5, <1>6, <1>7, <1>8, <1>9, <1>10, <1>11, <1>12, <1>13, <1>14, <1>15, <1>16, <1>17, <1>18, <1>19
       DEF Next, Poller, Operator

LEMMA SeededStep ==
  TypeOK /\ Loops /\ Seeded /\ [Next]_vars => Seeded'
  <1> SUFFICES ASSUME TypeOK, Loops, Seeded, [Next]_vars PROVE Seeded'
    OBVIOUS
  <1>1. CASE StartTick
    BY <1>1 DEF StartTick, TypeOK, Loops, Seeded, EmptyTable, Notices
  <1>2. CASE NoticeList
    BY <1>2 DEF NoticeList, TypeOK, Loops, Seeded, EmptyTable, Notices
  <1>3. CASE KnownKeys
    BY <1>3 DEF KnownKeys, Fresh, EmptyTable, TypeOK, Loops, Seeded, EmptyTable, Notices
  <1>4. ASSUME NEW p \in Posts, Insert(p)
      PROVE  Seeded'
    BY <1>4
       DEF Insert, Stored, Stopped, News, After, Fault, TypeOK, Loops, Seeded, EmptyTable,
           Notices
  <1>5. CASE PushPost
    <2>1. item \in Posts
      BY <1>5 DEF PushPost, TypeOK
    <2>2. ~halfSeeded => item \notin Old /\ \A p \in Old : row[p] # "none"
      BY <1>5, <2>1 DEF PushPost, Seeded
    <2>3. \A p \in Posts : p # item => pushes'[p] = pushes[p]
      BY <1>5, <2>1 DEF PushPost, Answered, Unanswered, Delivered, TypeOK, Notices
    <2>4. poller' # "known" /\ poller' # "push" /\ UNCHANGED <<row, listed, halfSeeded>>
      BY <1>5 DEF PushPost, After
    <2>5. QED
      BY <2>2, <2>3, <2>4 DEF Seeded
  <1>6. CASE MarkSent
    <2>1. poller' # "known" /\ poller' # "push"
      BY <1>6 DEF MarkSent, After
    <2>2. UNCHANGED <<row, listed, halfSeeded, pushes, seeding, todo>>
      BY <1>6 DEF MarkSent
    <2>3. poller = "mark"
      BY <1>6 DEF MarkSent
    <2>4. ~halfSeeded => (\A p \in Old : row[p] # "none") \/ (EmptyTable /\ item \notin Posts)
      BY <2>3 DEF Seeded
    <2>5. item \notin Posts => poller' # "posts"
      BY <1>6 DEF MarkSent, After
    <2>6. item' \notin Posts
      BY <1>6 DEF MarkSent
    <2>7. QED
      BY <2>1, <2>2, <2>4, <2>5, <2>6 DEF Seeded, EmptyTable
  <1>7. CASE DueScheduled
    BY <1>7 DEF DueScheduled, Due, EndCollect, TypeOK, Loops, Seeded, EmptyTable, Notices
  <1>8. ASSUME NEW n \in Apps, PushDue(n)
      PROVE  Seeded'
    BY <1>8
       DEF PushDue, Answered, Unanswered, Delivered, Fault, Tried, After, TypeOK, Loops, Seeded,
           EmptyTable, Notices
  <1>9. ASSUME NEW o \in Operators, NEW n \in Apps, Create(o, n)
      PROVE  Seeded'
    BY <1>9 DEF Create, TypeOK, Loops, Seeded, EmptyTable, Notices
  <1>10. ASSUME NEW o \in Operators, NEW n \in Apps, Update(o, n)
      PROVE  Seeded'
    BY <1>10 DEF Update, TypeOK, Loops, Seeded, EmptyTable, Notices
  <1>11. ASSUME NEW o \in Operators, PushNow(o)
      PROVE  Seeded'
    BY <1>11
       DEF PushNow, Answered, Unanswered, Delivered, Fault, Finish, TypeOK, Loops, Seeded,
           EmptyTable, Notices
  <1>12. ASSUME NEW o \in Operators, MarkNow(o)
      PROVE  Seeded'
    BY <1>12 DEF MarkNow, Mark, Fault, Finish, TypeOK, Loops, Seeded, EmptyTable, Notices
  <1>13. ASSUME NEW n \in Apps, Remove(n)
      PROVE  Seeded'
    BY <1>13 DEF Remove, TypeOK, Loops, Seeded, EmptyTable, Notices
  <1>14. ASSUME NEW n \in Apps, CancelSchedule(n)
      PROVE  Seeded'
    BY <1>14 DEF CancelSchedule, TypeOK, Loops, Seeded, EmptyTable, Notices
  <1>15. ASSUME NEW p \in Posts, Publish(p)
      PROVE  Seeded'
    BY <1>15 DEF Publish, TypeOK, Loops, Seeded, EmptyTable, Notices
  <1>16. CASE Tick
    BY <1>16 DEF Tick, TypeOK, Loops, Seeded, EmptyTable, Notices
  <1>17. CASE Crash
    BY <1>17
       DEF Crash, Fault, EndCollect, EmptyTable, TypeOK, Loops, Seeded, EmptyTable, Notices
  <1>18. CASE Restart
    BY <1>18 DEF Restart, TypeOK, Loops, Seeded, EmptyTable, Notices
  <1>19. CASE UNCHANGED vars
    BY <1>19 DEF vars, TypeOK, Loops, Seeded, EmptyTable, Notices
  <1>20. QED
    BY <1>1, <1>2, <1>3, <1>4, <1>5, <1>6, <1>7, <1>8, <1>9, <1>10, <1>11, <1>12, <1>13, <1>14, <1>15, <1>16, <1>17, <1>18, <1>19
       DEF Next, Poller, Operator

LEMMA PunctualStep ==
  TypeOK /\ Loops /\ Punctual /\ [Next]_vars => Punctual'
  <1> SUFFICES ASSUME TypeOK, Loops, Punctual, [Next]_vars PROVE Punctual'
    OBVIOUS
  <1>1. CASE StartTick
    BY <1>1 DEF StartTick, TypeOK, Loops, Punctual, Notices
  <1>2. CASE NoticeList
    BY <1>2 DEF NoticeList, TypeOK, Loops, Punctual, Notices
  <1>3. CASE KnownKeys
    <2>1. todo' \subseteq todo /\ item = None /\ item' = None
      BY <1>3 DEF KnownKeys, Fresh, Loops
    <2>2. now' = now /\ (poller' = "posts" => at' = now) /\ poller' \in {"posts", "due"}
      BY <1>3 DEF KnownKeys
    <2>3. UNCHANGED <<pushes, listed, published>>
      BY <1>3 DEF KnownKeys
    <2>4. QED
      BY <2>1, <2>2, <2>3 DEF TypeOK, Punctual
  <1>4. ASSUME NEW p \in Posts, Insert(p)
      PROVE  Punctual'
    BY <1>4 DEF Insert, Stored, Stopped, News, After, Fault, TypeOK, Loops, Punctual, Notices
  <1>5. CASE PushPost
    BY <1>5
       DEF PushPost, Answered, Unanswered, Delivered, Fault, Tried, After, TypeOK, Loops,
           Punctual, Notices
  <1>6. CASE MarkSent
    BY <1>6 DEF MarkSent, Mark, Fault, After, TypeOK, Loops, Punctual, Notices
  <1>7. CASE DueScheduled
    BY <1>7 DEF DueScheduled, Due, EndCollect, TypeOK, Loops, Punctual, Notices
  <1>8. ASSUME NEW n \in Apps, PushDue(n)
      PROVE  Punctual'
    BY <1>8
       DEF PushDue, Answered, Unanswered, Delivered, Fault, Tried, After, TypeOK, Loops,
           Punctual, Notices
  <1>9. ASSUME NEW o \in Operators, NEW n \in Apps, Create(o, n)
      PROVE  Punctual'
    BY <1>9 DEF Create, TypeOK, Loops, Punctual, Notices
  <1>10. ASSUME NEW o \in Operators, NEW n \in Apps, Update(o, n)
      PROVE  Punctual'
    BY <1>10 DEF Update, TypeOK, Loops, Punctual, Notices
  <1>11. ASSUME NEW o \in Operators, PushNow(o)
      PROVE  Punctual'
    BY <1>11
       DEF PushNow, Answered, Unanswered, Delivered, Fault, Finish, TypeOK, Loops, Punctual,
           Notices
  <1>12. ASSUME NEW o \in Operators, MarkNow(o)
      PROVE  Punctual'
    BY <1>12 DEF MarkNow, Mark, Fault, Finish, TypeOK, Loops, Punctual, Notices
  <1>13. ASSUME NEW n \in Apps, Remove(n)
      PROVE  Punctual'
    BY <1>13 DEF Remove, TypeOK, Loops, Punctual, Notices
  <1>14. ASSUME NEW n \in Apps, CancelSchedule(n)
      PROVE  Punctual'
    BY <1>14 DEF CancelSchedule, TypeOK, Loops, Punctual, Notices
  <1>15. ASSUME NEW p \in Posts, Publish(p)
      PROVE  Punctual'
    BY <1>15 DEF Publish, TypeOK, Loops, Punctual, Notices
  <1>16. CASE Tick
    BY <1>16 DEF Tick, TypeOK, Loops, Punctual, Notices
  <1>17. CASE Crash
    BY <1>17 DEF Crash, Fault, EndCollect, EmptyTable, TypeOK, Loops, Punctual, Notices
  <1>18. CASE Restart
    BY <1>18 DEF Restart, TypeOK, Loops, Punctual, Notices
  <1>19. CASE UNCHANGED vars
    BY <1>19 DEF vars, TypeOK, Loops, Punctual, Notices
  <1>20. QED
    BY <1>1, <1>2, <1>3, <1>4, <1>5, <1>6, <1>7, <1>8, <1>9, <1>10, <1>11, <1>12, <1>13, <1>14, <1>15, <1>16, <1>17, <1>18, <1>19
       DEF Next, Poller, Operator

LEMMA NoBacklogStep ==
  TypeOK /\ Loops /\ Punctual /\ NoBacklog /\ [Next]_vars => NoBacklog'
  <1> SUFFICES ASSUME TypeOK, Loops, Punctual, NoBacklog, [Next]_vars PROVE NoBacklog'
    OBVIOUS
  <1>1. CASE StartTick
    BY <1>1 DEF StartTick, TypeOK, Loops, Punctual, NoBacklog, Notices
  <1>2. CASE NoticeList
    BY <1>2 DEF NoticeList, TypeOK, Loops, Punctual, NoBacklog, Notices
  <1>3. CASE KnownKeys
    BY <1>3 DEF KnownKeys, Fresh, EmptyTable, TypeOK, Loops, Punctual, NoBacklog, Notices
  <1>4. ASSUME NEW p \in Posts, Insert(p)
      PROVE  NoBacklog'
    BY <1>4
       DEF Insert, Stored, Stopped, News, After, Fault, TypeOK, Loops, Punctual, NoBacklog,
           Notices
  <1>5. CASE PushPost
    BY <1>5
       DEF PushPost, Answered, Unanswered, Delivered, Fault, Tried, After, TypeOK, Loops,
           Punctual, NoBacklog, Notices
  <1>6. CASE MarkSent
    BY <1>6 DEF MarkSent, Mark, Fault, After, TypeOK, Loops, Punctual, NoBacklog, Notices
  <1>7. CASE DueScheduled
    BY <1>7 DEF DueScheduled, Due, EndCollect, TypeOK, Loops, Punctual, NoBacklog, Notices
  <1>8. ASSUME NEW n \in Apps, PushDue(n)
      PROVE  NoBacklog'
    BY <1>8
       DEF PushDue, Answered, Unanswered, Delivered, Fault, Tried, After, TypeOK, Loops,
           Punctual, NoBacklog, Notices
  <1>9. ASSUME NEW o \in Operators, NEW n \in Apps, Create(o, n)
      PROVE  NoBacklog'
    BY <1>9 DEF Create, TypeOK, Loops, Punctual, NoBacklog, Notices
  <1>10. ASSUME NEW o \in Operators, NEW n \in Apps, Update(o, n)
      PROVE  NoBacklog'
    BY <1>10 DEF Update, TypeOK, Loops, Punctual, NoBacklog, Notices
  <1>11. ASSUME NEW o \in Operators, PushNow(o)
      PROVE  NoBacklog'
    BY <1>11
       DEF PushNow, Answered, Unanswered, Delivered, Fault, Finish, TypeOK, Loops, Punctual,
           NoBacklog, Notices
  <1>12. ASSUME NEW o \in Operators, MarkNow(o)
      PROVE  NoBacklog'
    BY <1>12 DEF MarkNow, Mark, Fault, Finish, TypeOK, Loops, Punctual, NoBacklog, Notices
  <1>13. ASSUME NEW n \in Apps, Remove(n)
      PROVE  NoBacklog'
    BY <1>13 DEF Remove, TypeOK, Loops, Punctual, NoBacklog, Notices
  <1>14. ASSUME NEW n \in Apps, CancelSchedule(n)
      PROVE  NoBacklog'
    BY <1>14 DEF CancelSchedule, TypeOK, Loops, Punctual, NoBacklog, Notices
  <1>15. ASSUME NEW p \in Posts, Publish(p)
      PROVE  NoBacklog'
    BY <1>15 DEF Publish, TypeOK, Loops, Punctual, NoBacklog, Notices
  <1>16. CASE Tick
    BY <1>16 DEF Tick, TypeOK, Loops, Punctual, NoBacklog, Notices
  <1>17. CASE Crash
    BY <1>17
       DEF Crash, Fault, EndCollect, EmptyTable, TypeOK, Loops, Punctual, NoBacklog, Notices
  <1>18. CASE Restart
    BY <1>18 DEF Restart, TypeOK, Loops, Punctual, NoBacklog, Notices
  <1>19. CASE UNCHANGED vars
    BY <1>19 DEF vars, TypeOK, Loops, Punctual, NoBacklog, Notices
  <1>20. QED
    BY <1>1, <1>2, <1>3, <1>4, <1>5, <1>6, <1>7, <1>8, <1>9, <1>10, <1>11, <1>12, <1>13, <1>14, <1>15, <1>16, <1>17, <1>18, <1>19
       DEF Next, Poller, Operator

-----------------------------------------------------------------------------
(* Notices of the operator. *)

LEMMA CountIsNat ==
  ASSUME NEW n \in Apps
  PROVE  IsFiniteSet(AboutToPush(n)) /\ Count(n) \in Nat
  <1>1. AboutToPush(n) \subseteq Operators
    BY DEF AboutToPush
  <1>2. IsFiniteSet(AboutToPush(n))
    BY <1>1, FS_Subset
  <1>3. QED
    BY <1>2, FS_CardinalityType DEF Count

\* A request that begins to push a notice adds one, one that is through takes one away.
LEMMA Begin ==
  ASSUME TypeOK, NEW o \in Operators, NEW n \in Apps, NEW m \in Apps,
         pc' = [pc EXCEPT ![o] = "push"], on' = [on EXCEPT ![o] = n], pc[o] = "idle"
  PROVE  Count(m)' \in Nat /\ Count(m)' <= Count(m) + IF m = n THEN 1 ELSE 0
  <1>1. AboutToPush(m)' \subseteq AboutToPush(m) \cup (IF m = n THEN {o} ELSE {})
    BY DEF AboutToPush, TypeOK
  <1>2. IsFiniteSet(AboutToPush(m)) /\ Count(m) \in Nat
    BY CountIsNat
  <1>3. CASE m = n
    <2>1. /\ IsFiniteSet(AboutToPush(m) \cup {o})
          /\ \/ Cardinality(AboutToPush(m) \cup {o}) = Cardinality(AboutToPush(m))
             \/ Cardinality(AboutToPush(m) \cup {o}) = Cardinality(AboutToPush(m)) + 1
      BY <1>2, FS_AddElement
    <2>2. /\ Cardinality(AboutToPush(m)') <= Cardinality(AboutToPush(m) \cup {o})
          /\ IsFiniteSet(AboutToPush(m)')
      BY <1>1, <1>3, <2>1, FS_Subset
    <2>3. Cardinality(AboutToPush(m)') \in Nat
      BY <2>2, FS_CardinalityType
    <2>4. QED
      BY <1>2, <1>3, <2>1, <2>2, <2>3 DEF Count
  <1>4. CASE m # n
    <2>1. /\ Cardinality(AboutToPush(m)') <= Cardinality(AboutToPush(m))
          /\ IsFiniteSet(AboutToPush(m)')
      BY <1>1, <1>2, <1>4, FS_Subset
    <2>2. Cardinality(AboutToPush(m)') \in Nat
      BY <2>1, FS_CardinalityType
    <2>3. QED
      BY <1>2, <1>4, <2>1, <2>2 DEF Count
  <1>5. QED
    BY <1>3, <1>4

LEMMA Through ==
  ASSUME TypeOK, NEW o \in Operators, NEW m \in Apps, pc[o] = "push",
         \/ pc' = [pc EXCEPT ![o] = "mark"] /\ on' = on
         \/ Finish(o)
  PROVE  Count(m)' \in Nat /\ Count(m)' = Count(m) - IF m = on[o] THEN 1 ELSE 0
  <1>1. AboutToPush(m)' = AboutToPush(m) \ (IF m = on[o] THEN {o} ELSE {})
    BY DEF AboutToPush, TypeOK, Finish
  <1>2. IsFiniteSet(AboutToPush(m)) /\ Count(m) \in Nat
    BY CountIsNat
  <1>3. CASE m = on[o]
    <2>1. o \in AboutToPush(m)
      BY <1>3 DEF AboutToPush
    <2>2. /\ IsFiniteSet(AboutToPush(m) \ {o})
          /\ Cardinality(AboutToPush(m) \ {o}) = Cardinality(AboutToPush(m)) - 1
      BY <1>2, <2>1, FS_RemoveElement
    <2>3. Cardinality(AboutToPush(m) \ {o}) \in Nat
      BY <2>2, FS_CardinalityType
    <2>4. QED
      BY <1>1, <1>3, <2>2, <2>3 DEF Count
  <1>4. CASE m # on[o]
    BY <1>1, <1>2, <1>4 DEF Count
  <1>5. QED
    BY <1>3, <1>4

\* What a step that begins or ends no push of a request may do to the two sides.
LEMMA Frame ==
  ASSUME TypeOK, TypeOK', Budget,
         \A n \in Apps : AboutToPush(n)' = AboutToPush(n),
         \A n \in Apps :
           pushes'[n] + Owed(n)' + asked[n] + faults <= pushes[n] + Owed(n) + asked'[n] + faults'
  PROVE  Budget'
  <1> SUFFICES ASSUME NEW n \in Apps
               PROVE  pushes'[n] + Count(n)' + Owed(n)' <= asked'[n] + faults'
    BY DEF Budget
  <1>1. Count(n)' = Count(n) /\ Count(n) \in Nat
    BY CountIsNat DEF Count
  <1>2. Owed(n) \in Nat /\ Owed(n)' \in Nat
    BY DEF Owed
  <1>3. QED
    BY <1>1, <1>2 DEF Budget, TypeOK, Notices

LEMMA UnwrittenStep == TypeOK /\ Unwritten /\ [Next]_vars => Unwritten'
  <1> SUFFICES ASSUME TypeOK, Unwritten, [Next]_vars PROVE Unwritten'
    OBVIOUS
  <1>1. CASE StartTick
    BY <1>1 DEF StartTick, TypeOK, Unwritten, Notices
  <1>2. CASE NoticeList
    BY <1>2 DEF NoticeList, TypeOK, Unwritten, Notices
  <1>3. CASE KnownKeys
    BY <1>3 DEF KnownKeys, Fresh, EmptyTable, TypeOK, Unwritten, Notices
  <1>4. ASSUME NEW p \in Posts, Insert(p)
      PROVE  Unwritten'
    BY <1>4 DEF Insert, Stored, Stopped, News, After, Fault, TypeOK, Unwritten, Notices
  <1>5. CASE PushPost
    BY <1>5
       DEF PushPost, Answered, Unanswered, Delivered, Fault, Tried, After, TypeOK, Unwritten,
           Notices
  <1>6. CASE MarkSent
    BY <1>6 DEF MarkSent, Mark, Fault, After, TypeOK, Unwritten, Notices
  <1>7. CASE DueScheduled
    BY <1>7 DEF DueScheduled, Due, EndCollect, TypeOK, Unwritten, Notices
  <1>8. ASSUME NEW n \in Apps, PushDue(n)
      PROVE  Unwritten'
    BY <1>8
       DEF PushDue, Answered, Unanswered, Delivered, Fault, Tried, After, TypeOK, Unwritten,
           Notices
  <1>9. ASSUME NEW o \in Operators, NEW n \in Apps, Create(o, n)
      PROVE  Unwritten'
    BY <1>9 DEF Create, TypeOK, Unwritten, Notices
  <1>10. ASSUME NEW o \in Operators, NEW n \in Apps, Update(o, n)
      PROVE  Unwritten'
    BY <1>10 DEF Update, TypeOK, Unwritten, Notices
  <1>11. ASSUME NEW o \in Operators, PushNow(o)
      PROVE  Unwritten'
    BY <1>11
       DEF PushNow, Answered, Unanswered, Delivered, Fault, Finish, TypeOK, Unwritten, Notices
  <1>12. ASSUME NEW o \in Operators, MarkNow(o)
      PROVE  Unwritten'
    BY <1>12 DEF MarkNow, Mark, Fault, Finish, TypeOK, Unwritten, Notices
  <1>13. ASSUME NEW n \in Apps, Remove(n)
      PROVE  Unwritten'
    BY <1>13 DEF Remove, TypeOK, Unwritten, Notices
  <1>14. ASSUME NEW n \in Apps, CancelSchedule(n)
      PROVE  Unwritten'
    BY <1>14 DEF CancelSchedule, TypeOK, Unwritten, Notices
  <1>15. ASSUME NEW p \in Posts, Publish(p)
      PROVE  Unwritten'
    BY <1>15 DEF Publish, TypeOK, Unwritten, Notices
  <1>16. CASE Tick
    BY <1>16 DEF Tick, TypeOK, Unwritten, Notices
  <1>17. CASE Crash
    BY <1>17 DEF Crash, Fault, EndCollect, EmptyTable, TypeOK, Unwritten, Notices
  <1>18. CASE Restart
    BY <1>18 DEF Restart, TypeOK, Unwritten, Notices
  <1>19. CASE UNCHANGED vars
    BY <1>19 DEF vars, TypeOK, Unwritten, Notices
  <1>20. QED
    BY <1>1, <1>2, <1>3, <1>4, <1>5, <1>6, <1>7, <1>8, <1>9, <1>10, <1>11, <1>12, <1>13, <1>14, <1>15, <1>16, <1>17, <1>18, <1>19
       DEF Next, Poller, Operator

LEMMA BudgetStep ==
  TypeOK /\ Loops /\ Unwritten /\ Budget /\ [Next]_vars => Budget'
  <1> SUFFICES ASSUME TypeOK, Loops, Unwritten, Budget, [Next]_vars PROVE Budget'
    OBVIOUS
  <1>0. TypeOK'
    BY TypeStep
  <1>1. CASE StartTick
    <2>1. \A n \in Apps : AboutToPush(n)' = AboutToPush(n)
      BY <1>1 DEF StartTick, AboutToPush
    <2>2. \A n \in Apps :
            pushes'[n] + Owed(n)' + asked[n] + faults <= pushes[n] + Owed(n) + asked'[n] + faults'
      BY <1>1 DEF StartTick, Owed, Scheduled, TypeOK, Loops, Notices
    <2>3. QED
      BY <1>0, <2>1, <2>2, Frame
  <1>2. CASE NoticeList
    <2>1. \A n \in Apps : AboutToPush(n)' = AboutToPush(n)
      BY <1>2 DEF NoticeList, AboutToPush
    <2>2. \A n \in Apps :
            pushes'[n] + Owed(n)' + asked[n] + faults <= pushes[n] + Owed(n) + asked'[n] + faults'
      BY <1>2 DEF NoticeList, Owed, Scheduled, TypeOK, Loops, Notices
    <2>3. QED
      BY <1>0, <2>1, <2>2, Frame
  <1>3. CASE KnownKeys
    <2>1. \A n \in Apps : AboutToPush(n)' = AboutToPush(n)
      BY <1>3 DEF KnownKeys, AboutToPush
    <2>2. todo' \subseteq Posts /\ poller' # "mark" /\ poller # "mark"
      BY <1>3 DEF KnownKeys, Fresh, Loops
    <2>3. UNCHANGED <<row, sent, scheduledAt, pushes, asked, faults>>
      BY <1>3 DEF KnownKeys
    <2>4. \A n \in Apps : Owed(n)' \in Nat /\ Owed(n) \in Nat /\ Owed(n)' <= Owed(n)
      BY <2>2, <2>3 DEF Owed, Scheduled
    <2>5. \A n \in Apps :
            pushes'[n] + Owed(n)' + asked[n] + faults <= pushes[n] + Owed(n) + asked'[n] + faults'
      BY <2>3, <2>4 DEF TypeOK, Notices
    <2>6. QED
      BY <1>0, <2>1, <2>5, Frame
  <1>4. ASSUME NEW p \in Posts, Insert(p)
      PROVE  Budget'
    <2>1. \A n \in Apps : AboutToPush(n)' = AboutToPush(n)
      BY <1>4 DEF Insert, AboutToPush
    <2>2. \A n \in Apps :
            pushes'[n] + Owed(n)' + asked[n] + faults <= pushes[n] + Owed(n) + asked'[n] + faults'
      BY <1>4
         DEF Insert, Stored, Stopped, News, After, Fault, Owed, Scheduled, TypeOK, Loops,
             Notices
    <2>3. QED
      BY <1>0, <2>1, <2>2, Frame
  <1>5. CASE PushPost
    <2>1. \A n \in Apps : AboutToPush(n)' = AboutToPush(n)
      BY <1>5 DEF PushPost, AboutToPush
    <2>2. \A n \in Apps :
            pushes'[n] + Owed(n)' + asked[n] + faults <= pushes[n] + Owed(n) + asked'[n] + faults'
      BY <1>5
         DEF PushPost, Answered, Unanswered, Delivered, Fault, Tried, After, Owed, Scheduled,
             TypeOK, Loops, Notices
    <2>3. QED
      BY <1>0, <2>1, <2>2, Frame
  <1>6. CASE MarkSent
    <2>1. \A n \in Apps : AboutToPush(n)' = AboutToPush(n)
      BY <1>6 DEF MarkSent, AboutToPush
    <2>2. \A n \in Apps :
            pushes'[n] + Owed(n)' + asked[n] + faults <= pushes[n] + Owed(n) + asked'[n] + faults'
      BY <1>6 DEF MarkSent, Mark, Fault, After, Owed, Scheduled, TypeOK, Loops, Notices
    <2>3. QED
      BY <1>0, <2>1, <2>2, Frame
  <1>7. CASE DueScheduled
    <2>1. \A n \in Apps : AboutToPush(n)' = AboutToPush(n)
      BY <1>7 DEF DueScheduled, AboutToPush
    <2>2. \A n \in Apps :
            pushes'[n] + Owed(n)' + asked[n] + faults <= pushes[n] + Owed(n) + asked'[n] + faults'
      BY <1>7 DEF DueScheduled, Due, EndCollect, Owed, Scheduled, TypeOK, Loops, Notices
    <2>3. QED
      BY <1>0, <2>1, <2>2, Frame
  <1>8. ASSUME NEW n \in Apps, PushDue(n)
      PROVE  Budget'
    <2>1. \A m \in Apps : AboutToPush(m)' = AboutToPush(m)
      BY <1>8 DEF PushDue, AboutToPush
    <2>2. \A m \in Apps :
            pushes'[m] + Owed(m)' + asked[m] + faults <= pushes[m] + Owed(m) + asked'[m] + faults'
      BY <1>8
         DEF PushDue, Answered, Unanswered, Delivered, Fault, Tried, After, Owed, Scheduled,
             TypeOK, Loops, Notices
    <2>3. QED
      BY <1>0, <2>1, <2>2, Frame
  <1>9. ASSUME NEW o \in Operators, NEW n \in Apps, Create(o, n)
      PROVE  Budget'
    <2>1. CASE UNCHANGED opVars
      <3>1. \A m \in Apps : AboutToPush(m)' = AboutToPush(m)
        BY <2>1 DEF AboutToPush
      <3>2. \A m \in Apps :
              pushes'[m] + Owed(m)' + asked[m] + faults <= pushes[m] + Owed(m) + asked'[m] + faults'
        BY <1>9, <2>1 DEF Create, Owed, Scheduled, TypeOK, Unwritten, Notices
      <3>3. QED
        BY <1>0, <3>1, <3>2, Frame
    <2>2. CASE pc' = [pc EXCEPT ![o] = "push"] /\ on' = [on EXCEPT ![o] = n]
               /\ asked' = [asked EXCEPT ![n] = @ + 1] /\ UNCHANGED scheduledAt
      <3> SUFFICES ASSUME NEW m \in Apps
                   PROVE  pushes'[m] + Count(m)' + Owed(m)' <= asked'[m] + faults'
        BY DEF Budget
      <3>1. Count(m)' \in Nat /\ Count(m)' <= Count(m) + IF m = n THEN 1 ELSE 0
        BY <1>9, <2>2, Begin DEF Create
      <3>2. Owed(m)' <= Owed(m) /\ Owed(m) \in Nat /\ Owed(m)' \in Nat
        BY <1>9, <2>2 DEF Create, Owed, Scheduled, TypeOK, Unwritten, Notices
      <3>3. UNCHANGED <<pushes, faults>>
        BY <1>9 DEF Create
      <3>4. QED
        BY <2>2, <3>1, <3>2, <3>3, CountIsNat DEF Budget, TypeOK, Notices
    <2>3. QED
      BY <1>9, <2>1, <2>2 DEF Create
  <1>10. ASSUME NEW o \in Operators, NEW n \in Apps, Update(o, n)
      PROVE  Budget'
    <2> SUFFICES ASSUME NEW m \in Apps
                 PROVE  pushes'[m] + Count(m)' + Owed(m)' <= asked'[m] + faults'
      BY DEF Budget
    <2>1. Count(m)' \in Nat /\ Count(m)' <= Count(m) + IF m = n THEN 1 ELSE 0
      BY <1>10, Begin DEF Update
    <2>2. Owed(m)' = Owed(m) /\ Owed(m) \in Nat
      BY <1>10 DEF Update, Owed, Scheduled
    <2>3. QED
      BY <1>10, <2>1, <2>2, CountIsNat DEF Update, Budget, TypeOK, Notices
  <1>11. ASSUME NEW o \in Operators, PushNow(o)
      PROVE  Budget'
    <2> SUFFICES ASSUME NEW m \in Apps
                 PROVE  pushes'[m] + Count(m)' + Owed(m)' <= asked'[m] + faults'
      BY DEF Budget
    <2>1. Count(m)' \in Nat /\ Count(m)' = Count(m) - IF m = on[o] THEN 1 ELSE 0
      BY <1>11, Through DEF PushNow
    <2>2. Owed(m)' = Owed(m) /\ Owed(m) \in Nat
      BY <1>11 DEF PushNow, Owed, Scheduled
    <2>3. UNCHANGED asked /\ faults' \in Nat /\ faults <= faults'
      BY <1>11 DEF PushNow, Answered, Unanswered, Fault, TypeOK
    <2>4. on[o] \in Apps
      BY <1>11 DEF PushNow, TypeOK
    <2>5. pushes'[m] \in Nat /\ pushes'[m] <= pushes[m] + IF m = on[o] THEN 1 ELSE 0
      BY <1>11, <2>4 DEF PushNow, Answered, Unanswered, Delivered, TypeOK, Notices
    <2>6. QED
      BY <2>1, <2>2, <2>3, <2>5, CountIsNat DEF Budget, TypeOK, Notices
  <1>12. ASSUME NEW o \in Operators, MarkNow(o)
      PROVE  Budget'
    <2>1. \A n \in Apps : AboutToPush(n)' = AboutToPush(n)
      BY <1>12 DEF MarkNow, Finish, AboutToPush, TypeOK
    <2>2. on[o] \in Apps
      BY <1>12 DEF MarkNow, TypeOK
    <2>3. \A n \in Apps :
            pushes'[n] + Owed(n)' + asked[n] + faults <= pushes[n] + Owed(n) + asked'[n] + faults'
      BY <1>12, <2>2 DEF MarkNow, Mark, Fault, Owed, Scheduled, TypeOK, Notices
    <2>4. QED
      BY <1>0, <2>1, <2>3, Frame
  <1>13. ASSUME NEW n \in Apps, Remove(n)
      PROVE  Budget'
    <2>1. \A m \in Apps : AboutToPush(m)' = AboutToPush(m)
      BY <1>13 DEF Remove, AboutToPush
    <2>2. \A m \in Apps :
            pushes'[m] + Owed(m)' + asked[m] + faults <= pushes[m] + Owed(m) + asked'[m] + faults'
      BY <1>13 DEF Remove, Owed, Scheduled, TypeOK, Loops, Notices
    <2>3. QED
      BY <1>0, <2>1, <2>2, Frame
  <1>14. ASSUME NEW n \in Apps, CancelSchedule(n)
      PROVE  Budget'
    <2>1. \A m \in Apps : AboutToPush(m)' = AboutToPush(m)
      BY <1>14 DEF CancelSchedule, AboutToPush
    <2>2. \A m \in Apps :
            pushes'[m] + Owed(m)' + asked[m] + faults <= pushes[m] + Owed(m) + asked'[m] + faults'
      BY <1>14 DEF CancelSchedule, Owed, Scheduled, TypeOK, Loops, Notices
    <2>3. QED
      BY <1>0, <2>1, <2>2, Frame
  <1>15. ASSUME NEW p \in Posts, Publish(p)
      PROVE  Budget'
    <2>1. \A n \in Apps : AboutToPush(n)' = AboutToPush(n)
      BY <1>15 DEF Publish, AboutToPush
    <2>2. \A n \in Apps :
            pushes'[n] + Owed(n)' + asked[n] + faults <= pushes[n] + Owed(n) + asked'[n] + faults'
      BY <1>15 DEF Publish, Owed, Scheduled, TypeOK, Loops, Notices
    <2>3. QED
      BY <1>0, <2>1, <2>2, Frame
  <1>16. CASE Tick
    <2>1. \A n \in Apps : AboutToPush(n)' = AboutToPush(n)
      BY <1>16 DEF Tick, AboutToPush
    <2>2. \A n \in Apps :
            pushes'[n] + Owed(n)' + asked[n] + faults <= pushes[n] + Owed(n) + asked'[n] + faults'
      BY <1>16 DEF Tick, Owed, Scheduled, TypeOK, Loops, Notices
    <2>3. QED
      BY <1>0, <2>1, <2>2, Frame
  <1>17. CASE Crash
    <2> SUFFICES ASSUME NEW m \in Apps
                 PROVE  pushes'[m] + Count(m)' + Owed(m)' <= asked'[m] + faults'
      BY DEF Budget
    <2>1. AboutToPush(m)' = {}
      BY <1>17 DEF Crash, AboutToPush
    <2>2. Count(m)' = 0
      BY <2>1, FS_EmptySet DEF Count
    <2>3. UNCHANGED <<pushes, asked>> /\ faults' = faults + 1
      BY <1>17 DEF Crash, Fault
    <2>4. Owed(m) \in Nat /\ Owed(m)' \in {0, 1}
      BY DEF Owed
    <2>5. QED
      BY <2>2, <2>3, <2>4, CountIsNat DEF Budget, TypeOK, Notices
  <1>18. CASE Restart
    <2>1. \A n \in Apps : AboutToPush(n)' = AboutToPush(n)
      BY <1>18 DEF Restart, AboutToPush
    <2>2. \A n \in Apps :
            pushes'[n] + Owed(n)' + asked[n] + faults <= pushes[n] + Owed(n) + asked'[n] + faults'
      BY <1>18 DEF Restart, Owed, Scheduled, TypeOK, Loops, Notices
    <2>3. QED
      BY <1>0, <2>1, <2>2, Frame
  <1>19. CASE UNCHANGED vars
    BY <1>19 DEF vars, Budget, Count, AboutToPush, Owed, Scheduled
  <1>20. QED
    BY <1>1, <1>2, <1>3, <1>4, <1>5, <1>6, <1>7, <1>8, <1>9, <1>10, <1>11, <1>12, <1>13, <1>14, <1>15, <1>16, <1>17, <1>18, <1>19
       DEF Next, Poller, Operator

-----------------------------------------------------------------------------
(* The theorems. *)

DeliveryInv ==
  TypeOK /\ Loops /\ StoredFirst /\ Seeded /\ Punctual /\ NoBacklog /\ Unwritten /\ Budget

LEMMA DeliveryInit == Init => DeliveryInv
  <1> SUFFICES ASSUME Init PROVE DeliveryInv
    OBVIOUS
  <1>1. TypeOK /\ Loops
    BY DEF Init, TypeOK, Loops, Notices
  <1>2. StoredFirst /\ Seeded /\ Punctual /\ NoBacklog /\ Unwritten
    BY DEF Init, StoredFirst, Seeded, EmptyTable, Punctual, NoBacklog, Unwritten, Notices
  <1>3. Budget
    <2> SUFFICES ASSUME NEW n \in Apps PROVE pushes[n] + Count(n) + Owed(n) <= asked[n] + faults
      BY DEF Budget
    <2>1. AboutToPush(n) = {}
      BY DEF Init, AboutToPush
    <2>2. Count(n) = 0
      BY <2>1, FS_EmptySet DEF Count
    <2>3. Owed(n) = 0
      BY DEF Init, Owed, Scheduled, Notices
    <2>4. QED
      BY <2>2, <2>3 DEF Init, Notices
  <1>4. QED
    BY <1>1, <1>2, <1>3 DEF DeliveryInv

\* The inductive invariant of the poller and the operator.
THEOREM DeliveryInvariant == Spec => []DeliveryInv
  <1>1. DeliveryInv /\ [Next]_vars => DeliveryInv'
    BY TypeStep, StoredFirstStep, SeededStep, PunctualStep, NoBacklogStep, UnwrittenStep, BudgetStep
       DEF DeliveryInv
  <1>2. QED
    BY <1>1, DeliveryInit, PTL DEF Spec

\* Every variable keeps its type, and the poller never takes a post for a notice of the operator.
THEOREM TypeCorrect == Spec => []TypeOK
  <1>1. DeliveryInv => TypeOK
    BY DEF DeliveryInv
  <1>2. QED
    BY <1>1, DeliveryInvariant, PTL

\* collect() pushes a post at most once: it is stored before it is pushed, and what is stored is
\* not fresh in any later round, whatever failed in between.
THEOREM PostsAnnouncedOnce == Spec => []AnnouncedOnce
  <1>1. DeliveryInv => AnnouncedOnce
    BY DEF DeliveryInv, StoredFirst, AnnouncedOnce
  <1>2. QED
    BY <1>1, DeliveryInvariant, PTL

\* The first round over an empty table stores the old posts and pushes none of them, unless it was
\* stopped in the middle.
THEOREM SeedingIsSilent == Spec => []FirstRoundSilent
  <1>1. DeliveryInv => FirstRoundSilent
    BY DEF DeliveryInv, Seeded, FirstRoundSilent
  <1>2. QED
    BY <1>1, DeliveryInvariant, PTL

\* collect() announces nothing older than STALE_MS, but for the time a round takes.
THEOREM NothingOldIsAnnounced == Spec => []NoBacklog
  <1>1. DeliveryInv => NoBacklog
    BY DEF DeliveryInv
  <1>2. QED
    BY <1>1, DeliveryInvariant, PTL

\* sendScheduled, create and update together push a notice no more often than it was asked for,
\* but for one more per fault.
THEOREM PushesAreAccounted == Spec => []PushesAccounted
  <1>1. DeliveryInv => PushesAccounted
    <2> SUFFICES ASSUME DeliveryInv, NEW n \in Apps PROVE pushes[n] <= asked[n] + faults
      BY DEF PushesAccounted
    <2>1. Count(n) \in Nat /\ Owed(n) \in Nat
      BY CountIsNat DEF Owed
    <2>2. QED
      BY <2>1 DEF DeliveryInv, Budget, TypeOK, Notices
  <1>2. QED
    BY <1>1, DeliveryInvariant, PTL

=============================================================================
