-------------------------- MODULE StreamRunProofs ---------------------------
(***************************************************************************)
(* Proofs about StreamRun for any number of workers, tasks and pages.      *)
(*                                                                         *)
(* The argument: a task belongs to one worker from the moment it is taken  *)
(* until its last line (Owners), so when no worker is left each taken task *)
(* has its line, was left for a new login, or was lost by an abort or a    *)
(* worker that threw, and the last two write no end line (Accounts).  The  *)
(* end line is written when no worker is left (Phases), and a worker       *)
(* leaves only when there is a reason to (Reasons).                        *)
(***************************************************************************)
EXTENDS StreamRun, TLAPS

\* A task is in work between being taken and its done or fail line.
Working(w) == pc[w] \in {"token", "fetch", "pageOut"}

Off == \A w \in Workers : pc[w] = "off"

Phases ==
  /\ phase \in {"token", "run", "endline", "closing"} => slot
  /\ phase \in {"idle", "token"} => Off /\ stop = "null" /\ ends = 0
  /\ phase = "run" => ends = 0
  /\ phase \in {"endline", "closing"} => ends = 1 /\ Off
  /\ ends > 0 => ends = 1 /\ Off
  /\ phase = "over" => Off \/ aborted
  /\ reason # "null" => ends > 0

Reasons ==
  /\ \A w \in Workers : phase = "run" /\ pc[w] = "off" => Stopped \/ next = Tasks
  /\ stop \in {"deadline", "budget"} => next < Tasks
  /\ ReasonIsTrue

Owners ==
  /\ \A w \in Workers : Working(w) =>
       task[w] \in 1..next /\ finals[task[w]] = 0 /\ task[w] \notin gaveUp
  /\ \A v, w \in Workers : Working(v) /\ Working(w) /\ task[v] = task[w] => v = w

Accounts ==
  /\ \A t \in TaskIds : t > next => finals[t] = 0 /\ t \notin gaveUp
  /\ \A t \in TaskIds : finals[t] \in {0, 1} /\ (t \in gaveUp => finals[t] = 0)
  /\ gaveUp # {} => stop = "relogin"
  /\ \A t \in TaskIds : t <= next =>
       \/ finals[t] = 1 \/ t \in gaveUp
       \/ \E w \in Workers : Working(w) /\ task[w] = t
       \/ aborted
       \/ \E w \in Workers : pc[w] = "threw"
  /\ EndAccountsForTasks

RunInv == TypeOK /\ Phases /\ Reasons /\ Owners /\ Accounts

-----------------------------------------------------------------------------
(* Types. *)

LEMMA TypeInit == Init => TypeOK
<1> SUFFICES ASSUME Init PROVE TypeOK
  OBVIOUS
<1>1. aborted \in BOOLEAN /\ slot \in BOOLEAN /\ late \in BOOLEAN /\ blocked \in [Workers -> BOOLEAN]
  BY DEF Init
<1> QED
  BY <1>1, SizeAssumption DEF Init, TypeOK

LEMMA TypeStep ==
  ASSUME TypeOK, Owners, [Next]_vars
  PROVE  TypeOK'
<1> USE SizeAssumption
<1> USE DEF mainVars, stateVars, workerVars, lineVars
<1>0. \A w \in Workers : Working(w) => task[w] \in TaskIds
  BY DEF Owners, TypeOK, TaskIds
<1>1. ASSUME Request \/ FirstToken \/ OtherRun \/ DeadlinePasses
      PROVE  TypeOK'
  <2>1. CASE Request
    BY <2>1 DEF Request, TypeOK
  <2>2. CASE FirstToken
    BY <2>2 DEF FirstToken, TypeOK
  <2>3. CASE OtherRun
    BY <2>3 DEF OtherRun, Active, TypeOK
  <2>4. CASE DeadlinePasses
    BY <2>4 DEF DeadlinePasses, TypeOK
  <2> QED
    BY <1>1, <2>1, <2>2, <2>3, <2>4
<1>2. ASSUME Disconnect
      PROVE  TypeOK'
  <2>1. aborted' \in BOOLEAN /\ conn' \in {"open", "closed"}
    BY <1>2 DEF Disconnect, Listening, TypeOK
  <2> QED
    BY <1>2, <2>1 DEF Disconnect, TypeOK
<1>3. ASSUME NEW w \in Workers, TakeTask(w)
      PROVE  TypeOK'
  <2>1. next' \in 0..Tasks /\ task' \in [Workers -> 0..Tasks]
    BY <1>3 DEF TakeTask, TasksLeft, TypeOK
  <2>2. /\ pc' \in [Workers -> {"off", "loop", "token", "fetch", "pageOut", "lastOut", "reject", "threw"}]
        /\ stop' \in {"null", "deadline", "budget", "relogin"}
    BY <1>3 DEF TakeTask, Go, TypeOK
  <2> QED
    BY <1>3, <2>1, <2>2 DEF TakeTask, TypeOK
<1>4. ASSUME NEW w \in Workers, GetToken(w)
      PROVE  TypeOK'
  <2>1. gaveUp' \in SUBSET TaskIds
    BY <1>0, <1>4 DEF GetToken, TypeOK, Working
  <2>2. page' \in [Workers -> 0..MaxPages]
    BY <1>4 DEF GetToken, TypeOK
  <2> QED
    BY <1>4, <2>1, <2>2 DEF GetToken, Go, TypeOK
<1>5. ASSUME NEW w \in Workers, FetchPage(w)
      PROVE  TypeOK'
  <2>1. blocked' \in [Workers -> BOOLEAN]
    BY <1>5 DEF FetchPage, Write, WriteFinal, TypeOK
  <2>2. bytes' \in Nat /\ finals' \in [TaskIds -> Nat]
    BY <1>5 DEF FetchPage, WriteFinal, TypeOK
  <2>3. gaveUp' \in SUBSET TaskIds
    BY <1>0, <1>5 DEF FetchPage, TypeOK, Working
  <2> QED
    BY <1>5, <2>1, <2>2, <2>3 DEF FetchPage, Write, WriteFinal, Go, TypeOK
<1>6. ASSUME NEW w \in Workers, PageWritten(w)
      PROVE  TypeOK'
  <2>1. blocked' \in [Workers -> BOOLEAN]
    BY <1>6 DEF PageWritten, Write, WriteFinal, TypeOK
  <2>2. page' \in [Workers -> 0..MaxPages] /\ finals' \in [TaskIds -> Nat]
    BY <1>6 DEF PageWritten, WriteFinal, TypeOK
  <2> QED
    BY <1>6, <2>1, <2>2 DEF PageWritten, Write, WriteFinal, Go, TypeOK
<1>7. ASSUME NEW w \in Workers, FinalWritten(w) \/ TokenRejected(w)
      PROVE  TypeOK'
  <2>1. CASE FinalWritten(w)
    <3>1. blocked' \in [Workers -> BOOLEAN]
      BY <2>1 DEF FinalWritten, TypeOK
    <3> QED
      BY <2>1, <3>1 DEF FinalWritten, Go, TypeOK
  <2>2. CASE TokenRejected(w)
    BY <2>2 DEF TokenRejected, Go, TypeOK
  <2> QED
    BY <1>7, <2>1, <2>2
<1>8. ASSUME AllDone
      PROVE  TypeOK'
  <2>1. slot' \in BOOLEAN
    BY <1>8 DEF AllDone, Over, TypeOK
  <2>2. ends' \in Nat /\ phase' \in {"endline", "over"}
    BY <1>8 DEF AllDone, Over, TypeOK
  <2>3. reason' \in {"null", "done", "deadline", "budget", "relogin"}
    BY <1>8 DEF AllDone, TypeOK
  <2> QED
    BY <1>8, <2>1, <2>2, <2>3 DEF AllDone, TypeOK
<1>9. ASSUME WorkerThrew \/ EndLineWritten \/ ResponseFinished
      PROVE  TypeOK'
  <2>1. slot' \in BOOLEAN /\ aborted' \in BOOLEAN
    BY <1>9 DEF WorkerThrew, EndLineWritten, ResponseFinished, Over, Abort, TypeOK
  <2>2. phase' \in {"closing", "over"} /\ response' \in {"none", "headers", "ended"}
    BY <1>9 DEF WorkerThrew, EndLineWritten, ResponseFinished, Over, TypeOK
  <2> QED
    BY <1>9, <2>1, <2>2 DEF WorkerThrew, EndLineWritten, ResponseFinished, TypeOK
<1>10. CASE UNCHANGED vars
  BY <1>10 DEF vars, TypeOK
<1> QED
  BY <1>1, <1>2, <1>3, <1>4, <1>5, <1>6, <1>7, <1>8, <1>9, <1>10 DEF Next, Main, Worker

-----------------------------------------------------------------------------
(* What a step of a worker leaves alone. *)

\* A worker that moves is in a run that has written no end line, or in one that was aborted.
LEMMA WorkerFrame ==
  ASSUME TypeOK, Phases, NEW w \in Workers, Worker(w)
  PROVE  /\ pc[w] # "off"
         /\ phase = "run" \/ (phase = "over" /\ aborted)
         /\ ends = 0 /\ reason = "null"
         /\ UNCHANGED <<mainVars, aborted, late, ends, reason>>
         /\ \A v \in Workers : v # w => pc'[v] = pc[v] /\ task'[v] = task[v]
<1> USE DEF mainVars, stateVars, workerVars, lineVars
<1>1. pc[w] # "off"
  BY DEF Worker, TakeTask, GetToken, FetchPage, PageWritten, FinalWritten, TokenRejected
<1>2. ends = 0 /\ reason = "null" /\ (phase = "run" \/ (phase = "over" /\ aborted))
  BY <1>1 DEF Phases, Off, TypeOK
<1>3. UNCHANGED <<mainVars, aborted, late, ends, reason>>
  BY DEF Worker, TakeTask, GetToken, FetchPage, PageWritten, FinalWritten, TokenRejected
<1>4. \A v \in Workers : v # w => pc'[v] = pc[v] /\ task'[v] = task[v]
  BY DEF Worker, TakeTask, GetToken, FetchPage, PageWritten, FinalWritten, TokenRejected,
         Write, WriteFinal, Go, TypeOK
<1> QED
  BY <1>1, <1>2, <1>3, <1>4

\* A step of the request or of its surroundings leaves every task as it is.
LEMMA MainFrame ==
  ASSUME TypeOK, Phases,
         Request \/ Main \/ Disconnect \/ DeadlinePasses \/ OtherRun \/ UNCHANGED vars
  PROVE  /\ UNCHANGED <<stateVars, task, finals, gaveUp>>
         /\ \A w \in Workers : (Working(w)' <=> Working(w)) /\ (pc[w] = "threw" => pc'[w] = "threw")
         /\ aborted => aborted'
         /\ UNCHANGED <<ends, reason>> \/ AllDone
<1> USE DEF mainVars, stateVars, workerVars, lineVars
<1>1. CASE FirstToken
  BY <1>1 DEF FirstToken, Working, Phases, Off, TypeOK
<1>2. CASE Disconnect
  BY <1>2 DEF Disconnect, Working
<1>3. CASE WorkerThrew
  BY <1>3 DEF WorkerThrew, Abort, Working
<1>4. CASE Request \/ AllDone \/ EndLineWritten \/ ResponseFinished
  BY <1>4 DEF Request, AllDone, EndLineWritten, ResponseFinished, Working
<1>5. CASE DeadlinePasses \/ OtherRun \/ UNCHANGED vars
  BY <1>5 DEF DeadlinePasses, OtherRun, Working, vars
<1> QED
  BY <1>1, <1>2, <1>3, <1>4, <1>5 DEF Main

LEMMA PhasesInit == Init => Phases
BY DEF Init, Phases, Off

LEMMA PhasesStep ==
  ASSUME TypeOK, Phases, [Next]_vars
  PROVE  Phases'
<1> USE DEF mainVars, stateVars, workerVars, lineVars
<1>1. ASSUME NEW w \in Workers, Worker(w)
      PROVE  Phases'
  BY <1>1, WorkerFrame DEF Phases, Off
<1>2. CASE Request
  BY <1>2 DEF Request, Phases, Off
<1>3. CASE FirstToken
  <2>1. phase' \in {"token", "run", "endline", "closing"} => slot'
    BY <1>3 DEF FirstToken, Phases
  <2>2. phase' = "run" \/ (phase' = "over" /\ Off')
    BY <1>3 DEF FirstToken, Phases, Off
  <2>3. ends' = 0 /\ reason' = reason /\ ~(ends > 0)
    BY <1>3 DEF FirstToken, Phases
  <2> QED
    BY <2>1, <2>2, <2>3 DEF Phases
<1>4. CASE AllDone
  <2>1. Off /\ Off' /\ ends = 0
    BY <1>4 DEF AllDone, WorkersDone, Off, Phases
  <2>2. CASE aborted
    BY <1>4, <2>1, <2>2 DEF AllDone, Over, Phases
  <2>3. CASE ~aborted
    <3>1. phase' = "endline" /\ ends' = 1
      BY <1>4, <2>1, <2>3 DEF AllDone
    <3>2. slot'
      BY <1>4, <2>3 DEF AllDone, Phases
    <3> QED
      BY <2>1, <3>1, <3>2 DEF Phases
  <2> QED
    BY <2>2, <2>3
<1>5. CASE WorkerThrew
  BY <1>5 DEF WorkerThrew, Over, Abort, Phases, Off
<1>6. CASE EndLineWritten \/ ResponseFinished
  BY <1>6 DEF EndLineWritten, ResponseFinished, Over, Phases, Off
<1>7. CASE Disconnect
  BY <1>7 DEF Disconnect, Phases, Off
<1>8. CASE DeadlinePasses \/ OtherRun \/ UNCHANGED vars
  BY <1>8 DEF DeadlinePasses, OtherRun, vars, Phases, Off
<1> QED
  BY <1>1, <1>2, <1>3, <1>4, <1>5, <1>6, <1>7, <1>8 DEF Next, Main

-----------------------------------------------------------------------------
(* Why a worker leaves, and why the run ends. *)

LEMMA ReasonsInit == Init => Reasons
BY DEF Init, Reasons, ReasonIsTrue

LEMMA ReasonsStep ==
  ASSUME TypeOK, Phases, Reasons, [Next]_vars
  PROVE  Reasons'
<1> USE DEF mainVars, stateVars, workerVars, lineVars
<1>0. next \in 0..Tasks /\ Tasks \in Nat \ {0}
  BY SizeAssumption DEF TypeOK
<1>1. ASSUME NEW w \in Workers, TakeTask(w)
      PROVE  Reasons'
  <2>1. reason' = "null" /\ aborted' = aborted /\ phase' = phase
    BY <1>1, WorkerFrame DEF Worker
  <2>2. CASE (Stopped \/ ~TasksLeft) /\ UNCHANGED <<next, stop>>
    <3>1. Stopped \/ next = Tasks
      BY <1>0, <2>2 DEF TasksLeft
    <3> QED
      BY <2>1, <2>2, <3>1 DEF Reasons, ReasonIsTrue, Stopped
  <2>3. CASE TasksLeft /\ stop' \in {"deadline", "budget"} /\ next' = next
    BY <2>1, <2>3 DEF Reasons, ReasonIsTrue, Stopped, TasksLeft
  <2>4. CASE ~Stopped /\ TasksLeft /\ stop' = stop /\ pc'[w] = "token"
    <3>1. \A v \in Workers : phase = "run" => pc[v] # "off"
      BY <1>0, <2>4 DEF Reasons, TasksLeft
    <3>2. \A v \in Workers : phase = "run" => pc'[v] # "off"
      BY <1>1, <2>4, <3>1, WorkerFrame DEF Worker
    <3> QED
      BY <2>1, <2>4, <3>2 DEF Reasons, ReasonIsTrue, Stopped
  <2> QED
    BY <1>1, <2>2, <2>3, <2>4 DEF TakeTask, Go, TypeOK
<1>2. ASSUME NEW w \in Workers,
             GetToken(w) \/ FetchPage(w) \/ PageWritten(w) \/ FinalWritten(w) \/ TokenRejected(w)
      PROVE  Reasons'
  <2>1. /\ reason' = "null" /\ aborted' = aborted /\ phase' = phase
        /\ \A v \in Workers : v # w => pc'[v] = pc[v]
    BY <1>2, WorkerFrame DEF Worker
  <2>2. next' = next /\ (stop' = stop \/ stop' = "relogin")
    BY <1>2 DEF GetToken, FetchPage, PageWritten, FinalWritten, TokenRejected
  <2>3. pc'[w] # "off" \/ stop' = "relogin"
    BY <1>2 DEF GetToken, FetchPage, PageWritten, FinalWritten, TokenRejected, Write, WriteFinal,
                Go, TypeOK
  <2> QED
    BY <2>1, <2>2, <2>3 DEF Reasons, ReasonIsTrue, Stopped
<1>3. CASE FirstToken
  BY <1>3 DEF FirstToken, Reasons, ReasonIsTrue, Stopped
<1>4. CASE AllDone
  <2>1. phase' # "run" /\ next' = next /\ stop' = stop
    BY <1>4 DEF AllDone, Over
  <2>2. CASE aborted
    BY <1>4, <2>1, <2>2 DEF AllDone, Reasons, ReasonIsTrue
  <2>3. CASE ~aborted
    <3>1. PICK w \in Workers : TRUE
      BY SizeAssumption
    <3>2. stop = "null" => next = Tasks
      BY <1>4, <2>3, <3>1 DEF AllDone, WorkersDone, Reasons, Stopped
    <3>3. reason' = IF stop = "null" THEN "done" ELSE stop
      BY <1>4, <2>3 DEF AllDone
    <3> QED
      BY <2>1, <3>2, <3>3 DEF Reasons, ReasonIsTrue, TypeOK
  <2> QED
    BY <2>2, <2>3
<1>5. CASE Disconnect
  BY <1>5 DEF Disconnect, Reasons, ReasonIsTrue, Stopped
<1>6. CASE Request
  BY <1>6 DEF Request, Reasons, ReasonIsTrue, Stopped
<1>7. CASE WorkerThrew \/ EndLineWritten \/ ResponseFinished
  BY <1>7 DEF WorkerThrew, EndLineWritten, ResponseFinished, Over, Reasons, ReasonIsTrue
<1>8. CASE DeadlinePasses \/ OtherRun \/ UNCHANGED vars
  BY <1>8 DEF DeadlinePasses, OtherRun, vars, Reasons, ReasonIsTrue, Stopped
<1> QED
  BY <1>1, <1>2, <1>3, <1>4, <1>5, <1>6, <1>7, <1>8 DEF Next, Main, Worker

-----------------------------------------------------------------------------
(* Who has a task, and what became of it. *)

\* The five things a step of worker w can do to the tasks.
Takes(w) ==
  /\ ~Working(w) /\ Working(w)' /\ next < Tasks
  /\ next' = next + 1 /\ task'[w] = next + 1 /\ UNCHANGED <<finals, gaveUp>>

Finishes(w) ==
  /\ Working(w) /\ ~Working(w)'
  /\ finals' = [finals EXCEPT ![task[w]] = @ + 1] /\ UNCHANGED <<next, gaveUp>>

GivesUp(w) ==
  /\ Working(w) /\ ~Working(w)' /\ stop' = "relogin"
  /\ gaveUp' = gaveUp \cup {task[w]} /\ UNCHANGED <<next, finals>>

Loses(w) ==
  /\ Working(w) /\ ~Working(w)' /\ (aborted \/ pc'[w] = "threw")
  /\ UNCHANGED <<next, finals, gaveUp>>

Carries(w) == (Working(w)' <=> Working(w)) /\ task'[w] = task[w] /\ UNCHANGED <<next, finals, gaveUp>>

LEMMA TaskMoves ==
  ASSUME TypeOK, NEW w \in Workers, Worker(w)
  PROVE  /\ Takes(w) \/ Finishes(w) \/ GivesUp(w) \/ Loses(w) \/ Carries(w)
         /\ stop = "relogin" => stop' = "relogin"
         /\ pc[w] # "threw"
<1> USE DEF mainVars, stateVars, workerVars, lineVars
<1>1. CASE TakeTask(w)
  BY <1>1 DEF TakeTask, Stopped, TasksLeft, Takes, Carries, Working, Go, TypeOK
<1>2. CASE GetToken(w)
  BY <1>2 DEF GetToken, GivesUp, Loses, Carries, Working, Go, TypeOK
<1>3. CASE FetchPage(w)
  BY <1>3 DEF FetchPage, Write, WriteFinal, Finishes, GivesUp, Loses, Carries, Working, Go, TypeOK
<1>4. CASE PageWritten(w)
  BY <1>4 DEF PageWritten, Write, WriteFinal, Finishes, Loses, Carries, Working, Go, TypeOK
<1>5. CASE FinalWritten(w) \/ TokenRejected(w)
  BY <1>5 DEF FinalWritten, TokenRejected, Carries, Working, Go, TypeOK
<1> QED
  BY <1>1, <1>2, <1>3, <1>4, <1>5 DEF Worker

LEMMA AccountsInit == Init => Owners /\ Accounts
BY SizeAssumption DEF Init, Owners, Accounts, EndAccountsForTasks, Working, TaskIds

LEMMA OwnersStep ==
  ASSUME TypeOK, Phases, Owners, Accounts, [Next]_vars
  PROVE  Owners'
<1> USE DEF mainVars, stateVars, workerVars, lineVars
<1>0. next \in 0..Tasks /\ Tasks \in Nat \ {0} /\ task \in [Workers -> 0..Tasks]
      /\ finals \in [TaskIds -> Nat]
  BY SizeAssumption DEF TypeOK
<1>1. ASSUME NEW w \in Workers, Worker(w)
      PROVE  Owners'
  <2>0. /\ \A v \in Workers : v # w => (Working(v)' <=> Working(v)) /\ task'[v] = task[v]
        /\ Takes(w) \/ Finishes(w) \/ GivesUp(w) \/ Loses(w) \/ Carries(w)
    BY <1>1, WorkerFrame, TaskMoves DEF Working
  <2>1. CASE Takes(w)
    <3>1. next + 1 \in TaskIds /\ finals[next + 1] = 0 /\ next + 1 \notin gaveUp
      BY <1>0, <2>1 DEF Takes, Accounts, TaskIds
    <3>2. \A v \in Workers : v # w /\ Working(v) => task[v] # next + 1 /\ task[v] \in 1..next'
      BY <1>0, <2>1 DEF Takes, Owners
    <3>3. next + 1 \in 1..next'
      BY <1>0, <2>1 DEF Takes
    <3> QED
      BY <2>0, <2>1, <3>1, <3>2, <3>3 DEF Takes, Owners
  <2>2. CASE Finishes(w)
    BY <1>0, <2>0, <2>2 DEF Finishes, Owners, TaskIds
  <2>3. CASE GivesUp(w)
    BY <2>0, <2>3 DEF GivesUp, Owners
  <2>4. CASE Loses(w)
    BY <2>0, <2>4 DEF Loses, Owners
  <2>5. CASE Carries(w)
    BY <2>0, <2>5 DEF Carries, Owners
  <2> QED
    BY <2>0, <2>1, <2>2, <2>3, <2>4, <2>5
<1>2. CASE Request \/ Main \/ Disconnect \/ DeadlinePasses \/ OtherRun \/ UNCHANGED vars
  BY <1>2, MainFrame DEF Owners
<1> QED
  BY <1>1, <1>2 DEF Next

LEMMA AccountsStep ==
  ASSUME TypeOK, Phases, Owners, Accounts, [Next]_vars
  PROVE  Accounts'
<1> USE DEF mainVars, stateVars, workerVars, lineVars
<1>0. /\ next \in 0..Tasks /\ Tasks \in Nat \ {0}
      /\ finals \in [TaskIds -> Nat] /\ gaveUp \in SUBSET TaskIds
  BY SizeAssumption DEF TypeOK
<1> DEFINE Lost == aborted \/ \E w \in Workers : pc[w] = "threw"
           Kept(t) == finals[t] = 1 \/ t \in gaveUp \/ (\E w \in Workers : Working(w) /\ task[w] = t)
<1>1. ASSUME NEW w \in Workers, Worker(w)
      PROVE  Accounts'
  <2>0. /\ \A v \in Workers : v # w => (Working(v)' <=> Working(v)) /\ task'[v] = task[v] /\ pc'[v] = pc[v]
        /\ Takes(w) \/ Finishes(w) \/ GivesUp(w) \/ Loses(w) \/ Carries(w)
        /\ stop = "relogin" => stop' = "relogin"
        /\ pc[w] # "threw" /\ aborted' = aborted /\ ends' = 0
    BY <1>1, WorkerFrame, TaskMoves DEF Working
  <2>1. EndAccountsForTasks'
    BY <2>0 DEF EndAccountsForTasks
  <2>2. Lost => Lost'
    BY <2>0
  <2>3. Working(w) => task[w] \in TaskIds /\ task[w] <= next /\ finals[task[w]] = 0 /\ task[w] \notin gaveUp
    BY <1>0 DEF Owners, TaskIds
  <2>4. gaveUp' # {} => stop' = "relogin"
    BY <2>0 DEF Takes, Finishes, GivesUp, Loses, Carries, Accounts
  <2>5. \A t \in TaskIds : t > next' => finals'[t] = 0 /\ t \notin gaveUp'
    BY <1>0, <2>0, <2>3 DEF Takes, Finishes, GivesUp, Loses, Carries, Accounts, TaskIds
  <2>6. \A t \in TaskIds : finals'[t] \in {0, 1} /\ (t \in gaveUp' => finals'[t] = 0)
    BY <1>0, <2>0, <2>3 DEF Takes, Finishes, GivesUp, Loses, Carries, Accounts
  <2>7. ASSUME NEW t \in TaskIds, t <= next'
        PROVE  Kept(t)' \/ Lost'
    <3>1. CASE Takes(w)
      <4>1. t <= next \/ t = next + 1
        BY <1>0, <2>7, <3>1 DEF Takes, TaskIds
      <4>2. CASE t = next + 1
        BY <3>1, <4>2 DEF Takes
      <4>3. CASE t <= next
        <5>1. Kept(t) \/ Lost
          BY <4>3 DEF Accounts
        <5>2. Kept(t) => Kept(t)'
          BY <2>0, <3>1 DEF Takes
        <5> QED
          BY <2>2, <5>1, <5>2
      <4> QED
        BY <4>1, <4>2, <4>3
    <3>2. CASE ~Takes(w)
      <4>1. next' = next
        BY <2>0, <3>2 DEF Finishes, GivesUp, Loses, Carries
      <4>2. Kept(t) \/ Lost
        BY <2>7, <4>1 DEF Accounts
      <4>3. CASE Finishes(w)
        <5>1. t # task[w] => (Kept(t) => Kept(t)')
          BY <2>0, <4>3 DEF Finishes
        <5>2. t = task[w] => finals'[t] = 1
          BY <1>0, <2>3, <4>3 DEF Finishes
        <5> QED
          BY <2>2, <4>2, <5>1, <5>2
      <4>4. CASE GivesUp(w)
        BY <2>0, <2>2, <4>2, <4>4 DEF GivesUp
      <4>5. CASE Loses(w)
        BY <2>0, <4>5 DEF Loses
      <4>6. CASE Carries(w)
        BY <2>0, <2>2, <4>2, <4>6 DEF Carries
      <4> QED
        BY <2>0, <3>2, <4>3, <4>4, <4>5, <4>6
    <3> QED
      BY <3>1, <3>2
  <2> QED
    BY <2>1, <2>4, <2>5, <2>6, <2>7 DEF Accounts
<1>2. CASE Request \/ Main \/ Disconnect \/ DeadlinePasses \/ OtherRun \/ UNCHANGED vars
  <2>0. /\ UNCHANGED <<stateVars, task, finals, gaveUp>>
        /\ \A w \in Workers : (Working(w)' <=> Working(w)) /\ (pc[w] = "threw" => pc'[w] = "threw")
        /\ aborted => aborted'
        /\ UNCHANGED <<ends, reason>> \/ AllDone
    BY <1>2, MainFrame
  <2>1. EndAccountsForTasks'
    <3>1. CASE UNCHANGED <<ends, reason>>
      BY <2>0, <3>1 DEF Accounts, EndAccountsForTasks
    <3>2. CASE AllDone
      <4>1. CASE aborted
        BY <2>0, <3>2, <4>1 DEF AllDone, Accounts, EndAccountsForTasks
      <4>2. CASE ~aborted
        <5>1. \A w \in Workers : ~Working(w) /\ pc[w] # "threw"
          BY <3>2 DEF AllDone, WorkersDone, Working
        <5>2. gaveUp # {} => reason' = "relogin"
          BY <3>2, <4>2 DEF AllDone, Accounts
        <5>3. \A t \in TaskIds : t <= next => (finals[t] = 1 <=> t \notin gaveUp)
          BY <4>2, <5>1 DEF Accounts
        <5>4. \A t \in TaskIds : finals[t] <= 1 /\ (t > next => finals[t] = 0)
          BY DEF Accounts
        <5> QED
          BY <2>0, <5>2, <5>3, <5>4 DEF EndAccountsForTasks
      <4> QED
        BY <4>1, <4>2
    <3> QED
      BY <2>0, <3>1, <3>2
  <2>2. \A t \in TaskIds : t <= next => Kept(t)' \/ Lost'
    <3>1. \A t \in TaskIds : t <= next => Kept(t) \/ Lost
      BY DEF Accounts
    <3> QED
      BY <2>0, <3>1
  <2> QED
    BY <2>0, <2>1, <2>2 DEF Accounts
<1> QED
  BY <1>1, <1>2 DEF Next

-----------------------------------------------------------------------------
(* Theorems. *)

\* Every state of a run keeps each task with one worker and each line for a reason.
THEOREM RunInvariant == Spec => []RunInv
<1>1. Init => RunInv
  BY TypeInit, PhasesInit, ReasonsInit, AccountsInit DEF RunInv
<1>2. RunInv /\ [Next]_vars => RunInv'
  BY TypeStep, PhasesStep, ReasonsStep, OwnersStep, AccountsStep DEF RunInv
<1> QED
  BY <1>1, <1>2, PTL DEF Spec

\* Every variable keeps its type.
THEOREM TypeCorrect == Spec => []TypeOK
<1>1. RunInv => TypeOK
  BY DEF RunInv
<1> QED
  BY <1>1, RunInvariant, PTL

\* Whatever stopped the run, when the end line is written each task that was started has exactly
\* one last line or was left for a new login, and no other task has any.
THEOREM EveryTaskAccounted == Spec => []EndAccountsForTasks
<1>1. RunInv => EndAccountsForTasks
  BY DEF RunInv, Accounts
<1> QED
  BY <1>1, RunInvariant, PTL

\* The reason on the end line is true: done left no task out, deadline and budget did.
THEOREM ReasonHolds == Spec => []ReasonIsTrue
<1>1. RunInv => ReasonIsTrue
  BY DEF RunInv, Reasons
<1> QED
  BY <1>1, RunInvariant, PTL

\* There is one end line, and no worker that could write another line after it.
THEOREM EndIsLast == Spec => []EndLineIsLast
<1>1. RunInv => EndLineIsLast
  BY DEF RunInv, Phases, Off, EndLineIsLast
<1> QED
  BY <1>1, RunInvariant, PTL

\* A worker that waits for Nexon and was not cut off is covered by the slot of its run.
THEOREM FetchHasSlot == Spec => []SlotCoversFetches
<1>1. RunInv => SlotCoversFetches
  <2> SUFFICES ASSUME RunInv, NEW w \in Workers, pc[w] = "fetch", ~aborted
               PROVE  slot
    BY DEF SlotCoversFetches
  <2>1. ~Off
    BY DEF Off
  <2>2. phase = "run"
    BY <2>1 DEF RunInv, Phases, TypeOK
  <2> QED
    BY <2>2 DEF RunInv, Phases
<1> QED
  BY <1>1, RunInvariant, PTL

\* Once a worker saw that Nexon wants a new login, no other worker overwrites that reason.
THEOREM ReloginStays == Spec => ReloginKept
<1>1. RunInv /\ [Next]_vars => [stop = "relogin" => stop' = "relogin"]_vars
  <2> SUFFICES ASSUME RunInv, [Next]_vars, stop = "relogin"
               PROVE  stop' = "relogin"
    OBVIOUS
  <2>1. ASSUME NEW w \in Workers, Worker(w)
        PROVE  stop' = "relogin"
    BY <2>1, TaskMoves DEF RunInv
  <2>2. CASE Request \/ Main \/ Disconnect \/ DeadlinePasses \/ OtherRun \/ UNCHANGED vars
    BY <2>2, MainFrame DEF RunInv, stateVars
  <2> QED
    BY <2>1, <2>2 DEF Next
<1> QED
  BY <1>1, RunInvariant, PTL DEF Spec, ReloginKept

=============================================================================
