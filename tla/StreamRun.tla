----------------------------- MODULE StreamRun ------------------------------
(***************************************************************************)
(* One run of POST v1/friends/stream, from src/src/modules/friends: it     *)
(* takes a run slot, gets a first token, hijacks the response, and lets    *)
(* `fanout` workers share a list of tasks.  Every page of a task becomes a *)
(* line; a task ends with a done or a fail line and the run with an end    *)
(* line that says why it stopped.  Behind the sink stands a gzip whose     *)
(* write blocks until the client reads, and the client may disconnect at   *)
(* any time.                                                               *)
(*                                                                         *)
(* An action is what JavaScript runs between two awaits.  The other runs   *)
(* of the process appear as the number of slots they hold.                 *)
(***************************************************************************)
EXTENDS Integers

CONSTANTS
  Workers,     \* FRIENDS_FANOUT workers
  Tasks,       \* the number of tasks in the request
  MaxPages,    \* MAX_PAGES_PER_TASK
  MaxBytes,    \* FRIENDS_RUN_BYTES, in pages
  MaxRuns,     \* FRIENDS_MAX_RUNS
  EarlyClose   \* bound: the client may disconnect before the headers are sent

ASSUME SizeAssumption ==
  /\ Workers # {}
  /\ Tasks \in Nat \ {0} /\ MaxPages \in Nat \ {0}
  /\ MaxBytes \in Nat \ {0} /\ MaxRuns \in Nat \ {0}
  /\ EarlyClose \in BOOLEAN

VARIABLES
  phase,      \* where FriendsController.stream is
  response,   \* nothing sent, headers sent, or ended
  conn,       \* the client is there
  aborted,    \* the AbortSignal of the run
  slot,       \* this run holds a slot
  others,     \* slots held by other runs
  next,       \* state.next: tasks taken
  stop,       \* state.stop
  bytes,      \* state.bytes
  late,       \* the deadline has passed
  pc,         \* where a worker is
  task,       \* the task it works on
  page,       \* its page number n
  blocked,    \* the write it awaits waits for drain
  finals,     \* finals[t]: done and fail lines of task t
  gaveUp,     \* tasks a worker left because Nexon wants a new login
  ends,       \* end lines
  reason      \* the reason the end line gives

mainVars   == <<phase, response, conn, slot, others>>
stateVars  == <<next, stop, bytes>>
workerVars == <<pc, task, page, blocked>>
lineVars   == <<finals, gaveUp, ends, reason>>
vars == <<mainVars, aborted, stateVars, late, workerVars, lineVars>>

TaskIds == 1..Tasks

TypeOK ==
  /\ phase \in {"idle", "token", "run", "endline", "closing", "over"}
  /\ response \in {"none", "headers", "ended"}
  /\ conn \in {"open", "closed"}
  /\ aborted \in BOOLEAN /\ slot \in BOOLEAN /\ late \in BOOLEAN
  /\ others \in 0..MaxRuns
  /\ next \in 0..Tasks
  /\ stop \in {"null", "deadline", "budget", "relogin"}
  /\ bytes \in Nat
  /\ pc \in [Workers -> {"off", "loop", "token", "fetch", "pageOut", "lastOut", "reject", "threw"}]
  /\ task \in [Workers -> 0..Tasks]
  /\ page \in [Workers -> 0..MaxPages]
  /\ blocked \in [Workers -> BOOLEAN]
  /\ finals \in [TaskIds -> Nat]
  /\ gaveUp \in SUBSET TaskIds
  /\ ends \in Nat
  /\ reason \in {"null", "done", "deadline", "budget", "relogin"}

Init ==
  /\ phase = "idle" /\ response = "none" /\ conn = "open"
  /\ aborted = FALSE /\ slot = FALSE /\ late = FALSE
  /\ others \in 0..MaxRuns
  /\ next = 0 /\ stop = "null" /\ bytes = 0
  /\ pc = [w \in Workers |-> "off"]
  /\ task = [w \in Workers |-> 0]
  /\ page = [w \in Workers |-> 0]
  /\ blocked = [w \in Workers |-> FALSE]
  /\ finals = [t \in TaskIds |-> 0]
  /\ gaveUp = {}
  /\ ends = 0 /\ reason = "null"

-----------------------------------------------------------------------------
(* The slots, the first token and the response. *)

Active == others + (IF slot THEN 1 ELSE 0)

\* A request over the limit is answered 503 and holds nothing.
Request ==
  /\ phase = "idle"
  /\ IF Active >= MaxRuns
     THEN phase' = "over" /\ response' = "ended" /\ UNCHANGED slot
     ELSE phase' = "token" /\ slot' = TRUE /\ UNCHANGED response
  /\ UNCHANGED <<conn, others, aborted, stateVars, late, workerVars, lineVars>>

\* Before the headers a refusal is still a status code.  After it the close of the response is
\* listened to: one that happened while the token was awaited is not seen again.
FirstToken ==
  /\ phase = "token"
  /\ \/ /\ phase' = "run" /\ response' = "headers"
        /\ pc' = [w \in Workers |-> "loop"]
        /\ UNCHANGED slot
     \/ /\ phase' = "over" /\ response' = "ended" /\ slot' = FALSE    \* 401, 500
        /\ UNCHANGED pc
  /\ UNCHANGED <<conn, others, aborted, stateVars, late, task, page, blocked, lineVars>>

Listening == phase \in {"run", "endline", "closing"}

Disconnect ==
  /\ conn = "open"
  /\ Listening \/ phase = "over" \/ (phase = "token" /\ EarlyClose)
  /\ conn' = "closed"
  /\ aborted' = (aborted \/ Listening)
  /\ UNCHANGED <<phase, response, slot, others, stateVars, late, workerVars, lineVars>>

DeadlinePasses ==
  /\ phase = "run" /\ ~late
  /\ late' = TRUE
  /\ UNCHANGED <<mainVars, aborted, stateVars, workerVars, lineVars>>

OtherRun ==
  /\ \/ Active < MaxRuns /\ others' = others + 1
     \/ others > 0 /\ others' = others - 1
  /\ UNCHANGED <<phase, response, conn, slot, aborted, stateVars, late, workerVars, lineVars>>

-----------------------------------------------------------------------------
(* A worker. *)

Go(w, label) == pc' = [pc EXCEPT ![w] = label]

\* Mutants: a stop is not looked at; one task too many.
StoppedByAbort == aborted
OneMoreTask == next <= Tasks

Stopped == aborted \/ stop # "null"
TasksLeft == next < Tasks

\* The checks before a new task, in the order of the code.
TakeTask(w) ==
  /\ pc[w] = "loop"
  /\ \/ /\ Stopped \/ ~TasksLeft
        /\ Go(w, "off")
        /\ UNCHANGED <<next, stop, task>>
     \/ /\ ~Stopped /\ TasksLeft
        /\ late \/ bytes >= MaxBytes
        /\ stop' = IF late THEN "deadline" ELSE "budget"
        /\ Go(w, "off")
        /\ UNCHANGED <<next, task>>
     \/ /\ ~Stopped /\ TasksLeft /\ ~late /\ bytes < MaxBytes
        /\ next' = next + 1
        /\ task' = [task EXCEPT ![w] = next + 1]
        /\ Go(w, "token")
        /\ UNCHANGED stop
  /\ UNCHANGED <<mainVars, aborted, bytes, late, page, blocked, lineVars>>

\* tokenFor: a token, ReloginRequired, or any other error, which leaves the worker.
GetToken(w) ==
  /\ pc[w] = "token"
  /\ \/ /\ Go(w, IF aborted THEN "loop" ELSE "fetch")
        /\ page' = [page EXCEPT ![w] = 1]
        /\ UNCHANGED <<stop, gaveUp>>
     \/ /\ stop' = "relogin"
        /\ gaveUp' = gaveUp \cup {task[w]}
        /\ Go(w, "off")
        /\ UNCHANGED page
     \/ /\ Go(w, "threw")
        /\ UNCHANGED <<stop, gaveUp, page>>
  /\ UNCHANGED <<mainVars, aborted, next, bytes, late, task, blocked, finals, ends, reason>>

\* A write puts the line into the gzip and may have to wait until it drains.
Write(w, label) ==
  /\ Go(w, label)
  /\ \E full \in BOOLEAN : blocked' = [blocked EXCEPT ![w] = full]

WriteFinal(w) ==
  /\ Write(w, "lastOut")
  /\ finals' = [finals EXCEPT ![task[w]] = @ + 1]

\* One page comes back, or nothing does.
FetchPage(w) ==
  /\ pc[w] = "fetch"
  /\ \/ /\ aborted
        /\ Go(w, "loop")
        /\ UNCHANGED <<stop, bytes, blocked, finals, gaveUp>>
     \/ /\ ~aborted
        /\ bytes' = bytes + 1
        /\ Write(w, "pageOut")
        /\ UNCHANGED <<stop, finals, gaveUp>>
     \/ /\ ~aborted
        /\ WriteFinal(w)                          \* fail line
        /\ UNCHANGED <<stop, bytes, gaveUp>>
     \/ /\ ~aborted
        /\ stop' = "relogin"                      \* OPENAPI00012
        /\ gaveUp' = gaveUp \cup {task[w]}
        /\ Go(w, "reject")
        /\ UNCHANGED <<bytes, blocked, finals>>
  /\ UNCHANGED <<mainVars, aborted, next, late, task, page, ends, reason>>

\* The write resolves when there is room, and rejects when the run was aborted while it waited.
Drained(w) == ~blocked[w] \/ conn = "open"

\* The page line is out: another page, or the line that ends the task.
PageWritten(w) ==
  /\ pc[w] = "pageOut"
  /\ \/ /\ aborted
        /\ \/ Go(w, "threw")
           \/ ~blocked[w] /\ page[w] < MaxPages /\ Go(w, "loop")
        /\ UNCHANGED <<page, finals>>
        /\ blocked' = [blocked EXCEPT ![w] = FALSE]
     \/ /\ ~aborted /\ Drained(w)
        /\ WriteFinal(w)                          \* done line, or fail line at MaxPages
        /\ UNCHANGED page
     \/ /\ ~aborted /\ Drained(w)
        /\ page[w] < MaxPages
        /\ page' = [page EXCEPT ![w] = @ + 1]
        /\ blocked' = [blocked EXCEPT ![w] = FALSE]
        /\ Go(w, "fetch")
        /\ UNCHANGED finals
  /\ UNCHANGED <<mainVars, aborted, stateVars, late, task, gaveUp, ends, reason>>

FinalWritten(w) ==
  /\ pc[w] = "lastOut"
  /\ \/ aborted /\ blocked[w] /\ Go(w, "threw")
     \/ (~blocked[w] \/ (~aborted /\ Drained(w))) /\ Go(w, "loop")
  /\ blocked' = [blocked EXCEPT ![w] = FALSE]
  /\ UNCHANGED <<mainVars, aborted, stateVars, late, task, page, lineVars>>

\* tokens.rejected deletes the session, or throws.
TokenRejected(w) ==
  /\ pc[w] = "reject"
  /\ \E label \in {"loop", "threw"} : Go(w, label)
  /\ UNCHANGED <<mainVars, aborted, stateVars, late, task, page, blocked, lineVars>>

-----------------------------------------------------------------------------
(* The end of runStream, of FriendsService.stream and of the controller. *)

\* Mutant: the slot is not given back.
OverWithSlot == phase' = "over" /\ UNCHANGED slot

\* Back in the controller's finally: the run is over and its slot is free.
Over == phase' = "over" /\ slot' = FALSE

\* Mutant: Promise.race.
SomeWorkerDone == \E w \in Workers : pc[w] = "off"

WorkersDone == \A w \in Workers : pc[w] = "off"

\* All workers are through: the end line is written, unless the run was aborted.
AllDone ==
  /\ phase = "run"
  /\ WorkersDone
  /\ IF aborted
     THEN Over /\ UNCHANGED <<ends, reason>>
     ELSE /\ phase' = "endline"
          /\ ends' = ends + 1
          /\ reason' = IF stop = "null" THEN "done" ELSE stop
          /\ UNCHANGED slot
  /\ UNCHANGED <<response, conn, others, aborted, stateVars, late, workerVars, finals, gaveUp>>

\* Mutant: the catch block only logs.
NoAbort == UNCHANGED aborted

Abort == aborted' = TRUE

\* Promise.all rejects with the first worker that threw; the others are not awaited.  The
\* service aborts the run and NdjsonOutput.end() drops the gzip without ending the response.
WorkerThrew ==
  /\ phase = "run"
  /\ \E w \in Workers : pc[w] = "threw"
  /\ Over
  /\ Abort
  /\ UNCHANGED <<response, conn, others, stateVars, late, workerVars, lineVars>>

\* The end line is in the gzip; gzip.end() follows, unless the run was aborted meanwhile.
EndLineWritten ==
  /\ phase = "endline"
  /\ \/ aborted /\ Over
     \/ ~aborted /\ phase' = "closing" /\ UNCHANGED slot
  /\ UNCHANGED <<response, conn, others, aborted, stateVars, late, workerVars, lineVars>>

\* finished(down) resolves when the response has ended or its connection is gone.
ResponseFinished ==
  /\ phase = "closing"
  /\ Over
  /\ response' = IF conn = "open" THEN "ended" ELSE response
  /\ UNCHANGED <<conn, others, aborted, stateVars, late, workerVars, lineVars>>

Worker(w) ==
  \/ TakeTask(w)
  \/ GetToken(w)
  \/ FetchPage(w)
  \/ PageWritten(w)
  \/ FinalWritten(w)
  \/ TokenRejected(w)

Main ==
  \/ FirstToken
  \/ AllDone
  \/ WorkerThrew
  \/ EndLineWritten
  \/ ResponseFinished

Next ==
  \/ Request
  \/ Main
  \/ \E w \in Workers : Worker(w)
  \/ Disconnect
  \/ DeadlinePasses
  \/ OtherRun

\* The event loop runs what is ready, Nexon calls time out, and a client that is there reads.
Fairness == WF_vars(Main) /\ \A w \in Workers : WF_vars(Worker(w))

Spec == Init /\ [][Next]_vars /\ Fairness

-----------------------------------------------------------------------------
(* Properties. *)

\* Every task that was started is accounted for when the end line is written: one done or fail
\* line, or it is one the relogin left; tasks not started have none.  In particular a run over its
\* time or byte budget still finishes what it began.
EndAccountsForTasks ==
  ends > 0 =>
    \A t \in TaskIds :
      /\ t <= next => finals[t] = 1 <=> t \notin gaveUp
      /\ finals[t] <= 1
      /\ t > next => finals[t] = 0
      /\ gaveUp # {} => reason = "relogin"

\* The reason is true: done means no task was left out, deadline and budget that one was.
ReasonIsTrue ==
  /\ reason = "done" => next = Tasks
  /\ reason \in {"deadline", "budget"} => next < Tasks

\* The end line comes once and last: no worker is left that could write another line.
EndLineIsLast == ends > 0 => ends = 1 /\ \A w \in Workers : pc[w] = "off"

\* A worker with a request at Nexon that is not cut off belongs to a run that holds its slot: the
\* number of runs times the fanout really bounds what is held in memory.
SlotCoversFetches == \A w \in Workers : pc[w] = "fetch" /\ ~aborted => slot

\* The app is told of a new login even when another worker meets the deadline or the budget.
ReloginKept == [][stop = "relogin" => stop' = "relogin"]_vars

\* A run that took a slot gives it back.
SlotReturned == slot ~> ~slot

=============================================================================
