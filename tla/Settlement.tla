------------------------------ MODULE Settlement ------------------------------
(***************************************************************************)
(* The watch over Nexon's nightly settlement.  Between 00:00 and 06:00 KST *)
(* the server asks every ten minutes for a record of yesterday; Nexon      *)
(* refuses while it settles.  A 200 means before or after, and what was    *)
(* seen is in the memory of the process.                                   *)
(***************************************************************************)
EXTENDS Naturals

CONSTANTS NoNight, MaxNight   \* bound: the nights of a behaviour

VARIABLES
  night,    \* the night of the clock
  inWindow, \* before WINDOW_END_HOUR
  nexon,    \* "before", "settling", "done"
  watch,    \* WatchState
  probe     \* "none", "asked", or what Nexon answered and the service has yet to take in

world          == <<night, inWindow, nexon>>
settlementVars == <<world, watch, probe>>

Idle   == [night |-> NoNight, settling |-> FALSE, finished |-> FALSE]
Blank  == [night |-> night,   settling |-> FALSE, finished |-> FALSE]

SettlementInit ==
  night = 1 /\ inWindow = FALSE /\ nexon = "done" /\ watch = Idle /\ probe = "none"

\* What an app is told.
Shown == inWindow /\ watch.night = night /\ watch.settling

-----------------------------------------------------------------------------
(* The clock and Nexon.  A probe is over long before the next night. *)

NightFalls ==
  /\ ~inWindow /\ night < MaxNight /\ probe = "none"
  /\ night' = night + 1 /\ inWindow' = TRUE /\ nexon' = "before"
  /\ UNCHANGED <<watch, probe>>
WindowEnds  == inWindow /\ inWindow' = FALSE /\ UNCHANGED <<night, nexon, watch, probe>>
NexonBegins == nexon = "before" /\ nexon' = "settling" /\ UNCHANGED <<night, inWindow, watch, probe>>
NexonEnds   == nexon = "settling" /\ nexon' = "done" /\ UNCHANGED <<night, inWindow, watch, probe>>

Truth == IF nexon = "settling" THEN "settling" ELSE "settled"

-----------------------------------------------------------------------------
(* The service. *)

\* probeNight: not out of the window, nor when the end of this night was seen.
ProbeWanted == inWindow /\ ~(watch.night = night /\ watch.finished)

\* A slot of the cron, or the boot of the server.  One probe at a time.
Tick == ProbeWanted /\ probe = "none" /\ probe' = "asked" /\ UNCHANGED <<world, watch>>

\* Nexon looks at some moment of the call; a call may fail as well.
NexonAnswers ==
  /\ probe = "asked" /\ probe' \in {Truth, "unknown"}
  /\ UNCHANGED <<world, watch>>

\* Mutant: a failure reads as not settling.
FailureIsNo(answer) ==
  LET base == IF watch.night = night THEN watch ELSE Blank
  IN CASE ~inWindow -> Idle
       [] inWindow /\ answer = "settling" -> [base EXCEPT !.settling = TRUE]
       [] OTHER -> [base EXCEPT !.settling = FALSE, !.finished = base.settling]

\* reduce, by the clock of the answer.  A 200 ends the night only when settling was seen in it.
Reduced(answer) ==
  LET base == IF watch.night = night THEN watch ELSE Blank
  IN CASE ~inWindow -> Idle
       [] inWindow /\ answer = "settling" -> [base EXCEPT !.settling = TRUE]
       [] inWindow /\ answer = "settled" /\ base.settling ->
            [base EXCEPT !.settling = FALSE, !.finished = TRUE]
       [] OTHER -> base

TakeIn ==
  /\ probe \notin {"none", "asked"}
  /\ watch' = Reduced(probe) /\ probe' = "none" /\ UNCHANGED world

Restart == watch' = Idle /\ probe' = "none" /\ UNCHANGED world

SettlementNext ==
  NightFalls \/ WindowEnds \/ NexonBegins \/ NexonEnds \/ Tick \/ NexonAnswers \/ TakeIn \/ Restart

-----------------------------------------------------------------------------
\* The band of an app follows Nexon: it comes up only when tonight's settlement has begun, and goes
\* down only when it ended, the window did, or the server started anew.  So within one life of the
\* server it comes up once a night, whatever fails and however late an answer is.
BandFollowsNexon ==
  [][/\ ~Shown /\ Shown' => nexon # "before" /\ (watch.night = night => ~watch.finished)
     /\ Shown /\ ~Shown' => nexon = "done" \/ ~inWindow' \/ Restart]_settlementVars

=============================================================================
