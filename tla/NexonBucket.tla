----------------------------- MODULE NexonBucket -----------------------------
(***************************************************************************)
(* Pages of the friends API and the bucket of tokens of their platform.    *)
(* Every request to Nexon takes a token; a second brings Rps new ones.  On *)
(* a 429 the page empties the bucket and tries once more.  Emptying reads  *)
(* what is left and then takes that away, so others come in between.       *)
(***************************************************************************)
EXTENDS Naturals, SequencesExt

CONSTANTS Pages, Rps

ASSUME NexonBucketAssumption == Rps \in Nat \ {0}

VARIABLES
  tokens,   \* the reservoir of the limiter; below zero after a late emptying
  queue,    \* the jobs that wait for a token
  page,     \* page -> where it is
  tries,    \* page -> requests sent to Nexon; 2 stands for more
  left      \* page -> what currentReservoir answered

bucketVars == <<tokens, queue, page, tries, left>>

BucketInit ==
  /\ tokens = Rps /\ queue = <<>>
  /\ page = [p \in Pages |-> "new"] /\ tries = [p \in Pages |-> 0] /\ left = [p \in Pages |-> 0]

\* run: a job of the limiter.
Schedule(p) ==
  page[p] = "new" /\ page' = [page EXCEPT ![p] = "waits"] /\ queue' = Append(queue, p)
    /\ UNCHANGED <<tokens, tries, left>>

\* The limiter starts the oldest job.  The job of a page that was cut takes a token for nothing.
TakeToken ==
  /\ queue # <<>> /\ tokens > 0
  /\ tokens' = tokens - 1 /\ queue' = Tail(queue)
  /\ LET p == Head(queue)
     IN IF page[p] = "waits"
        THEN page' = [page EXCEPT ![p] = "asks"] /\ tries' = [tries EXCEPT ![p] = IF @ = 0 THEN 1 ELSE 2]
        ELSE UNCHANGED <<page, tries>>
  /\ UNCHANGED left

\* A second is over: the reservoir is set, not added to.
Refill == tokens # Rps /\ tokens' = Rps /\ UNCHANGED <<queue, page, tries, left>>

\* Once, whatever Nexon says then.
Retries(p) == tries[p] = 1

\* Nexon answers, or the time-out does: a status, 429 or 0.
Answered(p) == page[p] = "asks" /\ page' = [page EXCEPT ![p] = "done"]
                 /\ UNCHANGED <<tokens, queue, tries, left>>

TooMany(p) ==
  /\ page[p] = "asks"
  /\ page' = [page EXCEPT ![p] = IF Retries(p) THEN "drains" ELSE "done"]
  /\ UNCHANGED <<tokens, queue, tries, left>>

ReadLeft(p) ==
  /\ page[p] = "drains" /\ page' = [page EXCEPT ![p] = "empties"]
  /\ left' = [left EXCEPT ![p] = tokens] /\ UNCHANGED <<tokens, queue, tries>>

\* Mutant: an emptying that finds nothing left does not come back.
ComesBackWithSome(p) == page[p] = "empties" /\ left[p] > 0

ComesBack(p) == page[p] = "empties"

\* What was left is gone, and the page waits again.
Empty(p) ==
  /\ ComesBack(p)
  /\ tokens' = IF left[p] > 0 THEN tokens - left[p] ELSE tokens
  /\ page' = [page EXCEPT ![p] = "waits"] /\ queue' = Append(queue, p)
  /\ UNCHANGED <<tries, left>>

\* The signal of the run: whoever waits is refused at once, a fetch ends with it, and an emptying
\* still goes on to the next run of the bucket, which refuses it.
Abort(p) ==
  /\ page[p] \in {"waits", "asks", "empties"} /\ page' = [page EXCEPT ![p] = "done"]
  /\ tokens' = IF page[p] = "empties" /\ left[p] > 0 THEN tokens - left[p] ELSE tokens
  /\ UNCHANGED <<queue, tries, left>>

BucketNext ==
  \/ TakeToken \/ Refill
  \/ \E p \in Pages : Schedule(p) \/ Answered(p) \/ TooMany(p) \/ ReadLeft(p) \/ Empty(p) \/ Abort(p)

\* Time passes, the limiter works, a fetch has a time-out, and the two steps of an emptying run on.
\* Nobody need ask for a page, and nobody need cut one.
BucketFair ==
  /\ WF_bucketVars(Refill) /\ WF_bucketVars(TakeToken)
  /\ \A p \in Pages :
       /\ WF_bucketVars(Answered(p) \/ TooMany(p))
       /\ WF_bucketVars(ReadLeft(p)) /\ WF_bucketVars(Empty(p))

-----------------------------------------------------------------------------
\* A page that was asked for ends, whoever empties the bucket under it.
EveryPageEnds == \A p \in Pages : page[p] = "waits" ~> page[p] = "done"

=============================================================================
