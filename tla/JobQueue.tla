------------------------------ MODULE JobQueue ------------------------------
(***************************************************************************)
(* The job queue kept in PostgreSQL and the workers that consume it        *)
(* (infrastructure/queue/postgres_queue.py, worker.py).                    *)
(*                                                                         *)
(* A worker handles a job in two transactions.  The first claims it with   *)
(* SELECT ... FOR UPDATE SKIP LOCKED and commits it as 'processing'.  The  *)
(* second runs the handler and commits 'done'; when anything in it raises, *)
(* a third one counts the failure and schedules a retry or gives up.  What *)
(* the handler does outside the database (an e-mail, a PDF file) is not    *)
(* undone by a rollback.                                                   *)
(***************************************************************************)
EXTENDS Integers, FiniteSets

CONSTANTS
    Jobs,        (* job ids                                                *)
    Workers,     (* worker processes                                       *)
    Created,     (* created_at of each job: when its request began         *)
    MaxRetries,  (* worker_max_retries                                     *)
    BackoffCap,  (* the longest wait before a retry                        *)
    Crashing,    (* workers that may lose what they have in hand           *)
    Unheard,     (* workers that may not hear that a commit succeeded      *)
    NoJob

ASSUME QueueAssumption ==
    /\ Created \in [Jobs -> Nat]
    /\ MaxRetries \in Nat \ {0}
    /\ BackoffCap \in Nat
    /\ Crashing \subseteq Workers
    /\ Unheard \subseteq Workers
    /\ NoJob \notin Jobs

VARIABLES
    queue,        (* table queued_jobs                                     *)
    deadLetters,  (* table failed_jobs: the rows of each job               *)
    recorded,     (* jobs whose result is recorded: delivery sent, PDF set *)
    worker,       (* what each worker is doing, and with which job         *)
    sent,         (* history: external effects of each job                 *)
    skipped,      (* history: jobs whose handler found nothing to do       *)
    dropped       (* history: jobs a worker had in hand when it was lost   *)

vars == <<queue, deadLetters, recorded, worker, sent, skipped, dropped>>

QueuedJob == [status : {"none", "pending", "processing", "done", "failed"},
              attempts : 0 .. MaxRetries, wait : 0 .. BackoffCap]

Idle == [pc |-> "idle", job |-> NoJob]

Init ==
    /\ queue = [j \in Jobs |-> [status |-> "none", attempts |-> 0, wait |-> 0]]
    /\ deadLetters = [j \in Jobs |-> 0]
    /\ recorded = {}
    /\ worker = [w \in Workers |-> Idle]
    /\ sent = [j \in Jobs |-> 0]
    /\ skipped = {}
    /\ dropped = {}

-----------------------------------------------------------------------------
(* Producer *)

(* A request commits its jobs together with its own writes (outbox).       *)
Enqueue(batch) ==
    /\ \A j \in batch : queue[j].status = "none"
    /\ queue' = [j \in Jobs |->
                    IF j \in batch THEN [queue[j] EXCEPT !.status = "pending"] ELSE queue[j]]
    /\ UNCHANGED <<deadLetters, recorded, worker, sent, skipped, dropped>>

(* Time passes for the jobs whose next_retry_at is ahead.                  *)
Tick ==
    /\ \E j \in Jobs : queue[j].wait > 0
    /\ queue' = [j \in Jobs |->
                    IF queue[j].wait > 0 THEN [queue[j] EXCEPT !.wait = @ - 1] ELSE queue[j]]
    /\ UNCHANGED <<deadLetters, recorded, worker, sent, skipped, dropped>>

-----------------------------------------------------------------------------
(* Tx1: claim_next_job *)

Locked(j) == \E w \in Workers : worker[w] = [pc |-> "claimed", job |-> j]

(* Seeded fault: no FOR UPDATE SKIP LOCKED.                                *)
EligibleUnlocked(j) == queue[j].status = "pending" /\ queue[j].wait = 0

(* Seeded fault: the claim excludes only jobs in 'processing'.             *)
EligibleSettled(j) ==
    queue[j].status \notin {"none", "processing"} /\ queue[j].wait = 0 /\ ~ Locked(j)

Eligible(j) == queue[j].status = "pending" /\ queue[j].wait = 0 /\ ~ Locked(j)

Claim(w, j) ==
    /\ worker[w].pc = "idle"
    /\ Eligible(j)
    /\ \A o \in Jobs : Eligible(o) => Created[j] <= Created[o]
    /\ worker' = [worker EXCEPT ![w] = [pc |-> "claimed", job |-> j]]
    /\ UNCHANGED <<queue, deadLetters, recorded, sent, skipped, dropped>>

ClaimCommit(w) ==
    /\ worker[w].pc = "claimed"
    /\ queue' = [queue EXCEPT ![worker[w].job].status = "processing"]
    /\ worker' = [worker EXCEPT ![w].pc = "working"]
    /\ UNCHANGED <<deadLetters, recorded, sent, skipped, dropped>>

(* Nothing to claim: the worker sleeps and polls again.                    *)
Poll(w) ==
    /\ worker[w].pc = "idle"
    /\ \A j \in Jobs : ~ Eligible(j)
    /\ UNCHANGED vars

-----------------------------------------------------------------------------
(* Tx2: the handler, then complete_job *)

(* The e-mail leaves, or the PDF is written.                               *)
Act(w) ==
    /\ worker[w].pc = "working"
    /\ sent' = [sent EXCEPT ![worker[w].job] = @ + 1]
    /\ worker' = [worker EXCEPT ![w].pc = "acted"]
    /\ UNCHANGED <<queue, deadLetters, recorded, skipped, dropped>>

(* The user or the event no longer exists: the handler returns at once.    *)
Skip(w) ==
    /\ worker[w].pc = "working"
    /\ skipped' = skipped \cup {worker[w].job}
    /\ worker' = [worker EXCEPT ![w].pc = "skipped"]
    /\ UNCHANGED <<queue, deadLetters, recorded, sent, dropped>>

(* The commit of Tx2: mark_delivery or set_pdf_url, and 'done'.            *)
Finish(w) ==
    /\ worker[w].pc \in {"acted", "skipped"}
    /\ queue' = [queue EXCEPT ![worker[w].job].status = "done"]
    /\ recorded' = IF worker[w].pc = "acted" THEN recorded \cup {worker[w].job}
                   ELSE recorded
    /\ UNCHANGED <<deadLetters, sent, skipped, dropped>>

Complete(w) == Finish(w) /\ worker' = [worker EXCEPT ![w] = Idle]

(* The commit takes effect but the connection fails before it is confirmed:*)
(* to the worker it raised.                                                *)
CompleteUnheard(w) ==
    /\ w \in Unheard
    /\ Finish(w)
    /\ worker' = [worker EXCEPT ![w].pc = "failing"]

(* Anything in Tx2 raises: an unknown job type, the provider, the database.*)
Fail(w) ==
    /\ worker[w].pc \in {"working", "acted", "skipped"}
    /\ worker' = [worker EXCEPT ![w].pc = "failing"]
    /\ UNCHANGED <<queue, deadLetters, recorded, sent, skipped, dropped>>

-----------------------------------------------------------------------------
(* The failure transaction: fail_job *)

Exhausted(attempts) == attempts >= MaxRetries

Backoff(attempts) == IF 2 ^ attempts < BackoffCap THEN 2 ^ attempts ELSE BackoffCap

(* Seeded fault: the attempt is not counted.                               *)
AfterFailureUncounted(row) ==
    IF Exhausted(row.attempts + 1)
    THEN [row EXCEPT !.status = "failed"]
    ELSE [row EXCEPT !.status = "pending", !.wait = Backoff(row.attempts + 1)]

(* Seeded fault: the job is not returned to 'pending'.                     *)
AfterFailureNotReset(row) ==
    LET n == row.attempts + 1
    IN  IF Exhausted(n)
        THEN [row EXCEPT !.attempts = n, !.status = "failed"]
        ELSE [row EXCEPT !.attempts = n, !.wait = Backoff(n)]

(* Seeded fault: the job goes to the dead letters and is retried too.      *)
AfterFailureNotSettled(row) ==
    LET n == row.attempts + 1
    IN  IF Exhausted(n)
        THEN [row EXCEPT !.status = "pending"]
        ELSE [row EXCEPT !.attempts = n, !.status = "pending", !.wait = Backoff(n)]

AfterFailure(row) ==
    LET n == row.attempts + 1
    IN  IF Exhausted(n)
        THEN [row EXCEPT !.attempts = n, !.status = "failed"]
        ELSE [row EXCEPT !.attempts = n, !.status = "pending", !.wait = Backoff(n)]

(* The row is read again; its status is not looked at.                     *)
FailJob(w) ==
    LET j == worker[w].job
    IN  /\ worker[w].pc = "failing"
        /\ queue' = [queue EXCEPT ![j] = AfterFailure(@)]
        /\ deadLetters' = [deadLetters EXCEPT
                              ![j] = IF Exhausted(queue[j].attempts + 1) THEN @ + 1 ELSE @]
        /\ worker' = [worker EXCEPT ![w] = Idle]
        /\ UNCHANGED <<recorded, sent, skipped, dropped>>

(* The worker is killed and restarted, or Tx1 or the failure transaction   *)
(* raises and main() starts its loop over.  A claim not yet committed is   *)
(* undone; a job in 'processing' is forgotten, and no other transaction    *)
(* ever looks for it.                                                      *)
Drop(w) ==
    /\ w \in Crashing
    /\ worker[w].pc # "idle"
    /\ worker' = [worker EXCEPT ![w] = Idle]
    /\ dropped' = IF worker[w].pc = "claimed" THEN dropped ELSE dropped \cup {worker[w].job}
    /\ UNCHANGED <<queue, deadLetters, recorded, sent, skipped>>

-----------------------------------------------------------------------------

(* What the loop of a worker does next.                                    *)
Work(w) ==
    \/ \E j \in Jobs : Claim(w, j)
    \/ ClaimCommit(w)
    \/ Act(w)
    \/ Skip(w)
    \/ Complete(w)
    \/ Fail(w)
    \/ FailJob(w)

Next ==
    \/ \E batch \in SUBSET Jobs : Enqueue(batch)
    \/ Tick
    \/ \E w \in Workers : Work(w) \/ Poll(w) \/ CompleteUnheard(w) \/ Drop(w)

Spec == Init /\ [][Next]_vars

(* main() loops for ever, restart: always brings the process back, and time*)
(* passes.                                                                 *)
Fairness == WF_vars(Tick) /\ \A w \in Workers : WF_vars(Work(w))

FairSpec == Spec /\ Fairness

-----------------------------------------------------------------------------
(* Properties *)

(* Types of the tables and of the workers; attempts and waits stay within  *)
(* worker_max_retries and the cap of the backoff.                          *)
TypeOK ==
    /\ queue \in [Jobs -> QueuedJob]
    /\ deadLetters \in [Jobs -> Nat]
    /\ recorded \subseteq Jobs
    /\ worker \in [Workers -> [pc : {"idle", "claimed", "working", "acted", "skipped",
                                     "failing"},
                               job : Jobs \cup {NoJob}]]
    /\ sent \in [Jobs -> Nat]
    /\ skipped \subseteq Jobs
    /\ dropped \subseteq Jobs

Holds(w, j) == worker[w].pc # "idle" /\ worker[w].job = j

(* Two workers never have the same job in hand, though both may have seen  *)
(* it pending, and whatever crashes, retries and lost confirmations occur. *)
OneWorkerPerJob ==
    \A j \in Jobs : \A v, w \in Workers : Holds(v, j) /\ Holds(w, j) => v = w

(* A job is left in 'processing' with nobody working on it only when a     *)
(* worker was lost with the job in hand: failures and retries lose none.   *)
ProcessingIsHeld ==
    \A j \in Jobs :
        queue[j].status = "processing" => j \in dropped \/ \E w \in Workers : Holds(w, j)

(* failed_jobs has one row for a job that was given up and none for others.*)
DeadLetterOnce ==
    \A j \in Jobs : deadLetters[j] = IF queue[j].status = "failed" THEN 1 ELSE 0

(* An e-mail may be sent again after a failure, once per attempt, and so   *)
(* never more than worker_max_retries times.                               *)
SentWithinBudget ==
    \A j \in Jobs :
        /\ sent[j] <= MaxRetries
        /\ sent[j] <= IF queue[j].status \in {"processing", "done"}
                      THEN queue[j].attempts + 1 ELSE queue[j].attempts

(* A recorded delivery (or PDF) was made, and a job that is done made one  *)
(* unless its handler had nothing to do.                                   *)
RecordedMeansSent ==
    /\ \A j \in recorded : sent[j] > 0
    /\ \A j \in Jobs : queue[j].status = "done" => j \in recorded \cup skipped

(* A job that is done or failed stays so, whatever crashes and retries,    *)
(* unless the worker that completed it did not hear of the commit: fail_job*)
(* does not look at the status of the row it fails.                        *)
SettledForGood ==
    [][\A j \in Jobs :
         queue[j].status \in {"done", "failed"} /\ queue'[j].status # queue[j].status =>
             \E w \in Unheard : worker[w] = [pc |-> "failing", job |-> j]]_vars

(* Every job that is enqueued ends, in 'done' or in the dead letters.      *)
EveryJobSettles ==
    \A j \in Jobs : queue[j].status = "pending" ~> queue[j].status \in {"done", "failed"}

(* As far as the code keeps it: every job ends, unless workers are lost for*)
(* ever, or one was lost with this job in hand.                            *)
SettlesUnlessLost ==
    <>[][\A w \in Workers : ~ Drop(w)]_vars =>
        \A j \in Jobs :
            queue[j].status = "pending" ~>
                queue[j].status \in {"done", "failed"} \/ j \in dropped
=============================================================================
