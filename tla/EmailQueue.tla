----------------------------- MODULE EmailQueue -----------------------------
(***************************************************************************)
(* The outbound mail queue: services/email_queue.py (process_email_queue   *)
(* and email_worker), the table of models/email.py, and the part of        *)
(* services/maintenance.py that drops old mail.                            *)
(*                                                                         *)
(* A worker reads up to Batch due rows at once, then sends and records     *)
(* them one by one, each record in a transaction of its own.  Between the  *)
(* read and the record it works from the attempts it read.  A send and its *)
(* record are not atomic, and a send that raised may have delivered.       *)
(***************************************************************************)
EXTENDS Integers, FiniteSets

CONSTANTS
    Emails,
    Workers,        \* server processes, each with one worker; normally one
    Batch,          \* WORKER_BATCH
    Cap,            \* settings.max_attempts
    MaxLost,        \* bound: batches lost to a stop or a database error
    MaxClock        \* bound: distinct created_at values

ASSUME BatchIsPositive == Batch \in Nat \ {0}
ASSUME CapIsPositive   == Cap \in Nat \ {0}
ASSUME BoundsAreNat    == MaxLost \in Nat /\ MaxClock \in Nat
ASSUME EmailsAreFinite == IsFiniteSet(Emails)

VARIABLES
    status,         \* email_queue.status; also "none", "draft" and "gone"
    attempts,       \* email_queue.attempts
    created,        \* email_queue.created_at
    clock,
    worker,         \* what each worker is at
    tries,          \* history: sends begun, per mail
    delivered,      \* history: mails that reached their recipient
    waited,         \* history: polls that left a due mail out
    lost            \* history: batches lost

vars == <<status, attempts, created, clock, worker,
          tries, delivered, waited, lost>>

Statuses == {"none", "draft", "pending", "sent", "failed", "gone"}

Terminal == {"sent", "failed"}      \* TERMINAL_EMAIL_STATUSES

\* `jobs' gives the attempts read for each mail of the batch still to send;
\* "sent" and "raised" are the outcome of the send of `email', unrecorded.
Asleep == [step |-> "asleep"]

Jobs == UNION {[S -> 0 .. (Cap - 1)] : S \in SUBSET Emails}

Worker ==
    {Asleep}
    \cup [step : {"batch"}, jobs : Jobs]
    \cup [step : {"sent", "raised"}, jobs : Jobs, email : Emails]

Init ==
    /\ status = [e \in Emails |-> "none"]
    /\ attempts = [e \in Emails |-> 0]
    /\ created = [e \in Emails |-> 0]
    /\ clock = 0
    /\ worker = [w \in Workers |-> Asleep]
    /\ tries = [e \in Emails |-> 0]
    /\ delivered = {}
    /\ waited = [e \in Emails |-> 0]
    /\ lost = 0

-----------------------------------------------------------------------------
(* Enqueueing.  created_at is when the transaction began, so mails of one  *)
(* transaction tie, and a mail may appear behind one already sent.         *)

Draft(e) ==
    /\ status[e] = "none"
    /\ \E t \in {clock, clock + 1} :
         /\ t <= MaxClock
         /\ clock' = t
         /\ created' = [created EXCEPT ![e] = t]
    /\ status' = [status EXCEPT ![e] = "draft"]
    /\ UNCHANGED <<attempts, worker, tries, delivered, waited, lost>>

Enqueue(e) ==
    /\ status[e] = "draft"
    /\ status' = [status EXCEPT ![e] = "pending"]
    /\ UNCHANGED <<attempts, created, clock, worker,
                   tries, delivered, waited, lost>>

Rollback(e) ==
    /\ status[e] = "draft"
    /\ status' = [status EXCEPT ![e] = "none"]
    /\ UNCHANGED <<attempts, created, clock, worker,
                   tries, delivered, waited, lost>>

-----------------------------------------------------------------------------
(* process_email_queue                                                     *)

Due == {e \in Emails : status[e] = "pending" /\ attempts[e] < Cap}

Unordered(S) ==                               \* mutant: no ORDER BY
    /\ S \subseteq Due
    /\ Cardinality(S) <= Batch
    /\ S # Due => Cardinality(S) = Batch

\* ORDER BY created_at LIMIT Batch: ties fall either way.
Oldest(S) ==
    /\ S \subseteq Due
    /\ Cardinality(S) <= Batch
    /\ S # Due => Cardinality(S) = Batch
    /\ \A e \in S, f \in Due \ S : created[e] <= created[f]

Poll(w) ==
    /\ worker[w] = Asleep
    /\ \E S \in SUBSET Due :
         /\ S # {} /\ Oldest(S)
         /\ worker' = [worker EXCEPT ![w] =
                         [step |-> "batch", jobs |-> [e \in S |-> attempts[e]]]]
         /\ waited' = [e \in Emails |-> IF e \in Due \ S THEN waited[e] + 1
                                        ELSE waited[e]]
    /\ UNCHANGED <<status, attempts, created, clock, tries, delivered, lost>>

\* The row the loop is at: jobs are taken in the order they were read.
AtHead(jobs, e) ==
    /\ e \in DOMAIN jobs
    /\ \A f \in DOMAIN jobs : created[e] <= created[f]

\* send_mail, in a thread. It may raise although the mail went out, as when the
\* connection breaks after the server took it.
Send(w) ==
    /\ worker[w].step = "batch"
    /\ \E e \in Emails, outcome \in {"sent", "raised"} :
         /\ AtHead(worker[w].jobs, e)
         /\ worker' = [worker EXCEPT ![w] =
                         [step |-> outcome, jobs |-> worker[w].jobs, email |-> e]]
         /\ tries' = [tries EXCEPT ![e] = @ + 1]
         /\ \/ delivered' = delivered \cup {e}
            \/ outcome = "raised" /\ UNCHANGED delivered
    /\ UNCHANGED <<status, attempts, created, clock, waited, lost>>

\* An UPDATE by id: no row, no effect. It does not look at the row's status.
Update(e, newStatus, newAttempts) ==
    IF status[e] = "gone"
    THEN UNCHANGED <<status, attempts>>
    ELSE /\ status' = [status EXCEPT ![e] = newStatus]
         /\ attempts' = [attempts EXCEPT ![e] = newAttempts]

\* On to the next job of the batch, or to sleep after the last.
Rest(w, e) ==
    LET left == DOMAIN worker[w].jobs \ {e}
    IN  IF left = {} THEN Asleep
        ELSE [step |-> "batch", jobs |-> [f \in left |-> worker[w].jobs[f]]]

RecordSent(w) ==
    /\ worker[w].step = "sent"
    /\ LET e == worker[w].email
       IN  /\ Update(e, "sent", attempts[e])
           /\ worker' = [worker EXCEPT ![w] = Rest(w, e)]
    /\ UNCHANGED <<created, clock, tries, delivered, waited, lost>>

FailEarly(w) ==                             \* mutant: gives up one try early
    /\ worker[w].step = "raised"
    /\ LET e == worker[w].email
           n == worker[w].jobs[e] + 1
       IN  /\ Update(e, IF n >= Cap - 1 THEN "failed" ELSE "pending", n)
           /\ worker' = [worker EXCEPT ![w] = Rest(w, e)]
    /\ UNCHANGED <<created, clock, tries, delivered, waited, lost>>

FailLate(w) ==                              \* mutant: > for >=
    /\ worker[w].step = "raised"
    /\ LET e == worker[w].email
           n == worker[w].jobs[e] + 1
       IN  /\ Update(e, IF n > Cap THEN "failed" ELSE "pending", n)
           /\ worker' = [worker EXCEPT ![w] = Rest(w, e)]
    /\ UNCHANGED <<created, clock, tries, delivered, waited, lost>>

FailUncounted(w) ==                         \* mutant: attempts not written
    /\ worker[w].step = "raised"
    /\ LET e == worker[w].email
           n == worker[w].jobs[e] + 1
       IN  /\ Update(e, IF n >= Cap THEN "failed" ELSE "pending", attempts[e])
           /\ worker' = [worker EXCEPT ![w] = Rest(w, e)]
    /\ UNCHANGED <<created, clock, tries, delivered, waited, lost>>

FailAsSent(w) ==                            \* mutant: marked sent all the same
    /\ worker[w].step = "raised"
    /\ LET e == worker[w].email
           n == worker[w].jobs[e] + 1
       IN  /\ Update(e, "sent", n)
           /\ worker' = [worker EXCEPT ![w] = Rest(w, e)]
    /\ UNCHANGED <<created, clock, tries, delivered, waited, lost>>

FailRetrying(w) ==                          \* mutant: a status nobody reads
    /\ worker[w].step = "raised"
    /\ LET e == worker[w].email
           n == worker[w].jobs[e] + 1
       IN  /\ Update(e, IF n >= Cap THEN "failed" ELSE "retrying", n)
           /\ worker' = [worker EXCEPT ![w] = Rest(w, e)]
    /\ UNCHANGED <<created, clock, tries, delivered, waited, lost>>

RecordFailure(w) ==
    /\ worker[w].step = "raised"
    /\ LET e == worker[w].email
           n == worker[w].jobs[e] + 1
       IN  /\ Update(e, IF n >= Cap THEN "failed" ELSE "pending", n)
           /\ worker' = [worker EXCEPT ![w] = Rest(w, e)]
    /\ UNCHANGED <<created, clock, tries, delivered, waited, lost>>

\* The process stops (the worker task is cancelled) and later starts again, or
\* the database fails and email_worker goes round: the batch is forgotten.
Abort(w) ==
    /\ worker[w] # Asleep
    /\ lost < MaxLost
    /\ lost' = lost + 1
    /\ worker' = [worker EXCEPT ![w] = Asleep]
    /\ UNCHANGED <<status, attempts, created, clock, tries, delivered, waited>>

-----------------------------------------------------------------------------
PruneAnyOld(cutoff) ==                        \* mutant: by age alone
    LET old == {e \in Emails : status[e] \in Terminal \cup {"pending"}
                                 /\ created[e] < cutoff}
    IN  /\ old # {}
        /\ status' = [e \in Emails |-> IF e \in old THEN "gone" ELSE status[e]]
        /\ UNCHANGED <<attempts, created, clock, worker,
                       tries, delivered, waited, lost>>

\* prune-db --yes: one DELETE of the terminal rows older than the cutoff.
PruneDb(cutoff) ==
    LET old == {e \in Emails : status[e] \in Terminal /\ created[e] < cutoff}
    IN  /\ old # {}
        /\ status' = [e \in Emails |-> IF e \in old THEN "gone" ELSE status[e]]
        /\ UNCHANGED <<attempts, created, clock, worker,
                       tries, delivered, waited, lost>>

Work(w) == Poll(w) \/ Send(w) \/ RecordSent(w) \/ RecordFailure(w)

Next ==
    \/ \E e \in Emails : Draft(e) \/ Enqueue(e) \/ Rollback(e)
    \/ \E w \in Workers : Work(w) \/ Abort(w)
    \/ \E cutoff \in 1 .. (MaxClock + 1) : PruneDb(cutoff)

Safety == Init /\ [][Next]_vars

\* email_worker polls for ever while its process runs, and a stop is followed
\* by a start; nothing makes a handler commit or an operator prune.
Spec == Safety /\ \A w \in Workers : WF_vars(Work(w))

-----------------------------------------------------------------------------
(* Properties.                                                             *)

\* Every variable keeps its type.
TypeOK ==
    /\ status \in [Emails -> Statuses]
    /\ attempts \in [Emails -> 0 .. Cap]
    /\ created \in [Emails -> Nat] /\ clock \in Nat
    /\ worker \in [Workers -> Worker]
    /\ tries \in [Emails -> Nat] /\ delivered \subseteq Emails
    /\ waited \in [Emails -> Nat] /\ lost \in Nat

\* A mail the table calls sent has reached its recipient at least once.
SentWasDelivered == \A e \in Emails : status[e] = "sent" => e \in delivered

\* A mail is given up on only after Cap sends of it.
GivenUpAfterCap == \A e \in Emails : status[e] = "failed" => tries[e] >= Cap

\* One worker sends a mail at most Cap times, plus once for every batch that
\* was lost between a send and its record: duplicates have no other cause.
TriesBounded == \A e \in Emails : tries[e] <= Cap + lost

\* One worker: no mail is left pending with its attempts used up, where no poll
\* would pick it up and no prune drop it.
NoneStranded == \A e \in Emails : status[e] = "pending" => attempts[e] < Cap

\* One worker: a mail is passed over only while those queued no later use up
\* their attempts, so mail that fails over and over does not starve the rest.
NotStarved ==
    \A e \in Emails :
        LET ahead == {f \in Emails \ {e} : created[f] <= created[e]}
        IN  waited[e] * Batch <= (Cardinality(ahead) * Cap) + (lost * Batch)

\* The state of Outbox that a row stands for.
Verdict(e) ==
    CASE status[e] \in {"none", "draft"} -> "none"
      [] status[e] = "pending"          -> "queued"
      [] status[e] \in Terminal         -> status[e]
      [] status[e] = "gone"             -> "forgotten"

Promise ==
    INSTANCE Outbox WITH verdict <- [e \in Emails |-> Verdict(e)],
                         arrived <- delivered

\* One worker: the table and the deliveries keep what Outbox promises.
KeepsPromise == Promise!Spec
=============================================================================
