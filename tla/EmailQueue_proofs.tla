-------------------------- MODULE EmailQueue_proofs --------------------------
(***************************************************************************)
(* Proofs about EmailQueue, for any mails, batch size and retry cap.  What *)
(* a row records is true of the sends behind it for any number of workers; *)
(* with one worker the sends of a mail are bounded, a mail waits only for  *)
(* the mails ahead of it, and the queue implements the safety of Outbox.   *)
(***************************************************************************)
EXTENDS EmailQueue, FiniteSetTheorems, TLAPS

\* A worker's batch, and the mail it has just sent.
Busy(w) == worker[w] # Asleep
Holding(w, e) == Busy(w) /\ e \in DOMAIN worker[w].jobs
InHand(w) == worker[w].step \in {"sent", "raised"}

-----------------------------------------------------------------------------
(* Types.                                                                  *)

\* A value of Worker, taken apart.
LEMMA WorkerTypes ==
    ASSUME TypeOK, NEW w \in Workers
    PROVE  /\ worker[w].step \in {"asleep", "batch", "sent", "raised"}
           /\ Busy(w) <=> worker[w].step # "asleep"
           /\ Busy(w) => worker[w].jobs \in Jobs
           /\ InHand(w) => Busy(w) /\ worker[w].email \in Emails
PROOF
  <1>1. worker[w] \in Worker
    BY DEF TypeOK
  <1> QED
    BY <1>1 DEF Worker, Asleep, Busy, InHand

\* A batch holds mails, and attempts that were below Cap.
LEMMA JobTypes ==
    ASSUME NEW jobs \in Jobs
    PROVE  /\ DOMAIN jobs \subseteq Emails
           /\ \A e \in DOMAIN jobs : jobs[e] \in 0 .. (Cap - 1)
PROOF
  BY DEF Jobs

\* What is left of a batch is a batch.
LEMMA RestTypes ==
    ASSUME TypeOK, NEW w \in Workers, Busy(w), NEW e
    PROVE  /\ Rest(w, e) \in Worker
           /\ Rest(w, e).step \in {"asleep", "batch"}
           /\ Rest(w, e) # Asleep =>
                /\ DOMAIN Rest(w, e).jobs = DOMAIN worker[w].jobs \ {e}
                /\ \A f \in DOMAIN worker[w].jobs \ {e} :
                     Rest(w, e).jobs[f] = worker[w].jobs[f]
PROOF
  <1> DEFINE left == DOMAIN worker[w].jobs \ {e}
             jobs == [f \in left |-> worker[w].jobs[f]]
  <1>1. worker[w].jobs \in Jobs
    BY WorkerTypes
  <1>2. left \subseteq Emails /\ \A f \in left : worker[w].jobs[f] \in 0 .. (Cap - 1)
    BY <1>1, JobTypes
  <1>3. jobs \in Jobs
    <2>1. left \in SUBSET Emails /\ jobs \in [left -> 0 .. (Cap - 1)]
      BY <1>2
    <2> HIDE DEF left, jobs
    <2> QED
      BY <2>1 DEF Jobs
  <1>4. [step |-> "batch", jobs |-> jobs] \in Worker
    BY <1>3 DEF Worker
  <1>5. Asleep \in Worker
    BY DEF Worker
  <1>6. Rest(w, e) = IF left = {} THEN Asleep ELSE [step |-> "batch", jobs |-> jobs]
    BY DEF Rest
  <1>7. CASE left = {}
    <2>1. Rest(w, e) = Asleep
      BY <1>6, <1>7
    <2>2. Asleep.step = "asleep"
      BY DEF Asleep
    <2> QED
      BY <1>5, <2>1, <2>2
  <1>8. CASE left # {}
    <2>1. Rest(w, e) = [step |-> "batch", jobs |-> jobs]
      BY <1>6, <1>8
    <2> QED
      BY <1>4, <2>1
  <1> QED
    BY <1>7, <1>8

\* A mail in hand is one of its batch.
HandInBatch ==
    \A w \in Workers : InHand(w) => worker[w].email \in DOMAIN worker[w].jobs

\* The initial state is well typed.
LEMMA TypeInit == Init => TypeOK /\ HandInBatch
PROOF
  BY CapIsPositive
     DEF Init, TypeOK, HandInBatch, InHand, Statuses, Worker, Asleep

\* Every step keeps the types, and the mail in hand in its batch.
LEMMA TypeStep == TypeOK /\ HandInBatch /\ [Next]_vars => TypeOK' /\ HandInBatch'
PROOF
  <1> SUFFICES ASSUME TypeOK, HandInBatch, [Next]_vars
               PROVE  TypeOK' /\ HandInBatch'
    OBVIOUS
  <1>1. CASE UNCHANGED vars
    BY <1>1 DEF vars, TypeOK, HandInBatch, InHand
  <1>2. ASSUME NEW e \in Emails, Draft(e) \/ Enqueue(e) \/ Rollback(e)
        PROVE  TypeOK' /\ HandInBatch'
    <2>1. worker' = worker
      BY <1>2 DEF Draft, Enqueue, Rollback
    <2>2. status' \in [Emails -> Statuses]
      BY <1>2 DEF Draft, Enqueue, Rollback, TypeOK, Statuses
    <2>3. created' \in [Emails -> Nat] /\ clock' \in Nat
      BY <1>2 DEF Draft, Enqueue, Rollback, TypeOK
    <2> QED
      BY <1>2, <2>1, <2>2, <2>3
         DEF Draft, Enqueue, Rollback, TypeOK, HandInBatch, InHand
  <1>3. ASSUME NEW w \in Workers, Poll(w) PROVE TypeOK' /\ HandInBatch'
    <2>1. PICK S \in SUBSET Due :
            /\ worker' = [worker EXCEPT ![w] =
                 [step |-> "batch", jobs |-> [e \in S |-> attempts[e]]]]
            /\ waited' = [e \in Emails |-> IF e \in Due \ S THEN waited[e] + 1
                                           ELSE waited[e]]
      BY <1>3 DEF Poll
    <2>2. \A e \in S : e \in Emails /\ attempts[e] \in 0 .. (Cap - 1)
      BY CapIsPositive DEF Due, TypeOK
    <2>3. [e \in S |-> attempts[e]] \in Jobs
      BY <2>2 DEF Jobs
    <2>4. [step |-> "batch", jobs |-> [e \in S |-> attempts[e]]] \in Worker
      BY <2>3 DEF Worker
    <2>5. worker' \in [Workers -> Worker]
      BY <2>1, <2>4 DEF TypeOK
    <2>6. waited' \in [Emails -> Nat]
      BY <2>1 DEF TypeOK
    <2>7. HandInBatch'
      BY <2>1 DEF HandInBatch, InHand, TypeOK
    <2> QED
      BY <1>3, <2>5, <2>6, <2>7 DEF Poll, TypeOK
  <1>4. ASSUME NEW w \in Workers, Send(w) PROVE TypeOK' /\ HandInBatch'
    <2>1. PICK e \in Emails, outcome \in {"sent", "raised"} :
            /\ AtHead(worker[w].jobs, e)
            /\ worker' = [worker EXCEPT ![w] =
                 [step |-> outcome, jobs |-> worker[w].jobs, email |-> e]]
            /\ tries' = [tries EXCEPT ![e] = @ + 1]
            /\ \/ delivered' = delivered \cup {e}
               \/ outcome = "raised" /\ UNCHANGED delivered
      BY <1>4 DEF Send
    <2>2. worker[w].jobs \in Jobs
      BY <1>4, WorkerTypes DEF Send
    <2>3. [step |-> outcome, jobs |-> worker[w].jobs, email |-> e] \in Worker
      BY <2>2 DEF Worker
    <2>4. worker' \in [Workers -> Worker]
      BY <2>1, <2>3 DEF TypeOK
    <2>5. tries' \in [Emails -> Nat] /\ delivered' \subseteq Emails
      BY <2>1 DEF TypeOK
    <2>6. e \in DOMAIN worker[w].jobs
      BY <2>1 DEF AtHead
    <2>7. HandInBatch'
      BY <2>1, <2>6 DEF HandInBatch, InHand, TypeOK
    <2> QED
      BY <1>4, <2>4, <2>5, <2>7 DEF Send, TypeOK
  <1>5. ASSUME NEW w \in Workers, RecordSent(w) \/ RecordFailure(w)
        PROVE  TypeOK' /\ HandInBatch'
    <2> DEFINE e == worker[w].email
    <2>1. Busy(w) /\ e \in Emails /\ e \in DOMAIN worker[w].jobs
      BY <1>5, WorkerTypes DEF RecordSent, RecordFailure, InHand, HandInBatch
    <2>2. worker[w].jobs[e] \in 0 .. (Cap - 1)
      BY <2>1, WorkerTypes, JobTypes
    <2>3. worker' = [worker EXCEPT ![w] = Rest(w, e)]
      BY <1>5 DEF RecordSent, RecordFailure
    <2>4. Rest(w, e) \in Worker /\ Rest(w, e).step \in {"asleep", "batch"}
      BY <2>1, RestTypes
    <2>5. worker' \in [Workers -> Worker]
      BY <2>3, <2>4 DEF TypeOK
    <2>6. HandInBatch'
      BY <2>3, <2>4 DEF HandInBatch, InHand, TypeOK
    <2>7. status' \in [Emails -> Statuses] /\ attempts' \in [Emails -> 0 .. Cap]
      <3>1. CASE RecordSent(w)
        <4>1. Update(e, "sent", attempts[e])
          BY <3>1 DEF RecordSent
        <4> QED
          BY <2>1, <4>1 DEF Update, TypeOK, Statuses
      <3>2. CASE RecordFailure(w)
        <4>1. Update(e, IF worker[w].jobs[e] + 1 >= Cap THEN "failed" ELSE "pending",
                     worker[w].jobs[e] + 1)
          BY <3>2 DEF RecordFailure
        <4>2. worker[w].jobs[e] + 1 \in 0 .. Cap
          BY <2>2, CapIsPositive
        <4> QED
          BY <2>1, <4>1, <4>2 DEF Update, TypeOK, Statuses
      <3> QED
        BY <1>5, <3>1, <3>2
    <2> QED
      BY <1>5, <2>5, <2>6, <2>7 DEF RecordSent, RecordFailure, TypeOK
  <1>6. ASSUME NEW w \in Workers, Abort(w) PROVE TypeOK' /\ HandInBatch'
    BY <1>6 DEF Abort, TypeOK, HandInBatch, InHand, Worker, Asleep
  <1>7. ASSUME NEW cutoff \in 1 .. (MaxClock + 1), PruneDb(cutoff)
        PROVE  TypeOK' /\ HandInBatch'
    BY <1>7 DEF PruneDb, TypeOK, HandInBatch, InHand, Statuses
  <1> QED
    BY <1>1, <1>2, <1>3, <1>4, <1>5, <1>6, <1>7 DEF Next, Work

\* Every variable keeps its type.
THEOREM TypeCorrect == Safety => []TypeOK
PROOF
  BY TypeInit, TypeStep, PTL DEF Safety

-----------------------------------------------------------------------------
(* Any number of workers: a row never claims more than was done.           *)

\* Attempts read and written never exceed the sends begun; a mail about to be
\* called sent has arrived, and so has every mail that is.
AttemptsAreTries ==
    /\ \A e \in Emails : attempts[e] <= tries[e]
    /\ \A w \in Workers, e \in Emails :
         Holding(w, e) => worker[w].jobs[e] <= tries[e]
    /\ \A w \in Workers :
         worker[w].step = "raised" =>
           worker[w].jobs[worker[w].email] < tries[worker[w].email]

SentHasArrived ==
    \A w \in Workers : worker[w].step = "sent" => worker[w].email \in delivered

Recorded ==
    AttemptsAreTries /\ SentHasArrived /\ SentWasDelivered /\ GivenUpAfterCap
    /\ NoneStranded
    /\ \A e \in Emails : status[e] \in {"none", "draft"} => attempts[e] = 0

\* A worker's next value, at the worker that stepped and at the others.
LEMMA WorkerUpdate ==
    ASSUME TypeOK, NEW w \in Workers, NEW value,
           worker' = [worker EXCEPT ![w] = value], NEW v \in Workers
    PROVE  worker'[v] = IF v = w THEN value ELSE worker[v]
PROOF
  BY DEF TypeOK

\* Nothing is recorded at the start.
LEMMA RecordedInit == Init => Recorded
PROOF
  BY CapIsPositive
     DEF Init, Recorded, AttemptsAreTries, SentHasArrived, SentWasDelivered,
         GivenUpAfterCap, NoneStranded, Holding, Busy, Asleep

\* Every step keeps Recorded, whichever worker takes it.
LEMMA RecordedStep ==
    TypeOK /\ TypeOK' /\ HandInBatch /\ Recorded /\ [Next]_vars => Recorded'
PROOF
  <1> SUFFICES ASSUME TypeOK, TypeOK', HandInBatch, Recorded, [Next]_vars
               PROVE  Recorded'
    OBVIOUS
  <1> USE DEF Recorded
  <1>1. CASE UNCHANGED vars
    BY <1>1 DEF vars, AttemptsAreTries, SentHasArrived, SentWasDelivered,
                GivenUpAfterCap, NoneStranded, Holding, Busy
  <1>2. ASSUME NEW e \in Emails, Draft(e) \/ Enqueue(e) \/ Rollback(e)
        PROVE  Recorded'
    <2>1. UNCHANGED <<attempts, worker, tries, delivered>>
      BY <1>2 DEF Draft, Enqueue, Rollback
    <2>2. AttemptsAreTries' /\ SentHasArrived'
      BY <2>1 DEF AttemptsAreTries, SentHasArrived, Holding, Busy
    <2>3. /\ status[e] \in {"none", "draft"}
          /\ status'[e] \in {"none", "draft", "pending"}
          /\ \A f \in Emails \ {e} : status'[f] = status[f]
      BY <1>2 DEF Draft, Enqueue, Rollback, TypeOK
    <2>4. SentWasDelivered' /\ GivenUpAfterCap'
      BY <2>1, <2>3 DEF SentWasDelivered, GivenUpAfterCap
    <2>5. attempts[e] = 0
      BY <2>3
    <2>6. NoneStranded'
      BY <2>1, <2>3, <2>5, CapIsPositive DEF NoneStranded
    <2>7. \A f \in Emails : status'[f] \in {"none", "draft"} => attempts'[f] = 0
      BY <2>1, <2>3, <2>5
    <2> QED
      BY <2>2, <2>4, <2>6, <2>7
  <1>3. ASSUME NEW w \in Workers, Poll(w) PROVE Recorded'
    <2>1. PICK S \in SUBSET Due :
            worker' = [worker EXCEPT ![w] =
              [step |-> "batch", jobs |-> [e \in S |-> attempts[e]]]]
      BY <1>3 DEF Poll
    <2>2. UNCHANGED <<status, attempts, tries, delivered>>
      BY <1>3 DEF Poll
    <2>3. SentHasArrived'
      BY <2>1, <2>2, WorkerUpdate DEF SentHasArrived
    <2>4. ASSUME NEW v \in Workers, NEW e \in Emails, Holding(v, e)'
          PROVE  worker'[v].jobs[e] <= tries'[e]
      <3>1. CASE v = w
        <4>1. worker'[v] = [step |-> "batch", jobs |-> [f \in S |-> attempts[f]]]
          BY <2>1, <3>1 DEF TypeOK
        <4>2. e \in S
          BY <2>4, <4>1 DEF Holding
        <4>3. worker'[v].jobs[e] = attempts[e]
          BY <4>1, <4>2
        <4> QED
          BY <2>2, <4>3 DEF AttemptsAreTries
      <3>2. CASE v # w
        <4>1. worker'[v] = worker[v]
          BY <2>1, <3>2, WorkerUpdate
        <4> QED
          BY <2>2, <2>4, <4>1 DEF AttemptsAreTries, Holding, Busy
      <3> QED
        BY <3>1, <3>2
    <2>5. ASSUME NEW v \in Workers, worker'[v].step = "raised"
          PROVE  worker'[v].jobs[worker'[v].email] < tries'[worker'[v].email]
      BY <2>1, <2>2, <2>5, WorkerUpdate DEF AttemptsAreTries
    <2>6. AttemptsAreTries'
      BY <2>2, <2>4, <2>5 DEF AttemptsAreTries
    <2> QED
      BY <2>2, <2>3, <2>6 DEF SentWasDelivered, GivenUpAfterCap, NoneStranded
  <1>4. ASSUME NEW w \in Workers, Send(w) PROVE Recorded'
    <2>1. PICK e \in Emails, outcome \in {"sent", "raised"} :
            /\ AtHead(worker[w].jobs, e)
            /\ worker' = [worker EXCEPT ![w] =
                 [step |-> outcome, jobs |-> worker[w].jobs, email |-> e]]
            /\ tries' = [tries EXCEPT ![e] = @ + 1]
            /\ \/ delivered' = delivered \cup {e}
               \/ outcome = "raised" /\ UNCHANGED delivered
      BY <1>4 DEF Send
    <2>2. UNCHANGED <<status, attempts>>
      BY <1>4 DEF Send
    <2>3. \A f \in Emails : tries[f] <= tries'[f] /\ tries'[f] \in Nat
      BY <2>1 DEF TypeOK
    <2>4. tries'[e] = tries[e] + 1 /\ delivered \subseteq delivered'
      BY <2>1 DEF TypeOK
    <2>5. Busy(w) /\ e \in DOMAIN worker[w].jobs
      BY <1>4, <2>1, WorkerTypes DEF Send, AtHead
    <2>6. worker[w].jobs \in Jobs
      BY <2>5, WorkerTypes
    <2>7. worker[w].jobs[e] <= tries[e] /\ worker[w].jobs[e] \in Nat
      BY <2>5, <2>6, JobTypes DEF AttemptsAreTries, Holding
    <2>8. SentHasArrived'
      BY <2>1, <2>4, WorkerUpdate DEF SentHasArrived
    <2>9. ASSUME NEW v \in Workers, NEW f \in Emails, Holding(v, f)'
          PROVE  worker'[v].jobs[f] <= tries'[f]
      <3>1. worker'[v].jobs = worker[v].jobs /\ Busy(v)
        BY <2>1, <2>5, <2>9, WorkerUpdate DEF Holding, Busy
      <3>2. Holding(v, f)
        BY <2>9, <3>1 DEF Holding
      <3>3. worker[v].jobs[f] <= tries[f] /\ worker[v].jobs[f] \in Nat
        BY <3>1, <3>2, WorkerTypes, JobTypes DEF AttemptsAreTries, Holding
      <3> QED
        BY <2>3, <3>1, <3>3 DEF TypeOK
    <2>10. ASSUME NEW v \in Workers, worker'[v].step = "raised"
           PROVE  worker'[v].jobs[worker'[v].email] < tries'[worker'[v].email]
      <3>1. CASE v = w
        <4>1. worker'[v].jobs = worker[w].jobs /\ worker'[v].email = e
          <5>1. worker'[v] =
                  [step |-> outcome, jobs |-> worker[w].jobs, email |-> e]
            BY <2>1, <3>1 DEF TypeOK
          <5> QED
            BY <5>1
        <4>2. worker[w].jobs[e] < tries[e] + 1
          BY <2>7 DEF TypeOK
        <4>3. worker[w].jobs[e] < tries'[e]
          BY <2>4, <4>2
        <4>4. worker'[v].jobs[worker'[v].email] = worker[w].jobs[e]
          BY <4>1
        <4>5. tries'[worker'[v].email] = tries'[e]
          BY <4>1
        <4> QED
          BY <4>3, <4>4, <4>5
      <3>2. CASE v # w
        <4>1. worker'[v] = worker[v]
          BY <2>1, <3>2, WorkerUpdate
        <4>2. InHand(v)
          BY <2>10, <4>1 DEF InHand
        <4>3. worker[v].email \in Emails /\ worker[v].jobs \in Jobs
          BY <4>2, WorkerTypes
        <4>4. worker[v].jobs[worker[v].email] \in Nat
          BY <4>2, <4>3, JobTypes DEF HandInBatch
        <4>5. worker[v].jobs[worker[v].email] < tries[worker[v].email]
          BY <2>10, <4>1 DEF AttemptsAreTries
        <4> QED
          BY <2>3, <4>1, <4>3, <4>4, <4>5 DEF TypeOK
      <3> QED
        BY <3>1, <3>2
    <2>11. \A f \in Emails : attempts'[f] <= tries'[f]
      BY <2>2, <2>3 DEF AttemptsAreTries, TypeOK
    <2>12. AttemptsAreTries'
      BY <2>9, <2>10, <2>11 DEF AttemptsAreTries
    <2>13. SentWasDelivered' /\ NoneStranded'
      BY <2>2, <2>4 DEF SentWasDelivered, NoneStranded
    <2>14. GivenUpAfterCap'
      BY <2>2, <2>3, CapIsPositive DEF GivenUpAfterCap, TypeOK
    <2> QED
      BY <2>2, <2>8, <2>12, <2>13, <2>14
  <1>5. ASSUME NEW w \in Workers, RecordSent(w) \/ RecordFailure(w)
        PROVE  Recorded'
    <2> DEFINE e == worker[w].email
               n == worker[w].jobs[e] + 1
    <2>1. Busy(w) /\ e \in Emails /\ e \in DOMAIN worker[w].jobs
      BY <1>5, WorkerTypes DEF RecordSent, RecordFailure, InHand, HandInBatch
    <2>2. worker[w].jobs[e] \in 0 .. (Cap - 1)
      BY <2>1, WorkerTypes, JobTypes
    <2>3. /\ worker' = [worker EXCEPT ![w] = Rest(w, e)]
          /\ UNCHANGED <<tries, delivered>>
      BY <1>5 DEF RecordSent, RecordFailure
    <2>4. /\ Rest(w, e).step \in {"asleep", "batch"}
          /\ Rest(w, e) # Asleep =>
               /\ DOMAIN Rest(w, e).jobs = DOMAIN worker[w].jobs \ {e}
               /\ \A f \in DOMAIN worker[w].jobs \ {e} :
                    Rest(w, e).jobs[f] = worker[w].jobs[f]
      BY <2>1, RestTypes
    <2>5. \A v \in Workers :
            worker'[v] = IF v = w THEN Rest(w, e) ELSE worker[v]
      BY <2>3 DEF TypeOK
    <2>6. SentHasArrived'
      BY <2>3, <2>4, <2>5 DEF SentHasArrived
    <2>7. ASSUME NEW v \in Workers, NEW f \in Emails, Holding(v, f)'
          PROVE  worker'[v].jobs[f] <= tries'[f]
      <3>1. CASE v = w
        <4>1. worker'[v] = Rest(w, e)
          BY <2>5, <3>1
        <4>2. f \in DOMAIN Rest(w, e).jobs /\ Rest(w, e) # Asleep
          BY <2>7, <4>1 DEF Holding, Busy
        <4>3. f \in DOMAIN worker[w].jobs
              /\ Rest(w, e).jobs[f] = worker[w].jobs[f]
          BY <2>4, <4>2
        <4> QED
          BY <2>1, <2>3, <4>1, <4>3 DEF AttemptsAreTries, Holding
      <3>2. CASE v # w
        <4>1. worker'[v] = worker[v]
          BY <2>5, <3>2
        <4> QED
          BY <2>3, <2>7, <4>1 DEF AttemptsAreTries, Holding, Busy
      <3> QED
        BY <3>1, <3>2
    <2>8. ASSUME NEW v \in Workers, worker'[v].step = "raised"
          PROVE  worker'[v].jobs[worker'[v].email] < tries'[worker'[v].email]
      BY <2>3, <2>4, <2>5, <2>8 DEF AttemptsAreTries
    <2>9. \A f \in Emails \ {e} : status'[f] = status[f] /\ attempts'[f] = attempts[f]
      BY <1>5 DEF RecordSent, RecordFailure, Update, TypeOK
    <2>10. /\ attempts'[e] <= tries'[e]
           /\ status'[e] = "sent" => e \in delivered'
           /\ status'[e] = "failed" => tries'[e] >= Cap
           /\ status'[e] = "pending" => attempts'[e] < Cap
           /\ status'[e] \in {"none", "draft"} => attempts'[e] = 0
      <3>0. CASE status[e] = "gone"
        <4>1. status'[e] = "gone" /\ attempts'[e] = attempts[e]
          BY <1>5, <3>0 DEF RecordSent, RecordFailure, Update
        <4> QED
          BY <2>1, <2>3, <4>1 DEF AttemptsAreTries
      <3>1. CASE status[e] # "gone" /\ RecordSent(w)
        <4>1. status'[e] = "sent" /\ attempts'[e] = attempts[e]
          BY <2>1, <3>1 DEF RecordSent, Update, TypeOK
        <4>2. e \in delivered
          BY <3>1 DEF RecordSent, SentHasArrived
        <4> QED
          BY <2>1, <2>3, <4>1, <4>2 DEF AttemptsAreTries
      <3>2. CASE status[e] # "gone" /\ RecordFailure(w)
        <4>1. /\ status'[e] = IF n >= Cap THEN "failed" ELSE "pending"
              /\ attempts'[e] = n
          BY <2>1, <3>2 DEF RecordFailure, Update, TypeOK
        <4>2. worker[w].jobs[e] < tries[e]
          BY <3>2 DEF RecordFailure, AttemptsAreTries
        <4>3. n \in Nat /\ tries[e] \in Nat /\ n <= tries[e]
          BY <2>1, <2>2, <4>2 DEF TypeOK
        <4>4. tries'[e] = tries[e]
          BY <2>3
        <4> HIDE DEF n, e
        <4>5. CASE n >= Cap
          BY <4>1, <4>3, <4>4, <4>5, CapIsPositive
        <4>6. CASE ~(n >= Cap)
          BY <4>1, <4>3, <4>4, <4>6, CapIsPositive
        <4> QED
          BY <4>5, <4>6
      <3> QED
        BY <1>5, <3>0, <3>1, <3>2
    <2> HIDE DEF e
    <2>11. AttemptsAreTries'
      BY <2>3, <2>7, <2>8, <2>9, <2>10 DEF AttemptsAreTries
    <2>12. SentWasDelivered' /\ GivenUpAfterCap' /\ NoneStranded'
      BY <2>3, <2>9, <2>10 DEF SentWasDelivered, GivenUpAfterCap, NoneStranded
    <2> QED
      BY <2>6, <2>9, <2>10, <2>11, <2>12
  <1>6. ASSUME NEW w \in Workers, Abort(w) PROVE Recorded'
    <2>1. /\ worker' = [worker EXCEPT ![w] = Asleep]
          /\ UNCHANGED <<status, attempts, tries, delivered>>
      BY <1>6 DEF Abort
    <2>2. \A v \in Workers :
            worker'[v] = worker[v] \/ (worker'[v] = Asleep /\ Asleep.step = "asleep")
      BY <2>1 DEF TypeOK, Asleep
    <2>3. AttemptsAreTries' /\ SentHasArrived'
      BY <2>1, <2>2 DEF AttemptsAreTries, SentHasArrived, Holding, Busy
    <2> QED
      BY <2>1, <2>3 DEF SentWasDelivered, GivenUpAfterCap, NoneStranded
  <1>7. ASSUME NEW cutoff \in 1 .. (MaxClock + 1), PruneDb(cutoff)
        PROVE  Recorded'
    <2>1. UNCHANGED <<attempts, worker, tries, delivered>>
      BY <1>7 DEF PruneDb
    <2>2. \A e \in Emails : status'[e] = status[e] \/ status'[e] = "gone"
      BY <1>7 DEF PruneDb, TypeOK
    <2>3. AttemptsAreTries' /\ SentHasArrived'
      BY <2>1 DEF AttemptsAreTries, SentHasArrived, Holding, Busy
    <2> QED
      BY <2>1, <2>2, <2>3 DEF SentWasDelivered, GivenUpAfterCap, NoneStranded
  <1> QED
    BY <1>1, <1>2, <1>3, <1>4, <1>5, <1>6, <1>7 DEF Next, Work

\* Recorded is invariant.
LEMMA RecordedCorrect == Safety => []Recorded
PROOF
  <1>1. Safety => [](TypeOK /\ HandInBatch)
    BY TypeInit, TypeStep, PTL DEF Safety
  <1> QED
    BY <1>1, RecordedInit, RecordedStep, PTL DEF Safety

\* However many workers share the table, a mail it calls sent has arrived.
THEOREM SentMeansDelivered == Safety => []SentWasDelivered
PROOF
  <1>1. Recorded => SentWasDelivered
    BY DEF Recorded
  <1> QED
    BY <1>1, RecordedCorrect, PTL

\* However many workers share the table, a mail given up on was sent Cap times.
THEOREM GivenUpMeansTried == Safety => []GivenUpAfterCap
PROOF
  <1>1. Recorded => GivenUpAfterCap
    BY DEF Recorded
  <1> QED
    BY <1>1, RecordedCorrect, PTL

\* However many workers share the table, no mail is stranded.
THEOREM NothingIsStranded == Safety => []NoneStranded
PROOF
  <1>1. Recorded => NoneStranded
    BY DEF Recorded
  <1> QED
    BY <1>1, RecordedCorrect, PTL

-----------------------------------------------------------------------------
(* One worker: its batch is what the table still says.                     *)

OneWorker == \A v, w \in Workers : v = w

InHandOf(e) == \E w \in Workers : InHand(w) /\ worker[w].email = e

BatchIsCurrent ==
    \A w \in Workers, e \in Emails : Holding(w, e) =>
        status[e] = "pending" /\ attempts[e] = worker[w].jobs[e]

\* Every send of a mail was counted in its attempts, lost with its batch, or is
\* the one in hand; a mail that is settled used up at most Cap.
TriesAccounted ==
    \A e \in Emails :
        IF status[e] \in {"none", "draft", "pending"}
        THEN IF InHandOf(e) THEN tries[e] <= attempts[e] + lost + 1
                            ELSE tries[e] <= attempts[e] + lost
        ELSE tries[e] <= Cap + lost

Accounted == BatchIsCurrent /\ TriesAccounted

\* No mail has been tried at the start.
LEMMA AccountedInit == Init => Accounted
PROOF
  BY DEF Init, Accounted, BatchIsCurrent, TriesAccounted, InHandOf, InHand,
         Holding, Busy, Asleep

\* With one worker every step keeps the account of a mail's sends.
LEMMA AccountedStep ==
    ASSUME OneWorker
    PROVE  TypeOK /\ TypeOK' /\ HandInBatch /\ HandInBatch' /\ Accounted
             /\ [Next]_vars => Accounted'
PROOF
  <1> SUFFICES ASSUME TypeOK, TypeOK', HandInBatch, HandInBatch', Accounted,
                      [Next]_vars
               PROVE  Accounted'
    OBVIOUS
  <1> USE DEF Accounted
  <1>1. CASE UNCHANGED vars
    BY <1>1 DEF vars, BatchIsCurrent, TriesAccounted, InHandOf, InHand,
                Holding, Busy
  <1>2. ASSUME NEW e \in Emails, Draft(e) \/ Enqueue(e) \/ Rollback(e)
        PROVE  Accounted'
    <2>1. UNCHANGED <<attempts, worker, tries, lost>>
      BY <1>2 DEF Draft, Enqueue, Rollback
    <2>2. /\ status[e] \in {"none", "draft"}
          /\ status'[e] \in {"none", "draft", "pending"}
          /\ \A f \in Emails \ {e} : status'[f] = status[f]
      BY <1>2 DEF Draft, Enqueue, Rollback, TypeOK
    <2>3. BatchIsCurrent'
      BY <2>1, <2>2 DEF BatchIsCurrent, Holding, Busy
    <2>4. \A f \in Emails : InHandOf(f)' <=> InHandOf(f)
      BY <2>1 DEF InHandOf, InHand
    <2>5. TriesAccounted'
      BY <2>1, <2>2, <2>4 DEF TriesAccounted
    <2> QED
      BY <2>3, <2>5
  <1>3. ASSUME NEW w \in Workers, Poll(w) PROVE Accounted'
    <2>1. PICK S \in SUBSET Due :
            worker' = [worker EXCEPT ![w] =
              [step |-> "batch", jobs |-> [e \in S |-> attempts[e]]]]
      BY <1>3 DEF Poll
    <2>2. UNCHANGED <<status, attempts, tries, lost>> /\ worker[w] = Asleep
      BY <1>3 DEF Poll
    <2>3. worker'[w] = [step |-> "batch", jobs |-> [e \in S |-> attempts[e]]]
      BY <2>1 DEF TypeOK
    <2>4. ASSUME NEW e \in Emails, Holding(w, e)'
          PROVE  status'[e] = "pending" /\ attempts'[e] = worker'[w].jobs[e]
      <3>1. e \in S
        BY <2>3, <2>4 DEF Holding
      <3> QED
        BY <2>2, <2>3, <3>1 DEF Due
    <2>5. BatchIsCurrent'
      BY <2>4 DEF BatchIsCurrent, OneWorker
    <2>6. \A e \in Emails : ~InHandOf(e) /\ ~InHandOf(e)'
      BY <2>2, <2>3 DEF InHandOf, InHand, OneWorker, Asleep
    <2>7. TriesAccounted'
      BY <2>2, <2>6 DEF TriesAccounted
    <2> QED
      BY <2>5, <2>7
  <1>4. ASSUME NEW w \in Workers, Send(w) PROVE Accounted'
    <2>1. PICK e \in Emails, outcome \in {"sent", "raised"} :
            /\ AtHead(worker[w].jobs, e)
            /\ worker' = [worker EXCEPT ![w] =
                 [step |-> outcome, jobs |-> worker[w].jobs, email |-> e]]
            /\ tries' = [tries EXCEPT ![e] = @ + 1]
      BY <1>4 DEF Send
    <2>2. UNCHANGED <<status, attempts, lost>> /\ worker[w].step = "batch"
      BY <1>4 DEF Send
    <2>3. worker'[w] = [step |-> outcome, jobs |-> worker[w].jobs, email |-> e]
      BY <2>1 DEF TypeOK
    <2>4. Busy(w) /\ e \in DOMAIN worker[w].jobs
      BY <2>1, <2>2, WorkerTypes DEF AtHead
    <2>5. \A f \in Emails : Holding(w, f)' => Holding(w, f)
      BY <2>3, <2>4 DEF Holding
    <2>6. worker'[w].jobs = worker[w].jobs
      BY <2>3
    <2>7. BatchIsCurrent'
      BY <2>2, <2>5, <2>6 DEF BatchIsCurrent, OneWorker
    <2>8. \A f \in Emails : ~InHandOf(f)
      BY <2>2 DEF InHandOf, InHand, OneWorker
    <2>9. InHandOf(e)' /\ \A f \in Emails \ {e} : ~InHandOf(f)'
      BY <2>3 DEF InHandOf, InHand, OneWorker
    <2>10. status[e] = "pending"
      BY <2>4 DEF BatchIsCurrent, Holding
    <2>11. tries'[e] = tries[e] + 1 /\ \A f \in Emails \ {e} : tries'[f] = tries[f]
      BY <2>1 DEF TypeOK
    <2>12. tries[e] <= attempts[e] + lost
      BY <2>8, <2>10 DEF TriesAccounted
    <2>13. tries'[e] <= attempts'[e] + lost' + 1
      BY <2>2, <2>11, <2>12 DEF TypeOK
    <2>14. TriesAccounted'
      BY <2>2, <2>8, <2>9, <2>10, <2>11, <2>13 DEF TriesAccounted
    <2> QED
      BY <2>7, <2>14
  <1>5. ASSUME NEW w \in Workers, RecordSent(w) \/ RecordFailure(w)
        PROVE  Accounted'
    <2> DEFINE e == worker[w].email
               n == worker[w].jobs[e] + 1
    <2>1. Busy(w) /\ e \in Emails /\ e \in DOMAIN worker[w].jobs /\ InHand(w)
      BY <1>5, WorkerTypes DEF RecordSent, RecordFailure, InHand, HandInBatch
    <2>2. worker[w].jobs[e] \in 0 .. (Cap - 1)
      BY <2>1, WorkerTypes, JobTypes
    <2>3. /\ worker' = [worker EXCEPT ![w] = Rest(w, e)]
          /\ UNCHANGED <<tries, lost>>
      BY <1>5 DEF RecordSent, RecordFailure
    <2>4. /\ Rest(w, e).step \in {"asleep", "batch"}
          /\ Rest(w, e) # Asleep =>
               /\ DOMAIN Rest(w, e).jobs = DOMAIN worker[w].jobs \ {e}
               /\ \A f \in DOMAIN worker[w].jobs \ {e} :
                    Rest(w, e).jobs[f] = worker[w].jobs[f]
      BY <2>1, RestTypes
    <2>5. worker'[w] = Rest(w, e)
      BY <2>3 DEF TypeOK
    <2>6. \A f \in Emails \ {e} : status'[f] = status[f] /\ attempts'[f] = attempts[f]
      BY <1>5 DEF RecordSent, RecordFailure, Update, TypeOK
    <2>7. status[e] = "pending" /\ attempts[e] = worker[w].jobs[e]
      BY <2>1 DEF BatchIsCurrent, Holding
    <2>8. InHandOf(e) /\ \A f \in Emails \ {e} : ~InHandOf(f)
      BY <2>1 DEF InHandOf, OneWorker
    <2>9. \A f \in Emails : ~InHandOf(f)'
      BY <2>4, <2>5 DEF InHandOf, InHand, OneWorker
    <2>10. ASSUME NEW f \in Emails, Holding(w, f)'
           PROVE  f # e /\ Holding(w, f) /\ worker'[w].jobs[f] = worker[w].jobs[f]
      BY <2>1, <2>4, <2>5, <2>10 DEF Holding, Busy
    <2>11. BatchIsCurrent'
      <3>1. ASSUME NEW f \in Emails, Holding(w, f)'
            PROVE  status'[f] = "pending" /\ attempts'[f] = worker'[w].jobs[f]
        BY <2>6, <2>10, <3>1 DEF BatchIsCurrent
      <3> QED
        BY <3>1 DEF BatchIsCurrent, OneWorker
    <2>12. tries[e] <= attempts[e] + lost + 1
      BY <2>1, <2>7, <2>8 DEF TriesAccounted
    <2>13. tries[e] <= n + lost /\ n \in 0 .. Cap
      BY <2>1, <2>2, <2>7, <2>12, CapIsPositive DEF TypeOK
    <2>14. IF status'[e] \in {"none", "draft", "pending"}
           THEN tries[e] <= attempts'[e] + lost
           ELSE tries[e] <= Cap + lost
      <3>1. CASE RecordSent(w)
        <4>1. status'[e] = "sent"
          BY <2>1, <2>7, <3>1 DEF RecordSent, Update, TypeOK
        <4>2. tries[e] <= Cap + lost
          BY <2>1, <2>13, CapIsPositive DEF TypeOK
        <4> QED
          BY <4>1, <4>2
      <3>2. CASE RecordFailure(w)
        <4>1. /\ status'[e] = IF n >= Cap THEN "failed" ELSE "pending"
              /\ attempts'[e] = n
          BY <2>1, <2>7, <3>2 DEF RecordFailure, Update, TypeOK
        <4>2. tries[e] <= Cap + lost
          BY <2>1, <2>13, CapIsPositive DEF TypeOK
        <4> HIDE DEF n, e
        <4> QED
          BY <2>13, <4>1, <4>2
      <3> QED
        BY <1>5, <3>1, <3>2
    <2> HIDE DEF e
    <2>15. TriesAccounted'
      BY <2>3, <2>6, <2>8, <2>9, <2>14 DEF TriesAccounted
    <2> QED
      BY <2>11, <2>15
  <1>6. ASSUME NEW w \in Workers, Abort(w) PROVE Accounted'
    <2>1. /\ worker'[w] = Asleep /\ lost' = lost + 1
          /\ UNCHANGED <<status, attempts, tries>>
      BY <1>6 DEF Abort, TypeOK
    <2>2. BatchIsCurrent'
      BY <2>1 DEF BatchIsCurrent, Holding, Busy, OneWorker
    <2>3. \A e \in Emails : ~InHandOf(e)'
      BY <2>1 DEF InHandOf, InHand, OneWorker, Asleep
    <2>4. ASSUME NEW e \in Emails
          PROVE  IF status[e] \in {"none", "draft", "pending"}
                 THEN tries[e] <= attempts[e] + lost'
                 ELSE tries[e] <= Cap + lost'
      <3>1. attempts[e] \in Nat /\ tries[e] \in Nat /\ lost \in Nat
        BY DEF TypeOK
      <3>2. IF status[e] \in {"none", "draft", "pending"}
            THEN tries[e] <= attempts[e] + lost + 1
            ELSE tries[e] <= Cap + lost
        BY <3>1 DEF TriesAccounted
      <3> QED
        BY <2>1, <3>1, <3>2, CapIsPositive
    <2>5. TriesAccounted'
      BY <2>1, <2>3, <2>4 DEF TriesAccounted
    <2> QED
      BY <2>2, <2>5
  <1>7. ASSUME NEW cutoff \in 1 .. (MaxClock + 1), PruneDb(cutoff)
        PROVE  Accounted'
    <2>1. UNCHANGED <<attempts, worker, tries, lost>>
      BY <1>7 DEF PruneDb
    <2>2. \A e \in Emails :
            \/ status'[e] = status[e]
            \/ status[e] \in Terminal /\ status'[e] = "gone"
      BY <1>7 DEF PruneDb, TypeOK
    <2>3. BatchIsCurrent'
      BY <2>1, <2>2 DEF BatchIsCurrent, Holding, Busy, Terminal
    <2>4. \A e \in Emails : InHandOf(e)' <=> InHandOf(e)
      BY <2>1 DEF InHandOf, InHand
    <2>5. TriesAccounted'
      BY <2>1, <2>2, <2>4 DEF TriesAccounted, Terminal
    <2> QED
      BY <2>3, <2>5
  <1> QED
    BY <1>1, <1>2, <1>3, <1>4, <1>5, <1>6, <1>7 DEF Next, Work

\* With one worker Accounted is invariant.
LEMMA AccountedCorrect ==
    ASSUME OneWorker
    PROVE  Safety => []Accounted
PROOF
  <1>1. Safety => [](TypeOK /\ HandInBatch)
    BY TypeInit, TypeStep, PTL DEF Safety
  <1> QED
    BY <1>1, AccountedInit, AccountedStep, PTL DEF Safety

\* With one worker a mail is sent at most Cap times, and once more for every
\* batch lost to a stop or a database error.
THEOREM TriesAreBounded ==
    ASSUME OneWorker
    PROVE  Safety => []TriesBounded
PROOF
  <1>1. TypeOK /\ HandInBatch /\ Recorded /\ Accounted => TriesBounded
    <2> SUFFICES ASSUME TypeOK, HandInBatch, Recorded, Accounted,
                        NEW e \in Emails
                 PROVE  tries[e] <= Cap + lost
      BY DEF TriesBounded
    <2>1. status[e] \in Statuses /\ attempts[e] \in Nat /\ tries[e] \in Nat
          /\ lost \in Nat
      BY DEF TypeOK
    <2>2. CASE status[e] \in {"sent", "failed", "gone"}
      BY <2>2 DEF Accounted, TriesAccounted
    <2>3. CASE status[e] \in {"none", "draft", "pending"}
      <3>1. attempts[e] < Cap
        BY <2>3, CapIsPositive DEF Recorded, NoneStranded
      <3>2. tries[e] <= attempts[e] + lost + 1
        BY <2>1, <2>3 DEF Accounted, TriesAccounted
      <3> QED
        BY <2>1, <3>1, <3>2, CapIsPositive
    <2> QED
      BY <2>1, <2>2, <2>3 DEF Statuses
  <1>2. Safety => [](TypeOK /\ HandInBatch)
    BY TypeInit, TypeStep, PTL DEF Safety
  <1> QED
    BY <1>1, <1>2, RecordedCorrect, AccountedCorrect, PTL

-----------------------------------------------------------------------------
(* One worker: what a mail waited for.  Each poll that passes a mail over  *)
(* takes Batch attempts of mails queued no later; an attempt is taken at   *)
(* most once, unless the batch it was taken in is lost.                    *)

Held(f) == \E w \in Workers : Holding(w, f)

Ahead(e) == {f \in Emails \ {e} : created[f] <= created[e]}

\* Attempt k of a mail is used: made and recorded, in the batch, or no longer
\* wanted.
Used(f, k) ==
    \/ status[f] \in Terminal \cup {"gone"}
    \/ k < attempts[f]
    \/ k = attempts[f] /\ Held(f)

Spent(e) == {p \in Ahead(e) \X (0 .. (Cap - 1)) : Used(p[1], p[2])}

WaitsPaid ==
    \A e \in Emails : waited[e] * Batch <= Cardinality(Spent(e)) + (lost * Batch)

BatchFits ==
    \A w \in Workers : Busy(w) =>
        /\ IsFiniteSet(DOMAIN worker[w].jobs)
        /\ Cardinality(DOMAIN worker[w].jobs) <= Batch

Unwaited == \A e \in Emails : status[e] \in {"none", "draft"} => waited[e] = 0

Queued == WaitsPaid /\ BatchFits /\ Unwaited

\* The attempts of the mails ahead are finitely many, Cap for each.
LEMMA SpentIsFinite ==
    ASSUME NEW e \in Emails
    PROVE  /\ IsFiniteSet(Ahead(e)) /\ IsFiniteSet(Spent(e))
           /\ Cardinality(Ahead(e)) \in Nat /\ Cardinality(Spent(e)) \in Nat
           /\ Cardinality(Spent(e)) <= Cardinality(Ahead(e)) * Cap
PROOF
  <1> DEFINE tickets == Ahead(e) \X (0 .. (Cap - 1))
  <1>1. IsFiniteSet(Ahead(e))
    <2>1. Ahead(e) \in SUBSET Emails
      BY DEF Ahead
    <2> QED
      BY <2>1, EmailsAreFinite, FS_Subset
  <1>2. IsFiniteSet(0 .. (Cap - 1)) /\ Cardinality(0 .. (Cap - 1)) = Cap
    <2>1. 0 \in Int /\ Cap - 1 \in Int /\ ~(0 > Cap - 1) /\ Cap - 1 - 0 + 1 = Cap
      BY CapIsPositive
    <2> QED
      BY <2>1, FS_Interval
  <1>3. IsFiniteSet(tickets) /\ Cardinality(tickets) = Cardinality(Ahead(e)) * Cap
    BY <1>1, <1>2, FS_Product
  <1>4. Spent(e) \in SUBSET tickets
    BY DEF Spent
  <1> HIDE DEF tickets
  <1>5. IsFiniteSet(Spent(e)) /\ Cardinality(Spent(e)) <= Cardinality(tickets)
    BY <1>3, <1>4, FS_Subset
  <1> QED
    BY <1>1, <1>3, <1>5, FS_CardinalityType

\* The same in the state a step leads to.
LEMMA SpentStaysFinite ==
    ASSUME NEW e \in Emails
    PROVE  IsFiniteSet(Spent(e)') /\ Cardinality(Spent(e)') \in Nat
PROOF
  <1> DEFINE ahead == Ahead(e)'
             tickets == ahead \X (0 .. (Cap - 1))
  <1>1. ahead \in SUBSET Emails
    BY DEF Ahead
  <1>2. IsFiniteSet(ahead)
    BY <1>1, EmailsAreFinite, FS_Subset
  <1>3. IsFiniteSet(0 .. (Cap - 1))
    BY CapIsPositive, FS_Interval
  <1>4. Spent(e)' \in SUBSET tickets
    BY DEF Spent
  <1> HIDE DEF ahead
  <1>5. IsFiniteSet(tickets)
    BY <1>2, <1>3, FS_Product
  <1> HIDE DEF tickets
  <1> QED
    BY <1>4, <1>5, FS_Subset, FS_CardinalityType

\* As many attempts as mails: one of each.
LEMMA OneOfEach ==
    ASSUME NEW S, IsFiniteSet(S), NEW f
    PROVE  LET T == {<<s, f[s]>> : s \in S}
           IN  IsFiniteSet(T) /\ Cardinality(T) = Cardinality(S)
PROOF
  <1> DEFINE T == {<<s, f[s]>> : s \in S}
             pair == [s \in S |-> <<s, f[s]>>]
  <1>1. pair \in Bijection(S, T)
    BY DEF Bijection, Injection, Surjection, IsInjective
  <1>2. ExistsBijection(S, T)
    BY <1>1 DEF ExistsBijection
  <1> HIDE DEF T, pair
  <1>3. IsFiniteSet(T) /\ Cardinality(T) = Cardinality(S)
    BY <1>2, FS_Bijection
  <1> QED
    BY <1>3 DEF T

\* Paying one more poll's worth, or waiving it for a lost batch.
LEMMA OneMore ==
    ASSUME NEW n \in Nat, NEW l \in Nat
    PROVE  /\ (n + 1) * Batch = (n * Batch) + Batch
           /\ n * Batch \in Nat
           /\ n = 0 => n * Batch = 0
           /\ (l + 1) * Batch = (l * Batch) + Batch
           /\ l * Batch \in Nat
PROOF
  BY BatchIsPositive

\* If nothing spent is forgotten and no wait is added, the waits stay paid.
LEMMA PaidStays ==
    ASSUME TypeOK, WaitsPaid, NEW e \in Emails,
           waited'[e] = waited[e], lost' = lost, Spent(e) \subseteq Spent(e)'
    PROVE  waited'[e] * Batch <= Cardinality(Spent(e)') + (lost' * Batch)
PROOF
  <1> DEFINE before == Spent(e)
             after == Spent(e)'
             debt == waited[e] * Batch
             waiver == lost * Batch
  <1>1. IsFiniteSet(after) /\ Cardinality(after) \in Nat
    BY SpentStaysFinite
  <1>2. Cardinality(before) \in Nat
    BY SpentIsFinite
  <1>3. debt \in Nat /\ waiver \in Nat
    BY OneMore DEF TypeOK
  <1>4. debt <= Cardinality(before) + waiver
    BY DEF WaitsPaid
  <1>5. before \in SUBSET after
    OBVIOUS
  <1>6. waited'[e] * Batch = debt /\ lost' * Batch = waiver
    OBVIOUS
  <1> HIDE DEF before, after, debt, waiver
  <1>7. Cardinality(before) <= Cardinality(after)
    BY <1>1, <1>5, FS_Subset
  <1>8. debt <= Cardinality(after) + waiver
    BY <1>1, <1>2, <1>3, <1>4, <1>7
  <1> QED
    BY <1>6, <1>8 DEF after

\* Nothing waits at the start.
LEMMA QueuedInit == Init => Queued
PROOF
  <1> SUFFICES ASSUME Init PROVE Queued
    OBVIOUS
  <1>1. ASSUME NEW e \in Emails
        PROVE  waited[e] * Batch <= Cardinality(Spent(e)) + (lost * Batch)
    <2>1. waited[e] = 0 /\ lost = 0
      BY DEF Init
    <2>2. Cardinality(Spent(e)) \in Nat
      BY SpentIsFinite
    <2>3. waited[e] * Batch = 0 /\ lost * Batch = 0
      BY <2>1, BatchIsPositive
    <2> QED
      BY <2>2, <2>3
  <1>2. BatchFits /\ Unwaited
    BY DEF Init, BatchFits, Unwaited, Busy
  <1> QED
    BY <1>1, <1>2 DEF Queued, WaitsPaid

\* The single worker's next value is everyone's.
LEMMA OnlyWorker ==
    ASSUME OneWorker, TypeOK, NEW w \in Workers, NEW value,
           worker' = [worker EXCEPT ![w] = value]
    PROVE  \A v \in Workers : v = w /\ worker'[v] = value
PROOF
  BY DEF OneWorker, TypeOK

\* With one worker every step keeps the waits paid.
LEMMA QueuedStep ==
    ASSUME OneWorker
    PROVE  TypeOK /\ TypeOK' /\ HandInBatch /\ Recorded /\ Accounted /\ Queued
             /\ [Next]_vars => Queued'
PROOF
  <1> SUFFICES ASSUME TypeOK, TypeOK', HandInBatch, Recorded, Accounted, Queued,
                      [Next]_vars
               PROVE  Queued'
    OBVIOUS
  <1> USE DEF Queued
  <1>1. CASE UNCHANGED vars
    <2>1. ASSUME NEW e \in Emails PROVE Spent(e) \subseteq Spent(e)'
      BY <1>1 DEF vars, Spent, Ahead, Used, Held, Holding, Busy
    <2>2. WaitsPaid'
      BY <1>1, <2>1, PaidStays DEF vars, WaitsPaid
    <2> QED
      BY <1>1, <2>2 DEF vars, BatchFits, Unwaited, Busy
  <1>2. ASSUME NEW e \in Emails, Draft(e) \/ Enqueue(e) \/ Rollback(e)
        PROVE  Queued'
    <2>1. /\ UNCHANGED <<attempts, worker, waited, lost>>
          /\ status[e] \in {"none", "draft"}
          /\ \A f \in Emails \ {e} : status'[f] = status[f] /\ created'[f] = created[f]
          /\ status[e] = "draft" => created'[e] = created[e]
      BY <1>2 DEF Draft, Enqueue, Rollback, TypeOK
    <2>2. waited[e] = 0 /\ attempts[e] = 0
      BY <2>1 DEF Unwaited, Recorded
    <2>3. ~Held(e)
      BY <2>1 DEF Held, Accounted, BatchIsCurrent
    <2>4. \A k \in 0 .. (Cap - 1) : ~Used(e, k)
      BY <2>1, <2>2, <2>3 DEF Used, Terminal
    <2>5. \A f \in Emails : Held(f)' <=> Held(f)
      BY <2>1 DEF Held, Holding, Busy
    <2>6. ASSUME NEW f \in Emails \ {e} PROVE Spent(f) \subseteq Spent(f)'
      <3>1. ASSUME NEW g \in Ahead(f), NEW k \in 0 .. (Cap - 1), Used(g, k)
            PROVE  g \in Ahead(f)' /\ Used(g, k)'
        <4>1. g \in Emails /\ g # f /\ g # e
          BY <2>4, <3>1 DEF Ahead
        <4>2. g \in Ahead(f)'
          BY <2>1, <4>1 DEF Ahead
        <4>3. Used(g, k)'
          BY <2>1, <2>5, <3>1, <4>1 DEF Used
        <4> QED
          BY <4>2, <4>3
      <3> QED
        BY <3>1 DEF Spent
    <2>7. ASSUME NEW f \in Emails
          PROVE  waited'[f] * Batch <= Cardinality(Spent(f)') + (lost' * Batch)
      <3>1. CASE f = e
        <4>1. waited'[f] * Batch = 0
          BY <2>1, <2>2, <3>1, BatchIsPositive
        <4>2. Cardinality(Spent(f)') \in Nat
          BY SpentStaysFinite
        <4>3. lost' * Batch \in Nat
          BY OneMore DEF TypeOK
        <4> QED
          BY <4>1, <4>2, <4>3
      <3>2. CASE f # e
        BY <2>1, <2>6, <3>2, PaidStays
      <3> QED
        BY <3>1, <3>2
    <2>8. BatchFits'
      BY <2>1 DEF BatchFits, Busy
    <2>9. Unwaited'
      BY <2>1, <2>2 DEF Unwaited
    <2> QED
      BY <2>7, <2>8, <2>9 DEF WaitsPaid
  <1>3. ASSUME NEW w \in Workers, Poll(w) PROVE Queued'
    <2>1. PICK S \in SUBSET Due :
            /\ Oldest(S)
            /\ worker' = [worker EXCEPT ![w] =
                 [step |-> "batch", jobs |-> [e \in S |-> attempts[e]]]]
            /\ waited' = [e \in Emails |-> IF e \in Due \ S THEN waited[e] + 1
                                           ELSE waited[e]]
      BY <1>3 DEF Poll
    <2>2. UNCHANGED <<status, attempts, created, lost>> /\ worker[w] = Asleep
      BY <1>3 DEF Poll
    <2>3. PICK value :
            /\ value = [step |-> "batch", jobs |-> [e \in S |-> attempts[e]]]
            /\ \A v \in Workers : v = w /\ worker'[v] = value
      BY <2>1, OnlyWorker
    <2>4. value # Asleep /\ DOMAIN value.jobs = S
      BY <2>3 DEF Asleep
    <2>5. S \subseteq Emails /\ IsFiniteSet(S) /\ Cardinality(S) <= Batch
      <3>1. S \in SUBSET Emails
        BY DEF Due
      <3> QED
        BY <2>1, <3>1, EmailsAreFinite, FS_Subset DEF Oldest
    <2>6. BatchFits'
      BY <2>3, <2>4, <2>5 DEF BatchFits, Busy
    <2>7. Unwaited'
      BY <2>1, <2>2 DEF Unwaited, Due
    <2>8. \A f \in Emails : ~Held(f) /\ (Held(f)' <=> f \in S)
      BY <2>2, <2>3, <2>4 DEF Held, Holding, Busy
    <2>9. ASSUME NEW e \in Emails PROVE Spent(e) \subseteq Spent(e)'
      BY <2>2, <2>8 DEF Spent, Ahead, Used
    <2>10. ASSUME NEW e \in Due \ S
           PROVE  waited'[e] * Batch <= Cardinality(Spent(e)') + (lost' * Batch)
      <3> DEFINE T == {<<s, attempts[s]>> : s \in S}
                 before == Spent(e)
                 after == Spent(e)'
                 debt == waited[e] * Batch
                 waiver == lost * Batch
      <3>0. e \in Emails
        BY DEF Due
      <3>1. Cardinality(S) = Batch /\ \A s \in S : created[s] <= created[e]
        BY <2>1 DEF Oldest
      <3>2. \A s \in S : s \in Ahead(e) /\ s \in Ahead(e)'
        BY <2>2, <2>5, <3>0, <3>1 DEF Ahead
      <3>3. \A s \in S : attempts[s] \in 0 .. (Cap - 1) /\ status[s] = "pending"
        BY CapIsPositive DEF Due, TypeOK
      <3>4. \A s \in S, k \in Nat : k = attempts[s] => Used(s, k)' /\ ~Used(s, k)
        BY <2>2, <2>5, <2>8, <3>3 DEF Used, Terminal, TypeOK
      <3>5. T \subseteq after /\ T \cap before = {}
        <4>1. ASSUME NEW s \in S
              PROVE  <<s, attempts[s]>> \in after /\ <<s, attempts[s]>> \notin before
          <5>1. PICK k \in Nat : k = attempts[s]
            BY <3>3
          <5>2. Used(s, k)' /\ ~Used(s, k) /\ k \in 0 .. (Cap - 1)
            BY <3>3, <3>4, <5>1
          <5>3. <<s, k>> \in after /\ <<s, k>> \notin before
            BY <3>2, <5>2 DEF Spent
          <5> QED
            BY <5>1, <5>3
        <4> HIDE DEF before, after
        <4> QED
          BY <4>1
      <3>6. IsFiniteSet(T) /\ Cardinality(T) = Batch
        BY <2>5, <3>1, OneOfEach
      <3>7. IsFiniteSet(before) /\ Cardinality(before) \in Nat
        BY <3>0, SpentIsFinite
      <3>8. IsFiniteSet(after) /\ Cardinality(after) \in Nat
        BY <3>0, SpentStaysFinite
      <3>9. before \subseteq after
        BY <2>9, <3>0
      <3>10. debt \in Nat /\ waiver \in Nat /\ debt <= Cardinality(before) + waiver
        BY <3>0, OneMore DEF TypeOK, WaitsPaid
      <3>11. waited'[e] * Batch = debt + Batch /\ lost' * Batch = waiver
        <4>1. waited'[e] = waited[e] + 1 /\ waited[e] \in Nat
          BY <2>1, <3>0 DEF TypeOK
        <4> QED
          BY <2>2, <4>1, OneMore
      <3> HIDE DEF T, before, after, debt, waiver
      <3>12. Cardinality(before \cup T) = Cardinality(before) + Batch
        <4>1. Cardinality(before \cap T) = 0
          BY <3>5, FS_EmptySet
        <4> QED
          BY <3>6, <3>7, <4>1, FS_Union, BatchIsPositive
      <3>13. Cardinality(before \cup T) <= Cardinality(after)
        <4>1. before \cup T \in SUBSET after
          BY <3>5, <3>9
        <4> QED
          BY <3>8, <4>1, FS_Subset
      <3>14. debt + Batch <= Cardinality(after) + waiver
        BY <3>7, <3>8, <3>10, <3>12, <3>13, BatchIsPositive
      <3> QED
        BY <3>11, <3>14 DEF after
    <2>11. ASSUME NEW e \in Emails, e \notin Due \ S
           PROVE  waited'[e] * Batch <= Cardinality(Spent(e)') + (lost' * Batch)
      <3>1. waited'[e] = waited[e]
        BY <2>1, <2>11
      <3> QED
        BY <2>2, <2>9, <3>1, PaidStays
    <2> QED
      BY <2>6, <2>7, <2>10, <2>11 DEF WaitsPaid
  <1>4. ASSUME NEW w \in Workers, Send(w) PROVE Queued'
    <2>1. PICK e \in Emails, outcome \in {"sent", "raised"} :
            worker' = [worker EXCEPT ![w] =
              [step |-> outcome, jobs |-> worker[w].jobs, email |-> e]]
      BY <1>4 DEF Send
    <2>2. PICK value :
            /\ value = [step |-> outcome, jobs |-> worker[w].jobs, email |-> e]
            /\ \A v \in Workers : v = w /\ worker'[v] = value
      BY <2>1, OnlyWorker
    <2>3. /\ UNCHANGED <<status, attempts, created, waited, lost>>
          /\ Busy(w) /\ value # Asleep /\ value.jobs = worker[w].jobs
      BY <1>4, <2>2 DEF Send, Busy, Asleep
    <2>4. \A f \in Emails : Held(f)' <=> Held(f)
      BY <2>2, <2>3 DEF Held, Holding, Busy
    <2>5. ASSUME NEW f \in Emails PROVE Spent(f) \subseteq Spent(f)'
      BY <2>3, <2>4 DEF Spent, Ahead, Used
    <2>6. WaitsPaid'
      BY <2>3, <2>5, PaidStays DEF WaitsPaid
    <2>7. BatchFits'
      BY <2>2, <2>3 DEF BatchFits, Busy
    <2> QED
      BY <2>3, <2>6, <2>7 DEF Unwaited
  <1>5. ASSUME NEW w \in Workers, RecordSent(w) \/ RecordFailure(w)
        PROVE  Queued'
    <2>1. PICK e : e = worker[w].email
      OBVIOUS
    <2>2. Busy(w) /\ e \in Emails /\ e \in DOMAIN worker[w].jobs
      BY <1>5, <2>1, WorkerTypes DEF RecordSent, RecordFailure, InHand, HandInBatch
    <2>3. /\ worker' = [worker EXCEPT ![w] = Rest(w, e)]
          /\ UNCHANGED <<created, waited, lost>>
      BY <1>5, <2>1 DEF RecordSent, RecordFailure
    <2>4. PICK value :
            /\ value = Rest(w, e)
            /\ \A v \in Workers : v = w /\ worker'[v] = value
      BY <2>3, OnlyWorker
    <2>5. value # Asleep => DOMAIN value.jobs = DOMAIN worker[w].jobs \ {e}
      BY <2>2, <2>4, RestTypes
    <2>6. value = Asleep => DOMAIN worker[w].jobs \ {e} = {}
      BY <2>4 DEF Rest, Asleep
    <2>7. \A f \in Emails \ {e} : Held(f)' <=> Held(f)
      BY <2>2, <2>4, <2>5, <2>6 DEF Held, Holding, Busy
    <2>8. \A f \in Emails \ {e} : status'[f] = status[f] /\ attempts'[f] = attempts[f]
      BY <1>5, <2>1 DEF RecordSent, RecordFailure, Update, TypeOK
    <2>9. status[e] = "pending" /\ attempts[e] = worker[w].jobs[e]
          /\ attempts[e] \in Nat
      BY <2>2 DEF Accounted, BatchIsCurrent, Holding, TypeOK
    <2>10. status'[e] \in Terminal \/ attempts'[e] = attempts[e] + 1
      <3>1. CASE RecordSent(w)
        BY <2>1, <2>2, <2>9, <3>1 DEF RecordSent, Update, TypeOK, Terminal
      <3>2. CASE RecordFailure(w)
        BY <2>1, <2>2, <2>9, <3>2 DEF RecordFailure, Update, TypeOK
      <3> QED
        BY <1>5, <3>1, <3>2
    <2>11. \A k \in 0 .. (Cap - 1) : Used(e, k) => Used(e, k)'
      BY <2>9, <2>10, CapIsPositive DEF Used, Terminal
    <2>12. ASSUME NEW f \in Emails \ {e}, NEW k PROVE Used(f, k) => Used(f, k)'
      BY <2>7, <2>8 DEF Used
    <2>13. ASSUME NEW f \in Emails PROVE Spent(f) \subseteq Spent(f)'
      BY <2>3, <2>11, <2>12 DEF Spent, Ahead
    <2>14. WaitsPaid'
      BY <2>3, <2>13, PaidStays DEF WaitsPaid
    <2>15. BatchFits'
      <3>1. PICK jobs : jobs = DOMAIN worker[w].jobs
        OBVIOUS
      <3>2. IsFiniteSet(jobs) /\ Cardinality(jobs) <= Batch
        BY <2>2, <3>1 DEF BatchFits
      <3>3. jobs \ {e} \in SUBSET jobs
        OBVIOUS
      <3>4. IsFiniteSet(jobs \ {e}) /\ Cardinality(jobs \ {e}) <= Cardinality(jobs)
        BY <3>2, <3>3, FS_Subset
      <3>5. Cardinality(jobs) \in Nat /\ Cardinality(jobs \ {e}) \in Nat
        BY <3>2, <3>4, FS_CardinalityType
      <3>6. Cardinality(jobs \ {e}) <= Batch
        BY <3>2, <3>4, <3>5, BatchIsPositive
      <3> QED
        BY <2>4, <2>5, <3>1, <3>4, <3>6 DEF BatchFits, Busy
    <2>16. Unwaited'
      <3>1. status'[e] \notin {"none", "draft"}
        BY <1>5, <2>1, <2>2, <2>9
           DEF RecordSent, RecordFailure, Update, TypeOK
      <3> QED
        BY <2>3, <2>8, <3>1 DEF Unwaited
    <2> QED
      BY <2>14, <2>15, <2>16
  <1>6. ASSUME NEW w \in Workers, Abort(w) PROVE Queued'
    <2>1. /\ worker' = [worker EXCEPT ![w] = Asleep] /\ Busy(w)
          /\ UNCHANGED <<status, attempts, created, waited>>
          /\ lost' = lost + 1
      BY <1>6 DEF Abort, Busy
    <2>2. \A v \in Workers : v = w /\ worker'[v] = Asleep
      BY <2>1, OnlyWorker
    <2>3. PICK S : S = DOMAIN worker[w].jobs
      OBVIOUS
    <2>4. IsFiniteSet(S) /\ Cardinality(S) <= Batch
      BY <2>1, <2>3 DEF BatchFits
    <2>5. \A f \in Emails : Held(f) => f \in S
      BY <2>2, <2>3 DEF Held, Holding
    <2>6. ASSUME NEW e \in Emails
          PROVE  waited'[e] * Batch <= Cardinality(Spent(e)') + (lost' * Batch)
      <3> DEFINE T == {<<s, attempts[s]>> : s \in S}
                 before == Spent(e)
                 after == Spent(e)'
                 debt == waited[e] * Batch
                 waiver == lost * Batch
      <3>1. before \subseteq after \cup T
        <4>1. ASSUME NEW f \in Ahead(e), NEW k \in 0 .. (Cap - 1), Used(f, k)
              PROVE  (f \in Ahead(e)' /\ Used(f, k)') \/ <<f, k>> \in T
          <5>1. f \in Emails /\ f \in Ahead(e)'
            BY <2>1 DEF Ahead
          <5>2. CASE k = attempts[f] /\ Held(f)
            BY <2>5, <5>1, <5>2
          <5>3. CASE status[f] \in Terminal \cup {"gone"} \/ k < attempts[f]
            BY <2>1, <5>1, <5>3 DEF Used
          <5> QED
            BY <4>1, <5>2, <5>3 DEF Used
        <4> HIDE DEF T
        <4> QED
          BY <4>1 DEF Spent
      <3>2. IsFiniteSet(T) /\ Cardinality(T) = Cardinality(S)
        BY <2>4, OneOfEach
      <3>3. Cardinality(before) \in Nat
        BY SpentIsFinite
      <3>4. IsFiniteSet(after) /\ Cardinality(after) \in Nat
        BY SpentStaysFinite
      <3>5. debt \in Nat /\ waiver \in Nat /\ debt <= Cardinality(before) + waiver
        BY OneMore DEF TypeOK, WaitsPaid
      <3>6. waited'[e] * Batch = debt /\ lost' * Batch = waiver + Batch
        BY <2>1, OneMore DEF TypeOK
      <3> HIDE DEF T, before, after, debt, waiver
      <3>7. /\ IsFiniteSet(after \cup T)
            /\ Cardinality(after \cup T)
                 = Cardinality(after) + Cardinality(T) - Cardinality(after \cap T)
        BY <3>2, <3>4, FS_Union
      <3>8. Cardinality(after \cap T) \in Nat /\ Cardinality(T) \in Nat
        BY <3>2, <3>4, FS_Intersection, FS_CardinalityType
      <3>9. Cardinality(before) <= Cardinality(after \cup T)
        <4>1. before \in SUBSET (after \cup T)
          BY <3>1
        <4> QED
          BY <3>7, <4>1, FS_Subset
      <3>10. Cardinality(T) <= Batch
        BY <2>4, <3>2
      <3>11. debt <= Cardinality(after) + (waiver + Batch)
        BY <3>3, <3>4, <3>5, <3>7, <3>8, <3>9, <3>10, BatchIsPositive
      <3> QED
        BY <3>6, <3>11 DEF after
    <2>7. BatchFits' /\ Unwaited'
      BY <2>1, <2>2 DEF BatchFits, Unwaited, Busy
    <2> QED
      BY <2>6, <2>7 DEF WaitsPaid
  <1>7. ASSUME NEW cutoff \in 1 .. (MaxClock + 1), PruneDb(cutoff)
        PROVE  Queued'
    <2>1. UNCHANGED <<attempts, created, worker, waited, lost>>
      BY <1>7 DEF PruneDb
    <2>2. \A e \in Emails :
            \/ status'[e] = status[e]
            \/ status[e] \in Terminal /\ status'[e] = "gone"
      BY <1>7 DEF PruneDb, TypeOK
    <2>3. \A f \in Emails : Held(f)' <=> Held(f)
      BY <2>1 DEF Held, Holding, Busy
    <2>4. \A f \in Emails, k \in 0 .. (Cap - 1) : Used(f, k) => Used(f, k)'
      BY <2>1, <2>2, <2>3 DEF Used
    <2>5. ASSUME NEW f \in Emails PROVE Spent(f) \subseteq Spent(f)'
      BY <2>1, <2>4 DEF Spent, Ahead
    <2>6. WaitsPaid'
      BY <2>1, <2>5, PaidStays DEF WaitsPaid
    <2> QED
      BY <2>1, <2>2, <2>6 DEF BatchFits, Unwaited, Busy
  <1> QED
    BY <1>1, <1>2, <1>3, <1>4, <1>5, <1>6, <1>7 DEF Next, Work

\* With one worker a mail is passed over only while mails queued no later use
\* up their attempts, or a batch is lost: mail that keeps failing starves none.
THEOREM NoMailIsStarved ==
    ASSUME OneWorker
    PROVE  Safety => []NotStarved
PROOF
  <1>1. TypeOK /\ Queued => NotStarved
    <2> SUFFICES ASSUME TypeOK, Queued, NEW e \in Emails
                 PROVE  waited[e] * Batch
                          <= (Cardinality(Ahead(e)) * Cap) + (lost * Batch)
      BY DEF NotStarved, Ahead
    <2> DEFINE bound == Cardinality(Ahead(e)) * Cap
               debt == waited[e] * Batch
               waiver == lost * Batch
    <2>1. Cardinality(Spent(e)) \in Nat /\ Cardinality(Spent(e)) <= bound
      BY SpentIsFinite
    <2>2. bound \in Nat
      BY SpentIsFinite, CapIsPositive
    <2>3. debt \in Nat /\ waiver \in Nat /\ debt <= Cardinality(Spent(e)) + waiver
      BY OneMore DEF TypeOK, Queued, WaitsPaid
    <2> HIDE DEF bound, debt, waiver
    <2>4. debt <= bound + waiver
      BY <2>1, <2>2, <2>3
    <2> QED
      BY <2>4 DEF bound, debt, waiver
  <1>2. Safety => [](TypeOK /\ HandInBatch)
    BY TypeInit, TypeStep, PTL DEF Safety
  <1>3. Safety => []Queued
    BY <1>2, RecordedCorrect, AccountedCorrect, QueuedInit, QueuedStep, PTL
       DEF Safety
  <1> QED
    BY <1>1, <1>2, <1>3, PTL

-----------------------------------------------------------------------------
(* One worker: the queue implements Outbox.                                *)

\* With one worker every step of the queue is a step of Outbox, or none.
THEOREM QueueImplementsOutbox ==
    ASSUME OneWorker
    PROVE  Safety => Promise!Safety
PROOF
  <1> DEFINE verdict == [e \in Emails |-> Verdict(e)]
  <1>1. Init => Promise!Init
    BY DEF Init, Promise!Init, Verdict
  <1>2. TypeOK /\ TypeOK' /\ HandInBatch /\ Recorded /\ Accounted /\ [Next]_vars
          => [Promise!Next]_(Promise!vars)
    <2> SUFFICES ASSUME TypeOK, TypeOK', HandInBatch, Recorded, Accounted,
                        [Next]_vars
                 PROVE  Promise!Next \/ (verdict' = verdict /\ UNCHANGED delivered)
      BY DEF Promise!vars
    <2>0. ASSUME UNCHANGED status PROVE verdict' = verdict
      BY <2>0 DEF Verdict
    <2>1. CASE UNCHANGED vars
      BY <2>0, <2>1 DEF vars
    <2>2. ASSUME NEW e \in Emails, Draft(e) \/ Rollback(e)
          PROVE  verdict' = verdict /\ UNCHANGED delivered
      <3>1. \A f \in Emails : \/ status'[f] = status[f]
                              \/ {status[f], status'[f]} \subseteq {"none", "draft"}
        BY <2>2 DEF Draft, Rollback, TypeOK
      <3>2. \A f \in Emails : Verdict(f)' = Verdict(f)
        BY <3>1 DEF Verdict, Terminal
      <3> QED
        BY <2>2, <3>2 DEF Draft, Rollback
    <2>3. ASSUME NEW e \in Emails, Enqueue(e) PROVE Promise!Queue(e)
      <3>1. Verdict(e) = "none" /\ Verdict(e)' = "queued"
        BY <2>3 DEF Enqueue, Verdict, TypeOK, Terminal
      <3>2. \A f \in Emails \ {e} : Verdict(f)' = Verdict(f)
        BY <2>3 DEF Enqueue, Verdict, TypeOK
      <3> QED
        BY <2>3, <3>1, <3>2 DEF Enqueue, Promise!Queue
    <2>4. ASSUME NEW w \in Workers, Poll(w) \/ Abort(w)
          PROVE  verdict' = verdict /\ UNCHANGED delivered
      BY <2>0, <2>4 DEF Poll, Abort
    <2>5. ASSUME NEW w \in Workers, Send(w)
          PROVE  Promise!Next \/ (verdict' = verdict /\ UNCHANGED delivered)
      <3>1. PICK e \in Emails :
              /\ AtHead(worker[w].jobs, e)
              /\ delivered' = delivered \cup {e} \/ UNCHANGED delivered
        BY <2>5 DEF Send
      <3>2. Holding(w, e)
        BY <2>5, <3>1, WorkerTypes DEF Send, AtHead, Holding
      <3>3. Verdict(e) = "queued"
        BY <3>2 DEF Accounted, BatchIsCurrent, Verdict, Terminal
      <3>4. verdict' = verdict
        BY <2>0, <2>5 DEF Send
      <3>5. CASE UNCHANGED delivered
        BY <3>4, <3>5
      <3>6. CASE delivered' = delivered \cup {e}
        BY <3>3, <3>4, <3>6 DEF Promise!Next, Promise!Deliver
      <3> QED
        BY <3>1, <3>5, <3>6
    <2>6. ASSUME NEW w \in Workers, RecordSent(w) \/ RecordFailure(w)
          PROVE  Promise!Next \/ (verdict' = verdict /\ UNCHANGED delivered)
      <3>1. PICK e \in Emails : e = worker[w].email /\ Holding(w, e)
        BY <2>6, WorkerTypes
           DEF RecordSent, RecordFailure, InHand, HandInBatch, Holding
      <3>2. status[e] = "pending"
        BY <3>1 DEF Accounted, BatchIsCurrent
      <3>3. UNCHANGED delivered /\ \A f \in Emails \ {e} : status'[f] = status[f]
        BY <2>6, <3>1 DEF RecordSent, RecordFailure, Update, TypeOK
      <3>4. \/ status'[e] = "sent" /\ e \in delivered
            \/ status'[e] \in {"failed", "pending"}
        <4>1. CASE RecordSent(w)
          BY <3>1, <3>2, <4>1
             DEF RecordSent, Update, TypeOK, Recorded, SentHasArrived
        <4>2. CASE RecordFailure(w)
          BY <3>1, <3>2, <4>2 DEF RecordFailure, Update, TypeOK
        <4> QED
          BY <2>6, <4>1, <4>2
      <3>5. Verdict(e) = "queued"
        BY <3>2 DEF Verdict, Terminal
      <3>6. \A f \in Emails \ {e} : Verdict(f)' = Verdict(f)
        BY <3>3 DEF Verdict
      <3>7. CASE status'[e] = "pending"
        <4>1. Verdict(e)' = "queued"
          BY <3>7 DEF Verdict, Terminal
        <4> QED
          BY <3>1, <3>3, <3>5, <3>6, <4>1
      <3>8. CASE status'[e] \in Terminal
        <4>1. Verdict(e)' = status'[e]
          BY <3>8 DEF Verdict, Terminal
        <4>2. verdict' = [verdict EXCEPT ![e] = status'[e]]
          BY <3>1, <3>6, <4>1
        <4>3. Promise!Settle(e)
          BY <3>1, <3>3, <3>4, <3>5, <3>8, <4>2 DEF Promise!Settle, Terminal
        <4> QED
          BY <3>1, <4>3 DEF Promise!Next
      <3> QED
        BY <3>4, <3>7, <3>8 DEF Terminal
    <2>7. ASSUME NEW cutoff \in 1 .. (MaxClock + 1), PruneDb(cutoff)
          PROVE  Promise!Next
      <3> DEFINE old == {e \in Emails : status[e] \in Terminal /\ created[e] < cutoff}
      <3>1. /\ status' = [e \in Emails |-> IF e \in old THEN "gone" ELSE status[e]]
            /\ UNCHANGED delivered
        BY <2>7 DEF PruneDb
      <3>2. \A e \in old : Verdict(e) \in {"sent", "failed"}
        BY DEF Verdict, Terminal
      <3>3. \A e \in old : Verdict(e)' = "forgotten"
        BY <3>1 DEF Verdict, Terminal
      <3>4. \A e \in Emails \ old : Verdict(e)' = Verdict(e)
        BY <3>1 DEF Verdict
      <3>5. old \in SUBSET Emails
        OBVIOUS
      <3> HIDE DEF old
      <3>6. Promise!Forget(old)
        BY <3>1, <3>2, <3>3, <3>4, <3>5 DEF Promise!Forget
      <3> QED
        BY <3>5, <3>6 DEF Promise!Next
    <2> HIDE DEF verdict
    <2>8. ASSUME NEW e \in Emails, Promise!Queue(e) PROVE Promise!Next
      BY <2>8 DEF Promise!Next
    <2> QED
      BY <2>1, <2>2, <2>3, <2>4, <2>5, <2>6, <2>7, <2>8 DEF Next, Work
  <1>3. Safety => [](TypeOK /\ HandInBatch)
    BY TypeInit, TypeStep, PTL DEF Safety
  <1> QED
    BY <1>1, <1>2, <1>3, RecordedCorrect, AccountedCorrect, PTL
       DEF Safety, Promise!Safety
=============================================================================
