------------------------------- MODULE Outbox -------------------------------
(***************************************************************************)
(* What the email queue promises the handlers that write to it: a mail     *)
(* that was queued is delivered at least once and then called sent, or is  *)
(* given up on; that verdict is final; and only mail with a verdict is     *)
(* ever forgotten.  It says nothing of tables, workers, batches or tries.  *)
(***************************************************************************)
CONSTANT Emails

VARIABLES
    verdict,        \* "none" (not queued), "queued", "sent", "failed", "forgotten"
    arrived         \* mails that reached their recipient at least once

vars == <<verdict, arrived>>

Init ==
    /\ verdict = [e \in Emails |-> "none"]
    /\ arrived = {}

Queue(e) ==
    /\ verdict[e] = "none"
    /\ verdict' = [verdict EXCEPT ![e] = "queued"]
    /\ UNCHANGED arrived

Deliver(e) ==
    /\ verdict[e] = "queued"
    /\ arrived' = arrived \cup {e}
    /\ UNCHANGED verdict

Settle(e) ==
    /\ verdict[e] = "queued"
    /\ \/ e \in arrived /\ verdict' = [verdict EXCEPT ![e] = "sent"]
       \/ verdict' = [verdict EXCEPT ![e] = "failed"]
    /\ UNCHANGED arrived

Forget(old) ==
    /\ \A e \in old : verdict[e] \in {"sent", "failed"}
    /\ verdict' = [e \in Emails |-> IF e \in old THEN "forgotten" ELSE verdict[e]]
    /\ UNCHANGED arrived

Next ==
    \/ \E e \in Emails : Queue(e) \/ Deliver(e) \/ Settle(e)
    \/ \E old \in SUBSET Emails : Forget(old)

Safety == Init /\ [][Next]_vars

Spec == Safety /\ \A e \in Emails : WF_vars(Settle(e))
=============================================================================
