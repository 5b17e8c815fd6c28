\* One worker, three mails, a batch lost at any point; the queue implements Outbox.
CONSTANTS
    Emails = {e1, e2, e3}
    Workers = {w1}
    Batch = 2
    Cap = 2
    MaxLost = 1
    MaxClock = 1
SPECIFICATION Spec
\* All mail may be sent and dropped: then nothing is left to do.
CHECK_DEADLOCK FALSE
INVARIANTS
    GivenUpAfterCap
    TriesBounded
    NoneStranded
    NotStarved
PROPERTIES
    KeepsPromise
