\* A request and a message without response, any number of threads, one more
\* call of start().
SPECIFICATION LiveSpec
CONSTANTS
    r1 = r1  m1 = m1
    Requests = {r1}
    Notes = {m1}
    MaxConnects = 2
    OneThread = FALSE
CHECK_DEADLOCK FALSE
INVARIANTS ResumedOnce NoLostMessage HonestResult
PROPERTIES RequestsReturn StreamEnds
