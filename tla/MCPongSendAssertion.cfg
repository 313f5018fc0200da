SPECIFICATION Spec
CONSTANTS
    NCONNECTIONS = 2
    Address = {a1, a2}
    NULL = NULL
    Thread = {t1, t2, t3}
    Nobody = Nobody
    MAXTHREADS = 2
    Width = 3
    Height = 2
INVARIANTS SendAssertion
