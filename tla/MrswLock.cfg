SPECIFICATION Spec
CONSTANTS
    Threads = {t1, t2, t3, t4}
    NoThread = NoThread
    MaxClaims = 2
INVARIANTS TypeOK Exclusion OwnerIsSoleHolder NoStranded
PROPERTIES ImplementsRWLock WaitersServed
