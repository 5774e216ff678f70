\* Three threads, each free to push or pop, on a ring of two slots.
CONSTANTS
    t1 = t1  t2 = t2  t3 = t3
    a = a  b = b
    Threads <- MCThreads
    Jobs <- MCJobs
    Capacity = 2
    NoJob = NoJob
SPECIFICATION Spec
INVARIANTS TypeOK RingInv NoLostJobSignal NoLostSlotSignal
PROPERTY ImplementsQueue
