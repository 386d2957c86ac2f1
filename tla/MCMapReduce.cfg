\* Three workers, two of which may crash anywhere; a worker that lives is done
\* before the time of its task is over.
SPECIFICATION FairSpec
CONSTANTS
    Worker = {w1, w2, w3}
    Input <- TwoFiles
    nReduce = 2
    Hash <- TwoBuckets
    MaxCrashes = 2
    SlowWorkers = FALSE
INVARIANT MapOutputComplete
INVARIANT OutputIsSequential
PROPERTY JobFinishes
