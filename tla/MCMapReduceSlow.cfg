\* Two workers, and a task may be handed out again while the first still works.
SPECIFICATION Spec
CONSTANTS
    Worker = {w1, w2}
    Input <- TwoFiles
    nReduce = 2
    Hash <- TwoBuckets
    MaxCrashes = 0
    SlowWorkers = TRUE
INVARIANT ReducerReadsWholeFiles
