\* Four words: both flags, -- and a path, as the make targets pass them.
\* The process ends: a state without successors is its exit.
SPECIFICATION Spec
CONSTANT MaxArgs = 4
INVARIANTS ExitTellsTheTruth ExitAsAsked CleanOutput NothingHeld
CHECK_DEADLOCK FALSE
