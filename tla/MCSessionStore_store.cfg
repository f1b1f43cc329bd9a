\* Three pushes and deletes of two sessions, with every failure, under a limit
\* that changes.
SPECIFICATION FairSpec
INVARIANTS IInv Described
PROPERTIES UpdatedInPlace SessionLimitHeld EveryRequestAnswered
CHECK_DEADLOCK FALSE
CONSTANTS
Keys <- TwoKeys
Archives <- ThreeArchives
SessionLimits <- Limits
Requests <- ThreeRequests
NoLimit = NoLimit
Nothing = Nothing
k1 = k1
k2 = k2
a1 = a1
a2 = a2
a3 = a3
x = x
y = y
z = z
