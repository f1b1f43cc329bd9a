\* A push that is rolled back after its archive was promoted.
SPECIFICATION Spec
PROPERTIES UnchangedIsStored
CHECK_DEADLOCK FALSE
CONSTANTS
Keys <- OneKey
Archives <- TwoArchives
SessionLimits <- Unlimited
Requests <- ThreeRequests
NoLimit = NoLimit
Nothing = Nothing
k1 = k1
k2 = k2
a1 = a1
a2 = a2
a3 = a3
x = x
y = y
z = z
