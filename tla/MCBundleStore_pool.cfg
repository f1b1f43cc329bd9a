\* As many requests as connections: each waits in its transaction for one more.
SPECIFICATION FairSpec
PROPERTIES EveryRequestAnswered
CHECK_DEADLOCK FALSE
CONSTANTS
Units <- TwoUnits
UserUnits <- Nobody
OrgUnits <- Nobody
LegacyUnits <- OneUnit
Users <- OneUser
Admins <- Nobody
Shas <- OneSha
Manifests <- EmptyOrOne
Parents <- ZeroOrOne
SkillLimits <- OneOrNone
Requests <- TwoRequests
PoolSize = 2
NoUser = NoUser
NoLimit = NoLimit
NoRequest = NoRequest
u1 = u1
u2 = u2
ann = ann
bob = bob
s1 = s1
r1 = r1
r2 = r2
r3 = r3
