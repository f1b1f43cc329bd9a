\* A unit without an owner, claimed by the first of a member and an admin who
\* writes it, or no unit at all, and two created at once where there is room for
\* one; an org-scope unit beside it; limits that change;
\* and one connection more than requests, so that every handler gets to its answer.
SPECIFICATION FairSpec
INVARIANTS IInv NoLostUpdate ManifestsStored
PROPERTIES AbsSpec OwnerKept SkillLimitHeld EveryRequestAnswered
CHECK_DEADLOCK FALSE
CONSTANTS
Units <- TwoUnits
UserUnits <- OneUnit
OrgUnits <- OtherUnit
LegacyUnits <- OneUnit
Users <- TwoUsers
Admins <- OnlyAnn
Shas <- OneSha
Manifests <- EmptyOrOne
Parents <- ZeroOrOne
SkillLimits <- OneOrNone
Requests <- TwoRequests
PoolSize = 3
NoUser = NoUser
NoLimit = NoLimit
NoRequest = NoRequest
u1 = u1
u2 = u2
ann = ann
bob = bob
s1 = s1
r1 = r1
r2 = r2
r3 = r3
