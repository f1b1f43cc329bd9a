\* Two requests at a time of an org with up to three members, one of them a
\* provider's, with the operator, restarts and a changing seat limit.
SPECIFICATION Spec
INVARIANTS IInv TokensOfMembers
PROPERTIES LastAdminKept SeatLimitHeld NamesDistinct
SYMMETRY Symmetry
CONSTANTS
Claims <- OneClaim
Users <- ThreeUsers
ProviderUsers <- OneProviderUser
Elsewhere <- OneProviderUser
Names <- TwoNames
ProviderNames <- OneName
Root = root
Tokens <- TwoTokens
EnvToken = envToken
SeatLimits <- Limits
NoLimit = NoLimit
Requests <- TwoRequests
Nothing = Nothing
a = a
b = b
p = p
root = root
n = n
envToken = envToken
t1 = t1
x = x
y = y
