\* One tab of an org: its members and its skills, a token of one user and the
\* provider sessions of two, one write by a button and others by other people.
SPECIFICATION Spec
INVARIANTS IInv CacheOwned OwnWritesShown
CONSTANTS
TokenUsers <- TokenUser
SessionUsers <- TwoUsers
None = None
Keys <- SomeKeys
Screens <- SomeScreens
Clicks <- OneClick
MaxWrites = 1
u = u
v = v
c = c
