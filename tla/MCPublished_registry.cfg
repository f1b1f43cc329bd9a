\* Two orgs that publish, hide and restore one name, from two units with two file
\* lists, and move between three slugs.
SPECIFICATION Spec
SYMMETRY RequestSymmetry
INVARIANTS IInv LatestNewest RefsKept
PROPERTIES AbsSpec
CHECK_DEADLOCK FALSE
CONSTANTS
Orgs <- TwoOrgs
Slugs <- ThreeSlugs
Names <- OneName
Sources <- TwoSources
Files <- TwoFiles
Requests <- ThreeRequests
DefaultSlug = default
DefaultOrg = acme
NoSource = NoSource
NoRequest = NoRequest
acme = acme
beta = beta
deploy = deploy
review = review
unit1 = unit1
unit2 = unit2
A = A
B = B
r1 = r1
r2 = r2
r3 = r3
slugA = slugA
slugB = slugB
