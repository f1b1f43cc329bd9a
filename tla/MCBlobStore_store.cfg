\* Uploads of right and wrong bodies, failures, crashes and changes of a limit
\* that has room for one file or none.
SPECIFICATION BlobSpec
INVARIANTS BlobIInv IndexSound OvershootBounded
CONSTANTS
Files <- ThreeFiles
SizeOf <- Sizes
MaxBlob = 1
StorageLimits <- ZeroOrOne
Uploads <- TwoUploads
Unlimited = Unlimited
Nothing = Nothing
f1 = f1
f2 = f2
f3 = f3
x = x
y = y
