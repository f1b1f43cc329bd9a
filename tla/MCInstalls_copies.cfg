\* Two commands or passes of the daemon on one machine; the org's unit and a
\* published skill of the same directory, two versions each.
SPECIFICATION Spec
SYMMETRY ProcessSymmetry
INVARIANTS IInv CopyAsRecorded LinksTracked
PROPERTIES UserFilesKept
CHECK_DEADLOCK FALSE
CONSTANTS
Org = org
Refs <- OneRef
Catalog <- Versions
Processes <- TwoProcesses
Paths <- TwoPaths
Contents <- ThreeContents
Mine <- UsersOwn
Absent = Absent
Nothing = Nothing
MaxActs = 3
org = org
ref = ref
q1 = q1
q2 = q2
p1 = p1
p2 = p2
x = x
y = y
mine = mine
