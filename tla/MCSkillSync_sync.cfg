\* A daemon, a command and a web page on one unit of two files.
SPECIFICATION Spec
INVARIANTS IInv
SYMMETRY Symmetric
PROPERTIES EditsKept OthersKept ConflictsEarned
CHECK_DEADLOCK FALSE
CONSTANTS
Machines <- OneMachine
Daemons <- OneDaemon
Commands <- OneCommand
Host <- HostOf
Pages <- OnePage
Paths <- TwoPaths
Contents <- TwoContents
Scopes <- BothScopes
Absent = Absent
Nothing = Nothing
Debounced = TRUE
MaxVersion = 2
MaxLives = 1
MaxActs = 3
m1 = m1
d1 = d1
c1 = c1
w = w
p1 = p1
p2 = p2
x = x
y = y
