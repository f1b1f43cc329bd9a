\* A daemon that is pushing an edit while a page deletes the unit.
SPECIFICATION Spec
PROPERTIES EntryWasOnDisk
CHECK_DEADLOCK FALSE
CONSTANTS
Machines <- OneMachine
Daemons <- OneDaemon
Commands <- None
Host <- HostOf
Pages <- OnePage
Paths <- TwoPaths
Contents <- TwoContents
Scopes <- UserScope
Absent = Absent
Nothing = Nothing
Debounced = TRUE
MaxVersion = 2
MaxLives = 1
MaxActs = 3
m1 = m1
d1 = d1
c1 = c1
w = w
p1 = p1
p2 = p2
x = x
y = y
