\* Two machines that push and restore one session each, with one command
\* at a time run beside one of the daemons.
SPECIFICATION FairSpec
INVARIANTS IInv RestoredThere
PROPERTIES LocalKept EditsReachServer SessionsArrive
CONSTANTS
Hosts <- TwoHosts
Commands <- OneCommand
HostOf <- HostOfProcess
Files <- OneFile
Main = log
MaxActs = 3
MaxFails = 1
h1 = h1
h2 = h2
c = c
log = log
