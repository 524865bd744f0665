\* The flush at the end of abort() against the comment that it resets the
\* queue to its initial state.
CONSTANTS
    c1 = c1
    c2 = c2
    Clients <- MCClients
    NoClient = NoClient
    MaxTasks = 3
    TaskLen = 2
SPECIFICATION Spec
SYMMETRY ClientSymmetry
PROPERTY AbortResetsToInitial
