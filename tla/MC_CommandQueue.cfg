\* Two clients, three commands, two chunks per command.
CONSTANTS
    c1 = c1
    c2 = c2
    Clients <- MCClients
    NoClient = NoClient
    MaxTasks = 3
    TaskLen = 2
SPECIFICATION Spec
PROPERTIES
    AbortIsSticky
    AbortCompletes
    QueuedTaskRuns
