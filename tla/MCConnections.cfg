SPECIFICATION Spec
CONSTANTS
    polite = polite
    streaming = streaming
    idle = idle
    Clients = {polite, streaming, idle}
    Streaming = {streaming}
    Listener = Listener
    None = None
    Fds = {0, 1, 2, 3}
    SetSize = 3
    MaxCommands <- MCMaxCommands
INVARIANTS
    TypeOK
    Registered
    RightConnection
PROPERTIES
    Answered
    CronRuns
    Stops
