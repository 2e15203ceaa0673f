SPECIFICATION Spec
CONSTANTS
    polite = polite
    streaming = streaming
    idle = idle
    Clients = {streaming}
    Streaming = {streaming}
    Listener = Listener
    None = None
    Fds = {0, 1}
    SetSize = 3
    MaxCommands <- MCMaxCommands
INVARIANT ReceivedIsAnswered
