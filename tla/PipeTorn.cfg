SPECIFICATION PipeSpec
CONSTANTS
    app = app
    Hosts = {app}
    MaxRequests <- MCMaxRequests
PROPERTIES
    SendFrameReturns
CHECK_DEADLOCK FALSE
