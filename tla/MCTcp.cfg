SPECIFICATION Spec
CONSTANTS
    Client = client_host
    Server = server_host
    MSS = 1
    RECV_CAP = 1
    SEND_CAP = 2
    MAX_RETRIES = 1
    MaxBytes = 2
    MaxOpen = 2
    MaxFaults = 1
INVARIANTS TypeOK StreamIntact AckedIsTaken EofIsEnd TimerArmed
PROPERTIES DeadOnlyByReset CloseCompletes
CHECK_DEADLOCK FALSE
