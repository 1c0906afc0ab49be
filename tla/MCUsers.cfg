SPECIFICATION Spec
CONSTANTS
    User = {"guest", "alice"}
    Default = "guest"
    Package = {"calc"}
    MountPoint <- MCMountPoint
    REGION = 12
    Mixed <- MCMixed
    HISTORY = 1
    MaxNodes = 10
    MixAgain = FALSE
INVARIANTS TreeSound Reloads
PROPERTIES CwdLostByPurge AccountsKept
