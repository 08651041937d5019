CONSTANTS
    Operations = {"setup", "start", "start-all", "stop", "stop-all", "uninstall"}
    MaxFailures = 1
SPECIFICATION Spec
INVARIANTS
    ServicesTypeOK
    SetupComplete
    StopComplete
    UninstallComplete
    ServicesInv
