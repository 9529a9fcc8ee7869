CONSTANTS
    ExitKinds = {"clean"}
    ContainerCode = 0
INIT Init
NEXT Next
INVARIANT CleanExitCodeReported
