SPECIFICATION DeploymentSpec
CONSTANTS
    Processes = {"a"}
    Env <- MCEnv
    MaxFailures = 0
    Calls = {"above"}
    Definition <- MCDefinition
    AllowedCallers = {}
    None = None
INVARIANT ServesSerializable
