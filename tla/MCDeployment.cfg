SPECIFICATION DeploymentSpec
CONSTANTS
    Processes <- MCProcesses
    Env <- MCEnv
    MaxFailures = 1
    Calls <- MCCalls
    Definition <- MCDefinition
    AllowedCallers = {"orchestrator"}
    None = None
INVARIANTS
    DeploymentTypeOK
    MigrationsRunOnce
    CreatedOnce
    CommittedIsCreated
    ParentsFormATree
PROPERTY
    ConfiguredServes
