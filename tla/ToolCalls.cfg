SPECIFICATION Spec
CONSTANTS
    Environments <- MCEnvironments
    Disks <- MCDisks
    Projects <- MCProjects
    Prompts <- MCPrompts
    Lines <- MCLines
    Databases <- MCDatabases
    Batches <- MCBatches
    RowChanges <- MCRowChanges
INVARIANTS
    TypeOK
    
    ChecksAdmitted
    ModesNested
PROPERTIES
    EnvironmentWins
