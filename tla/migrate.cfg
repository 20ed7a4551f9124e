SPECIFICATION MCSpec
CONSTANTS
    n1 = n1
    n2 = n2
    Nodes = {n1, n2}
    Ports = {1, 2}
    Faults = {"panel", "agent", "call", "job", "db"}
    MaxFaults = 2
    MaxMigrations = 2
INVARIANT TypeOK
INVARIANT RunsAtHome
INVARIANT UndoneMeansHome
INVARIANT HeldHasMigration
PROPERTY ImplementsServerHome
PROPERTY MigrationsEnd
CHECK_DEADLOCK FALSE
