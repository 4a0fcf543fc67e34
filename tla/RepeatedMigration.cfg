\* A second start over the database that a first one left half way.
CONSTANTS
    MaxStarts = 2
SPECIFICATION MigrationSpec
INVARIANT
    StepsRunOnce
CHECK_DEADLOCK FALSE
