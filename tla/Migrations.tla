----------------------------- MODULE Migrations -----------------------------
(* Opening the daemon's database: the schema is built by the migrations    *)
(* that have not been recorded yet, in order, each recorded when it is     *)
(* done.  Every statement commits by itself, so a start that dies leaves   *)
(* what it had written; the next start reads the record and goes on.       *)
EXTENDS Naturals, Sequences, FiniteSets

CONSTANT MaxStarts   \* the bound on starts of the daemon

ASSUME StartAssumption == MaxStarts \in Nat \ {0}

VARIABLES
  schema,      \* the tables and indexes there are
  recorded,    \* seaql_migrations
  upRuns,      \* how often each migration has begun
  starts,
  openingDb    \* the start under way: what it does, and how far it has come

schemaVars == <<schema, recorded, upRuns, starts, openingDb>>

\* Tables are created if they do not exist; indexes are created.
Table(name) == [object |-> name, optional |-> TRUE]
Index(name) == [object |-> name, optional |-> FALSE]

CreateMeta == <<Table("meta")>>
CreateAllocations ==
  <<Table("allocations"), Index("allocations-state"), Index("allocations-updated"),
    Index("allocations-attempt"), Index("allocations-profile-updated")>>
CreateHotGuests == <<Table("hot_guests"), Index("hot-guests-serving")>>
CreateWarmImages == <<Table("warm_images")>>
CreateEvents ==
  <<Table("events"), Index("events-kind"), Index("events-allocation"), Index("events-occurred")>>
CreateUsers == <<Table("users")>>
CreateSessions == <<Table("sessions"), Index("sessions-expires")>>

SchemaSteps ==
  <<CreateMeta, CreateAllocations, CreateHotGuests, CreateWarmImages, CreateEvents,
    CreateUsers, CreateSessions>>

Objects(m) == {SchemaSteps[m][i].object : i \in DOMAIN SchemaSteps[m]}

\* connect_and_migrate, and apply_pending's first statements: the connection,
\* the bookkeeping table and what it records.
OpenDatabase ==
  /\ openingDb.at \in {"closed", "failed"}
  /\ starts < MaxStarts
  /\ starts' = starts + 1
  /\ schema' = schema \cup {"seaql_migrations"}
  /\ openingDb' = [at |-> "migrating", applied |-> recorded, m |-> 1, next |-> 1]
  /\ UNCHANGED <<recorded, upRuns>>

IsSkipped(m) == m \in openingDb.applied

SkipMigration ==
  /\ openingDb.at = "migrating" /\ openingDb.m <= Len(SchemaSteps)
  /\ openingDb.next = 1
  /\ IsSkipped(openingDb.m)
  /\ openingDb' = [openingDb EXCEPT !.m = @ + 1]
  /\ UNCHANGED <<schema, recorded, upRuns, starts>>

\* One statement of up; the first one begins the migration.
RunStatement ==
  LET m == openingDb.m
      statement == SchemaSteps[m][openingDb.next]
  IN
  /\ openingDb.at = "migrating" /\ m <= Len(SchemaSteps)
  /\ openingDb.next = 1 => ~IsSkipped(m)
  /\ openingDb.next <= Len(SchemaSteps[m])
  /\ upRuns' = IF openingDb.next = 1 THEN [upRuns EXCEPT ![m] = @ + 1] ELSE upRuns
  /\ IF statement.object \in schema /\ ~statement.optional
     THEN openingDb' = [openingDb EXCEPT !.at = "failed"] /\ UNCHANGED schema
     ELSE /\ schema' = schema \cup {statement.object}
          /\ openingDb' = [openingDb EXCEPT !.next = @ + 1]
  /\ UNCHANGED <<recorded, starts>>

HasLanded == openingDb.next > Len(SchemaSteps[openingDb.m])

RecordMigration ==
  /\ openingDb.at = "migrating" /\ openingDb.m <= Len(SchemaSteps)
  /\ HasLanded
  /\ recorded' = recorded \cup {openingDb.m}
  /\ openingDb' = [openingDb EXCEPT !.m = @ + 1, !.next = 1]
  /\ UNCHANGED <<schema, upRuns, starts>>

Opened ==
  /\ openingDb.at = "migrating" /\ openingDb.m > Len(SchemaSteps)
  /\ openingDb' = [openingDb EXCEPT !.at = "open"]
  /\ UNCHANGED <<schema, recorded, upRuns, starts>>

\* The process dies, or a statement fails for a reason of its own.
StartDies ==
  /\ openingDb.at \in {"migrating", "open"}
  /\ openingDb' = [openingDb EXCEPT !.at = "closed"]
  /\ UNCHANGED <<schema, recorded, upRuns, starts>>

MigrationInit ==
  /\ schema = {}
  /\ recorded = {}
  /\ upRuns = [m \in DOMAIN SchemaSteps |-> 0]
  /\ starts = 0
  /\ openingDb = [at |-> "closed", applied |-> {}, m |-> 1, next |-> 1]

MigrationNext ==
  OpenDatabase \/ SkipMigration \/ RunStatement \/ RecordMigration \/ Opened \/ StartDies

MigrationSpec == MigrationInit /\ [][MigrationNext]_schemaVars

----------------------------------------------------------------------------
\* An open database has every table and index, and a recorded migration has all
\* of its own, wherever earlier starts died.
RecordedIsBuilt ==
  /\ \A m \in recorded : Objects(m) \subseteq schema
  /\ openingDb.at = "open" => \A m \in DOMAIN SchemaSteps : Objects(m) \subseteq schema

\* A start fails only over a migration that an earlier start left unrecorded
\* after at least its first index: its indexes are not created "if not exists",
\* so that every later start fails over it as well.
FailureMeansTornMigration ==
  openingDb.at = "failed" =>
    \E m \in DOMAIN SchemaSteps \ recorded : upRuns[m] > 1 /\ Cardinality(Objects(m) \cap schema) > 1

\* What runner.rs says of MigrationStep::up: "Applies the step. Runs at most once
\* per database."  A step is recorded after it ran, so that one whose start dies
\* before the record, or whose statement fails, is run again by the next.
StepsRunOnce == \A m \in DOMAIN SchemaSteps : upRuns[m] <= 1

\* What opening the database promises.
SchemaContract == RecordedIsBuilt /\ FailureMeansTornMigration
============================================================================
