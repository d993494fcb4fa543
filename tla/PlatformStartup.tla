----------------------------- MODULE PlatformStartup -----------------------------
(***************************************************************************)
(* How the platform's processes prepare the database when they start       *)
(* (db/migrate.ts, db/seed.ts, services/bootstrap-admin.ts, under          *)
(* lib/startup-retry.ts in index.ts, worker.ts and bootstrap-admin.ts).    *)
(*                                                                         *)
(* Several start at once.  A session lock of the database lets one of them *)
(* migrate at a time; each migration and its row in schema_migrations are  *)
(* one transaction.  Statements fail, and processes die and are started    *)
(* again.                                                                  *)
(***************************************************************************)
EXTENDS Integers

CONSTANTS
    Starter,          \* processes: of the API, the worker, the bootstrap command
    WorkerProcess,    \* those of the worker, which leave the administrator alone
    MaxAttempts,      \* attempts of withStartupRetry (12)
    MaxStartupFaults  \* bound: failed statements and processes that die

ASSUME StartupAssumption ==
    "none" \notin Starter /\ WorkerProcess \subseteq Starter /\ MaxAttempts \in Nat \ {0} /\ MaxStartupFaults \in Nat

Migrations == 1..5

VARIABLES
    starter,        \* starter -> step, the migration it is at, attempts, whether this one failed
    holder,         \* session that holds the advisory lock, "none"
    recorded,       \* rows of schema_migrations
    effects,        \* migration -> times its statements took effect
    plans,          \* the plans are seeded
    administrator,  \* the bootstrap account: "none", "user", "super_admin"
    startupFaults   \* faults so far

startupVars == <<starter, holder, recorded, effects, plans, administrator, startupFaults>>

Fresh == [step |-> "lock", at |-> 1, attempt |-> 1, failed |-> FALSE]
At(s, step) == starter[s].step = step
Go(s, step) == starter' = [starter EXCEPT ![s].step = step]

\* Steps between the lock and its release.
Migrating == {"check", "apply", "unlock"}

-----------------------------------------------------------------------------
(* migrateDatabase.                                                         *)

\* (The lock is asked for and not waited for.)
Unguarded == TRUE

\* pg_advisory_lock waits until no other session holds the lock.
Free == holder = "none"

AcquireAdvisoryLock(s) ==
    /\ At(s, "lock") /\ Free
    /\ holder' = s
    /\ starter' = [starter EXCEPT ![s].step = "check", ![s].at = 1, ![s].failed = FALSE]
    /\ UNCHANGED <<recorded, effects, plans, administrator, startupFaults>>

\* applyMigration: one that is recorded is skipped, the others are begun.
CheckMigration(s) ==
    /\ At(s, "check")
    /\ LET m == starter[s].at IN
       starter' = [starter EXCEPT ![s] =
           CASE m \notin Migrations -> [@ EXCEPT !.step = "unlock"]
             [] m \in recorded      -> [@ EXCEPT !.at = m + 1]
             [] OTHER               -> [@ EXCEPT !.step = "apply"]]
    /\ UNCHANGED <<holder, recorded, effects, plans, administrator, startupFaults>>

\* Its row and its effects are committed together.
CommitMigration(s) ==
    /\ At(s, "apply") /\ starter[s].at \notin recorded
    /\ recorded' = recorded \cup {starter[s].at}
    /\ effects' = [effects EXCEPT ![starter[s].at] = @ + 1]
    /\ starter' = [starter EXCEPT ![s].step = "check", ![s].at = @ + 1]
    /\ UNCHANGED <<holder, plans, administrator, startupFaults>>

\* The finally block.
Unlock(s) ==
    /\ At(s, "unlock")
    /\ holder' = IF holder = s THEN "none" ELSE holder
    /\ starter' = [starter EXCEPT ![s] =
           CASE ~@.failed                 -> [@ EXCEPT !.step = "seed"]
             [] @.attempt = MaxAttempts   -> [@ EXCEPT !.step = "exit"]
             [] OTHER                     -> [Fresh EXCEPT !.attempt = starter[s].attempt + 1]]
    /\ UNCHANGED <<recorded, effects, plans, administrator, startupFaults>>

-----------------------------------------------------------------------------
(* What follows it.                                                         *)

SeedPlans(s) ==
    /\ At(s, "seed")
    /\ plans' = TRUE
    /\ Go(s, IF s \in WorkerProcess THEN "up" ELSE "bootstrap")
    /\ UNCHANGED <<holder, recorded, effects, administrator, startupFaults>>

\* ensureBootstrapAdmin: one transaction, the account found or created.
EnsureBootstrapAdmin(s) ==
    /\ At(s, "bootstrap")
    /\ administrator' = "super_admin"
    /\ Go(s, "up")
    /\ UNCHANGED <<holder, recorded, effects, plans, startupFaults>>

\* Somebody registers with the address of the bootstrap account.
RegisterAdministrator ==
    /\ administrator = "none" /\ \E s \in Starter : At(s, "up")
    /\ administrator' = "user"
    /\ UNCHANGED <<starter, holder, recorded, effects, plans, startupFaults>>

-----------------------------------------------------------------------------
(* Faults.                                                                  *)

\* A migration that was not committed leaves nothing.
RolledBack(s) == effects

\* A statement fails, or the connection or the lock is not to be had: the migration is
\* rolled back and the attempt is over.
StatementFails(s) ==
    /\ starter[s].step \in {"lock", "check", "apply", "seed", "bootstrap"} /\ startupFaults < MaxStartupFaults
    /\ startupFaults' = startupFaults + 1
    /\ effects' = RolledBack(s)
    /\ starter' = [starter EXCEPT ![s].step = "unlock", ![s].failed = TRUE]
    /\ UNCHANGED <<holder, recorded, plans, administrator>>

\* A process dies, or has given up, and is started again: its session is gone.
RestartProcess(s) ==
    /\ At(s, "exit") \/ startupFaults < MaxStartupFaults
    /\ startupFaults' = IF At(s, "exit") THEN startupFaults ELSE startupFaults + 1
    /\ effects' = RolledBack(s)
    /\ holder' = IF holder = s THEN "none" ELSE holder
    /\ starter' = [starter EXCEPT ![s] = Fresh]
    /\ UNCHANGED <<recorded, plans, administrator>>

-----------------------------------------------------------------------------
StartupInit ==
    /\ starter = [s \in Starter |-> Fresh] /\ holder = "none"
    /\ recorded = {} /\ effects = [m \in Migrations |-> 0]
    /\ plans = FALSE /\ administrator = "none" /\ startupFaults = 0

StartupNext ==
    \/ \E s \in Starter :
         \/ AcquireAdvisoryLock(s) \/ CheckMigration(s) \/ CommitMigration(s) \/ Unlock(s)
         \/ SeedPlans(s) \/ EnsureBootstrapAdmin(s) \/ StatementFails(s) \/ RestartProcess(s)
    \/ RegisterAdministrator

StartupSpec == StartupInit /\ [][StartupNext]_startupVars

-----------------------------------------------------------------------------
\* Processes and tables stay within their types.
StartupTypeOK ==
    /\ starter \in [Starter -> [step : Migrating \cup {"lock", "seed", "bootstrap", "up", "exit"},
                                at : 1..6, attempt : 1..MaxAttempts, failed : BOOLEAN]]
    /\ holder \in Starter \cup {"none"}
    /\ recorded \subseteq Migrations /\ effects \in [Migrations -> Nat]
    /\ plans \in BOOLEAN /\ administrator \in {"none", "user", "super_admin"}
    /\ startupFaults \in 0..MaxStartupFaults

\* One process migrates at a time, the one that holds the lock: no migration is
\* begun while another process is in the middle of it.
MigratorsTakeTurns ==
    \A s \in Starter : starter[s].step \in {"check", "apply"} => holder = s

\* Whatever fails and whoever dies, the migrations recorded are the first few,
\* each took effect exactly once and no other did; a process that is up runs on
\* all of them and on seeded plans.
SchemaMatchesRecord ==
    /\ \A m \in Migrations : effects[m] = IF m \in recorded THEN 1 ELSE 0
    /\ \A m \in recorded : 1..m \subseteq recorded
    /\ \A s \in Starter : At(s, "up") => recorded = Migrations /\ plans

\* However many processes start at once and whichever of them die, migrations are
\* applied one at a time (MigratorsTakeTurns) and the schema holds what the table
\* schema_migrations records (SchemaMatchesRecord).
StartupIsExclusive == MigratorsTakeTurns /\ SchemaMatchesRecord
=============================================================================
