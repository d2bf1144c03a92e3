---------------------------- MODULE SchemaDeploy ----------------------------
(***************************************************************************)
(* Migrations 0650, 0659, 0665 and 0726 deployed while the application     *)
(* keeps serving.  Each migration ships with the release whose models it   *)
(* describes: the code of release r uses the Django model state after the *)
(* first r migrations.  By the rule the Migration classes state in their   *)
(* comments, a migration with is_post_deployment = False runs before the   *)
(* release's code rolls out, and one with is_post_deployment = True is run *)
(* by hand after the code has deployed.  Application instances restart on  *)
(* the new release one at a time, so old and new code run side by side,   *)
(* each against the one database schema.  A bad release may be rolled     *)
(* back: servers return to the previous release's code, while the          *)
(* migrations that have run stay applied.                                  *)
(*                                                                         *)
(* A schema is [tables, cols, fks]: the tables that exist, each column as *)
(* "absent", "null" or "notnull", and the foreign keys that carry a        *)
(* database constraint.  The same record is used for Django's model state *)
(* (what the code believes) and for the database.                          *)
(***************************************************************************)
EXTENDS Naturals, Sequences

CONSTANTS
    Instances,      \* application servers
    MaxRollbacks    \* servers rolled back to the previous release (bound)

Tables == {"sentry_sentryshot"}

LastStateChange == "monitorenvironment.last_state_change"

Columns == {"artifactbundleindex.date_last_modified", "artifactbundleindex.dist_name",
            "artifactbundleindex.release_name", LastStateChange}

ForeignKeys == {"flatfileindexstate.artifact_bundle", "flatfileindexstate.flat_file_index"}

\* migrations.CreateModel
CreateModel(s, t) == [s EXCEPT !.tables = @ \cup {t}]

\* migrations.AlterField(field=...(null=True)) on the columns C
AlterFieldNullable(s, C) ==
    [s EXCEPT !.cols = [c \in Columns |-> IF c \in C THEN "null" ELSE s.cols[c]]]

\* migrations.AlterField(field=FlexibleForeignKey(db_constraint=False))
AlterFieldNoConstraint(s, F) == [s EXCEPT !.fks = @ \ F]

\* RunSQL ALTER TABLE ... DROP COLUMN
DropColumn(s, c) == [s EXCEPT !.cols[c] = "absent"]

\* 0650_create_sentryshot
Operations0650(s) == CreateModel(s, "sentry_sentryshot")

IsPostDeployment0650 == FALSE

\* 0659_artifactbundleindex_cleanup
Operations0659(s) ==
    AlterFieldNoConstraint(
        AlterFieldNullable(s, Columns \ {LastStateChange}), ForeignKeys)

\* Variant: the cleanup marked to run after the code has deployed.
IsPostDeployment0659Manual == TRUE

IsPostDeployment0659 == FALSE

\* 0665_monitor_drop_last_state_change_db: SeparateDatabaseAndState
DatabaseOperations0665(s) == DropColumn(s, LastStateChange)

StateOperations0665(s) == s

IsPostDeployment0665 == FALSE

\* 0726_apitoken_backfill_hashes: RunPython, no schema change.
Operations0726(s) == s

IsPostDeployment0726 == TRUE

\* The migrations in dependency order, release k shipping the k-th.
Migrations == <<"0650", "0659", "0665", "0726">>

N == Len(Migrations)

DatabaseOps(k, s) ==
    CASE Migrations[k] = "0650" -> Operations0650(s)
      [] Migrations[k] = "0659" -> Operations0659(s)
      [] Migrations[k] = "0665" -> DatabaseOperations0665(s)
      [] Migrations[k] = "0726" -> Operations0726(s)

StateOps(k, s) ==
    CASE Migrations[k] = "0650" -> Operations0650(s)
      [] Migrations[k] = "0659" -> Operations0659(s)
      [] Migrations[k] = "0665" -> StateOperations0665(s)
      [] Migrations[k] = "0726" -> Operations0726(s)

IsPostDeployment(k) ==
    CASE Migrations[k] = "0650" -> IsPostDeployment0650
      [] Migrations[k] = "0659" -> IsPostDeployment0659
      [] Migrations[k] = "0665" -> IsPostDeployment0665
      [] Migrations[k] = "0726" -> IsPostDeployment0726

(***************************************************************************)
(* Before 0650: no sentryshot table, the 0659 columns not null, both       *)
(* foreign keys constrained.  last_state_change has already left the model *)
(* state (0665 has no state_operations) but is still in the database as  *)
(* the nullable timestamptz its reverse_sql restores.                      *)
(***************************************************************************)
InitState ==
    [tables |-> {},
     cols |-> [c \in Columns |-> IF c = LastStateChange THEN "absent" ELSE "notnull"],
     fks |-> ForeignKeys]

InitDb == [InitState EXCEPT !.cols[LastStateChange] = "null"]

RECURSIVE StateAfter(_)
StateAfter(k) == IF k = 0 THEN InitState ELSE StateOps(k, StateAfter(k - 1))

VARIABLES
    db,        \* the database schema
    applied,   \* migrations 1..applied have run
    target,    \* the release being deployed
    release,   \* instance -> the release of the code it runs
    rollbacks  \* rollbacks so far

vars == <<db, applied, target, release, rollbacks>>

\* Every migration of releases up to r that has not run is post-deployment.
PreDeploymentApplied(r) == \A k \in applied + 1 .. r : IsPostDeployment(k)

Init ==
    /\ db = InitDb
    /\ applied = 0
    /\ target = 0
    /\ release = [i \in Instances |-> 0]
    /\ rollbacks = 0

\* The next release is deployed once the previous deploy has finished.
StartDeploy ==
    /\ target < N
    /\ applied = target
    /\ \A i \in Instances : release[i] = target
    /\ target' = target + 1
    /\ UNCHANGED <<db, applied, release, rollbacks>>

\* migrate, before the code rolls out: the next migration of the release.
MigratePreDeployment ==
    /\ applied < target
    /\ ~IsPostDeployment(applied + 1)
    /\ db' = DatabaseOps(applied + 1, db)
    /\ applied' = applied + 1
    /\ UNCHANGED <<target, release, rollbacks>>

\* An instance restarts on the new release.
Upgrade(i) ==
    /\ release[i] < target
    /\ PreDeploymentApplied(target)
    /\ release' = [release EXCEPT ![i] = target]
    /\ UNCHANGED <<db, applied, target, rollbacks>>

\* A server is rolled back to the previous release; no migration is undone.
RollBack(i) ==
    /\ rollbacks < MaxRollbacks
    /\ target > 0
    /\ release[i] = target
    /\ release' = [release EXCEPT ![i] = target - 1]
    /\ rollbacks' = rollbacks + 1
    /\ UNCHANGED <<db, applied, target>>

\* A post-deployment migration, run by hand once the code has deployed.
MigratePostDeployment ==
    /\ applied < target
    /\ IsPostDeployment(applied + 1)
    /\ \A i \in Instances : release[i] = target
    /\ db' = DatabaseOps(applied + 1, db)
    /\ applied' = applied + 1
    /\ UNCHANGED <<target, release, rollbacks>>

Next ==
    \/ StartDeploy
    \/ MigratePreDeployment
    \/ \E i \in Instances : Upgrade(i)
    \/ MigratePostDeployment
    \/ \E i \in Instances : RollBack(i)

Spec == Init /\ [][Next]_vars

-----------------------------------------------------------------------------
(***************************************************************************)
(* The code of a release works against a schema when every table and       *)
(* column its models name exists, no column it may leave or set NULL is   *)
(* NOT NULL in the database (a column the model lacks is left out of       *)
(* INSERTs), and the database enforces no foreign key the model declares  *)
(* unconstrained.                                                          *)
(***************************************************************************)
Compatible(st, d) ==
    /\ st.tables \subseteq d.tables
    /\ \A c \in Columns : st.cols[c] # "absent" => d.cols[c] # "absent"
    /\ \A c \in Columns : d.cols[c] = "notnull" => st.cols[c] = "notnull"
    /\ d.fks \subseteq st.fks

(***************************************************************************)
(* At every moment of a rolling deploy or a rollback, old and new code     *)
(* alike work against the database: pre-deployment migrations only ever   *)
(* widen what the old code needs, and the new code starts only once they  *)
(* have run.                                                               *)
(***************************************************************************)
SchemaServesEveryRelease ==
    \A i \in Instances : Compatible(StateAfter(release[i]), db)

=============================================================================
