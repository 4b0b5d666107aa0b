---------------------------- MODULE MCDeployment ----------------------------
(***************************************************************************)
(* Two migrations cut down from those of packages/db/drizzle: the baseline *)
(* with a case of everything it declares, and one that adds a column, two  *)
(* enum values and a table, as 0001 to 0003 do.                            *)
(***************************************************************************)
EXTENDS Deployment

NoDefault == [text |-> "", quoted |-> FALSE, cast |-> FALSE]
Column(type, length, notNull, primaryKey) ==
    [type |-> [name |-> type, length |-> length], notNull |-> notNull,
     primaryKey |-> primaryKey, default |-> NoDefault]
Index(columns, isUnique) == [columns |-> columns, isUnique |-> isUnique, constraint |-> FALSE]

users ==
    [columns |-> [id |-> Column("uuid", 0, TRUE, TRUE),
                  email |-> Column("varchar", 320, FALSE, FALSE),
                  cognito_sub |-> Column("varchar", 255, TRUE, FALSE)],
     indexes |-> Empty,
     uniqueConstraints |-> [users_cognito_sub_unique |-> <<"cognito_sub">>],
     foreignKeys |-> Empty, compositePrimaryKey |-> {}]

user_workspaces ==
    [columns |-> [user_id |-> Column("uuid", 0, TRUE, FALSE),
                  workspace_id |-> Column("uuid", 0, TRUE, FALSE)],
     indexes |-> Empty, uniqueConstraints |-> Empty,
     foreignKeys |-> [user_fk |-> [columnsFrom |-> <<"user_id">>, tableTo |-> "users",
                                   columnsTo |-> <<"id">>, onDelete |-> "no action",
                                   onUpdate |-> "absent"]],
     compositePrimaryKey |-> {"user_id", "workspace_id"}]

runs ==
    [columns |-> [id |-> Column("uuid", 0, TRUE, TRUE),
                  status |-> [Column("run_status", 0, TRUE, FALSE) EXCEPT
                                !.default = [text |-> "running", quoted |-> TRUE, cast |-> FALSE]],
                  error |-> Column("text", 0, FALSE, FALSE)],
     indexes |-> [runs_status_idx |-> Index(<<"status">>, FALSE),
                  runs_id_idx |-> Index(<<"id", "status">>, TRUE)],
     uniqueConstraints |-> Empty, foreignKeys |-> Empty, compositePrimaryKey |-> {}]

reservations ==
    [columns |-> [day |-> Column("text", 0, TRUE, FALSE)],
     indexes |-> [day_idx |-> Index(<<"day">>, FALSE)],
     uniqueConstraints |-> Empty, foreignKeys |-> Empty, compositePrimaryKey |-> {}]

MCSnapshots ==
    << [tables |-> [users |-> users, user_workspaces |-> user_workspaces, runs |-> runs],
        enums |-> [run_status |-> <<"running", "completed">>]],
       [tables |-> [users |-> users, user_workspaces |-> user_workspaces,
                    runs |-> [runs EXCEPT !.columns = @ @@ [tools |-> Column("jsonb", 0, FALSE, FALSE)]],
                    reservations |-> reservations],
        enums |-> [run_status |-> <<"running", "completed", "cancelled", "timed_out">>]] >>

(* A compose stack being provisioned again and again; one in the cloud that *)
(* is migrated by jobs and by booting servers while somebody edits it; one *)
(* that serves; and the smoke fixtures of one.                             *)
Bounded(kind, e, j, b, r, a, envs) ==
    [kind |-> kind, maxEdits |-> e, maxJobs |-> j, maxBoots |-> b, maxRequests |-> r,
     maxAttempts |-> a, environments |-> envs]
Healthy == {e \in Environments : e.secrets /\ e.modelKey /\ ~e.fixture /\ e.url = "wss"
                                   /\ ~e.insecure /\ ~e.redis /\ e.auto}
MCStacks == {Bounded("local", 0, 0, 1, 0, 3, Healthy), Bounded("cloud", 1, 1, 1, 0, 0, Healthy),
             Bounded("cloud", 0, 2, 1, 0, 0, Healthy),
             Bounded("cloud", 0, 0, 1, 1, 0, Environments), Bounded("cloud", 0, 0, 0, 0, 3, {}),
             Bounded("local", 0, 0, 1, 1, 0, Environments)}

Drop(f, x) == [y \in DOMAIN f \ {x} |-> f[y]]
Row(data) == [data |-> data, udt |-> data, length |-> 0, nullable |-> TRUE, default |-> NoDefault]

MCEdits == {"type", "nullable", "dropColumn", "addColumn", "addTable", "dropIndex", "indexUnique",
            "fkAction", "enumValue", "primaryKey", "default", "constraint"}
MCNoted == {"default"}
MCUnseen == {"default", "constraint"}

MCEdited(db, e) ==
    CASE e = "type"        -> [db EXCEPT !.tables.users.columns.cognito_sub.length = 64]
      [] e = "nullable"    -> [db EXCEPT !.tables.users.columns.email.nullable = ~@]
      [] e = "dropColumn"  -> [db EXCEPT !.tables.runs.columns = Drop(@, "error")]
      [] e = "addColumn"   -> [db EXCEPT !.tables.users.columns = @ @@ [note |-> Row("text")]]
      [] e = "addTable"    -> [db EXCEPT !.tables = @ @@ [scratch |->
                                 [columns |-> [note |-> Row("text")], indexes |-> Empty,
                                  foreignKeys |-> Empty, primaryKey |-> {}]]]
      [] e = "dropIndex"   -> [db EXCEPT !.tables.runs.indexes = Drop(@, "runs_status_idx")]
      [] e = "indexUnique" -> [db EXCEPT !.tables.runs.indexes.runs_id_idx.isUnique = FALSE]
      [] e = "fkAction"    -> [db EXCEPT !.tables.user_workspaces.foreignKeys.user_fk.onDelete = "CASCADE"]
      [] e = "enumValue"   -> [db EXCEPT !.enums.run_status = Append(@, "paused")]
      [] e = "primaryKey"  -> [db EXCEPT !.tables.user_workspaces.primaryKey = {"user_id"}]
      [] e = "default"     -> [db EXCEPT !.tables.runs.columns.status.default.text = "completed"]
      [] e = "constraint"  -> [db EXCEPT !.tables.users.indexes = Drop(@, "users_cognito_sub_unique")]
=============================================================================
