--------------------------- MODULE SchemaMigration ---------------------------
(***************************************************************************)
(* The ladder of schema migrations (corlinman-vector, migration.rs).  A    *)
(* migrator reads the version and then climbs or descends script by        *)
(* script; a script and the version it leads to are one transaction, which *)
(* does not look at the version again.  Several processes may migrate one  *)
(* file, and any of them may fail or die between two scripts.              *)
(*                                                                         *)
(* Of the data, the tags of chunks are kept: text in chunk_tags up to      *)
(* version 5, references to tag_nodes from version 6 on.  No caller but    *)
(* the tests climbs the ladder so far.                                     *)
(***************************************************************************)
EXTENDS Integers, FiniteSets

CONSTANTS Chunks, Tags, Migrators

Target == 6     \* target_version of MigrationRegistry::builtin

VARIABLES
    version,        \* schema_version of kv_store; 0 for none
    schema,         \* what tables and columns there are
    nodes,          \* the paths in tag_nodes
    rows,           \* the rows of chunk_tags
    at, current,    \* migrator -> where it is, and the version it believes in
    goal,           \* migrator -> where it descends to
    initially,      \* the tags there were at first (history)
    lowered,        \* a script ran downwards (history)
    crossed         \* one ran downwards while another migrator was at work (history)

fileVars == <<version, schema, nodes, rows>>
migratorVars == <<at, current, goal>>
historyVars == <<initially, lowered, crossed>>
migrationVars == <<fileVars, migratorVars, historyVars>>

Shape(v) ==
    [approvals |-> v >= 3, namespace |-> v >= 5,
     tags |-> IF v < 4 THEN "none" ELSE IF v < 6 THEN "text" ELSE "nodes"]

\* A file of some version, or one that open has just made.
Init ==
    /\ version \in 0 .. Target
    /\ schema = Shape(IF version = 0 THEN Target ELSE version)
    /\ rows \in IF version >= 4 THEN SUBSET (Chunks \X Tags) ELSE {{}}
    /\ nodes = IF version = 6 THEN Tags ELSE {}
    /\ at = [m \in Migrators |-> "idle"]
    /\ current = [m \in Migrators |-> 0]
    /\ goal = [m \in Migrators |-> 0]
    /\ initially = rows /\ lowered = FALSE /\ crossed = FALSE

Busy(m) == at[m] \in {"starting", "climbing", "descending", "stamping"}

-----------------------------------------------------------------------------
(* The scripts.                                                            *)

\* V5ToV6TagNodesAndEpa: text becomes references; a table that has them is left alone,
\* and one that is missing fails the script.
TagsByNode ==
    /\ schema.tags # "none"
    /\ schema' = [schema EXCEPT !.tags = "nodes"]
    /\ nodes' = IF schema.tags = "nodes" THEN nodes ELSE nodes \cup {r[2] : r \in rows}
    /\ rows' = IF schema.tags = "nodes" THEN rows ELSE {r \in rows : r[2] \in nodes'}

Keep == UNCHANGED <<nodes, rows>>

Up(v) ==
    \/ v = 1 /\ UNCHANGED schema /\ Keep
    \/ v = 2 /\ schema' = [schema EXCEPT !.approvals = TRUE] /\ Keep
    \/ v = 3 /\ schema' = [schema EXCEPT !.tags = IF @ = "none" THEN "text" ELSE @] /\ Keep
    \/ v = 4 /\ schema' = [schema EXCEPT !.namespace = TRUE] /\ Keep
    \/ v = 5 /\ TagsByNode

\* V4ToV5ChunksNamespace.down makes the table anew; with the old one go, by their
\* foreign keys, the rows of chunk_tags.  Versions 2 and 6 have no way down.
Down(v) ==
    \/ /\ v = 5
       /\ rows' = IF schema.namespace THEN {} ELSE rows
       /\ schema' = [schema EXCEPT !.namespace = FALSE]
       /\ UNCHANGED nodes
    \/ v = 4 /\ schema' = [schema EXCEPT !.tags = "none"] /\ rows' = {} /\ UNCHANGED nodes
    \/ v = 3 /\ schema' = [schema EXCEPT !.approvals = FALSE] /\ Keep

-----------------------------------------------------------------------------
(* The migrators.                                                          *)

\* ensure_schema: a new file is stamped, one of the right version left alone.
EnsureReads(m) ==
    /\ at[m] = "idle" /\ version < Target
    /\ at' = [at EXCEPT ![m] = IF version = 0 THEN "stamping" ELSE "starting"]
    /\ UNCHANGED <<fileVars, current, goal, historyVars>>

Stamp(m) ==
    /\ at[m] = "stamping"
    /\ version' = Target /\ at' = [at EXCEPT ![m] = "idle"]
    /\ UNCHANGED <<schema, nodes, rows, current, goal, historyVars>>

\* migrate_up reads the version once more.
StartUp(m) ==
    /\ at[m] = "starting"
    /\ current' = [current EXCEPT ![m] = version]
    /\ at' = [at EXCEPT ![m] = "climbing"]
    /\ UNCHANGED <<fileVars, goal, historyVars>>

RunUp(m) ==
    /\ at[m] = "climbing" /\ current[m] < Target
    /\ Up(current[m])
    /\ version' = current[m] + 1
    /\ current' = [current EXCEPT ![m] = @ + 1]
    /\ UNCHANGED <<at, goal, historyVars>>

StartDown(m, target) ==
    /\ at[m] = "idle" /\ target < version
    /\ current' = [current EXCEPT ![m] = version]
    /\ goal' = [goal EXCEPT ![m] = target]
    /\ at' = [at EXCEPT ![m] = "descending"]
    /\ crossed' = (crossed \/ \E n \in Migrators : Busy(n))
    /\ UNCHANGED <<fileVars, initially, lowered>>

RunDown(m) ==
    /\ at[m] = "descending" /\ current[m] > goal[m]
    /\ Down(current[m])
    /\ version' = current[m] - 1
    /\ current' = [current EXCEPT ![m] = @ - 1]
    /\ lowered' = TRUE
    /\ crossed' = (crossed \/ \E n \in Migrators \ {m} : Busy(n))
    /\ UNCHANGED <<at, goal, initially>>

\* Arrived, a script failed, the database was busy, or the process died.
Ends(m) ==
    /\ Busy(m)
    /\ at' = [at EXCEPT ![m] = "idle"]
    /\ current' = [current EXCEPT ![m] = 0] /\ goal' = [goal EXCEPT ![m] = 0]
    /\ UNCHANGED <<fileVars, historyVars>>

Next ==
    \E m \in Migrators :
        \/ EnsureReads(m) \/ Stamp(m) \/ StartUp(m) \/ RunUp(m)
        \/ (\E target \in 1 .. Target : StartDown(m, target)) \/ RunDown(m) \/ Ends(m)

Spec == Init /\ [][Next]_migrationVars

-----------------------------------------------------------------------------
TypeOK ==
    /\ version \in 0 .. Target
    /\ schema \in [approvals : BOOLEAN, namespace : BOOLEAN, tags : {"none", "text", "nodes"}]
    /\ nodes \subseteq Tags /\ rows \subseteq Chunks \X Tags
    /\ at \in [Migrators -> {"idle", "starting", "climbing", "descending", "stamping"}]
    /\ current \in [Migrators -> 0 .. Target]

\* The version claims no table or column that is not there, wherever migrators stop and
\* although a slow one may write an older version over a newer (run_up_in_tx).
VersionIsNotAhead ==
    ~crossed =>
        /\ version >= 3 => schema.approvals
        /\ version >= 4 => schema.tags # "none"
        /\ version >= 5 => schema.namespace
        /\ version >= 6 => schema.tags = "nodes"

\* Going up loses no tag, whichever scripts run twice, and a reference has its node
\* (V5ToV6TagNodesAndEpa).
TagsSurviveUpgrades ==
    /\ ~lowered => rows = initially
    /\ schema.tags = "nodes" => \A r \in rows : r[2] \in nodes
=============================================================================
