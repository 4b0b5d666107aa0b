----------------------------- MODULE DriftCheck -----------------------------
(***************************************************************************)
(* Migration status and drift detection (packages/db migration-status.ts,  *)
(* drift-check.ts, snapshot.ts) as operators.  A schema maps table names   *)
(* to tables; a catalog is a schema in the words of Postgres, a snapshot   *)
(* in those of drizzle-kit, and both are brought to one canonical form.    *)
(*                                                                         *)
(* Names and types are small values; a default keeps what its              *)
(* normalisation looks at: its text, its quotes and its cast.              *)
(***************************************************************************)
EXTENDS Integers, SequencesExt, TLC

CONSTANTS Snapshots      \* meta/NNNN_snapshot.json, in the order of the journal

Empty == [n \in {} |-> 0]

Merged(f, g) == [x \in DOMAIN f \cup DOMAIN g |-> IF x \in DOMAIN f THEN f[x] ELSE g[x]]

(* The columns of an index that are names *)
PlainColumns(columns) == SelectSeq(columns, LAMBDA c : c # "expression")

(* The parts of a snapshot that SnapshotSchema admits, its defaults filled *)
(* in.  A name stands for a string, "expression" for an index column that  *)
(* is none.  A type is a name in drizzle's words, with a length when it is *)
(* one of the two that have one.  Every foreign key has one column: of     *)
(* several, the query would return each with each.  Every index has a      *)
(* plain column: of one without, the query would return nothing.           *)
IsType(t, enums) == /\ t \in [name : {t.name}, length : Nat]
                    /\ t.name \notin {"USER-DEFINED", "character varying", "character"}
                    /\ t.length > 0 => t.name \in {"varchar", "char"} \ enums
IsColumn(c, enums) ==
    /\ DOMAIN c = {"type", "primaryKey", "notNull", "default"}
    /\ IsType(c.type, enums)
    /\ c.primaryKey \in BOOLEAN /\ c.notNull \in BOOLEAN
    /\ c.default \in [text : {c.default.text}, quoted : BOOLEAN, cast : BOOLEAN]
IsIndex(i) == /\ i \in [columns : {i.columns}, isUnique : BOOLEAN, constraint : BOOLEAN]
              /\ PlainColumns(i.columns) # <<>>
Actions == {"absent", "no action", "restrict", "cascade", "set null", "set default"}
IsForeignKey(k) ==
    /\ k \in [tableTo : {k.tableTo}, columnsFrom : {k.columnsFrom}, columnsTo : {k.columnsTo},
              onDelete : Actions, onUpdate : Actions]
    /\ Len(k.columnsFrom) = 1 /\ Len(k.columnsTo) = 1
IsTable(t, enums) ==
    /\ DOMAIN t = {"columns", "indexes", "foreignKeys", "compositePrimaryKey", "uniqueConstraints"}
    /\ \A c \in DOMAIN t.columns : IsColumn(t.columns[c], enums)
    /\ \A i \in DOMAIN t.indexes : IsIndex(t.indexes[i])
    /\ \A k \in DOMAIN t.foreignKeys : IsForeignKey(t.foreignKeys[k])
    /\ t.compositePrimaryKey \subseteq DOMAIN t.columns
IsSnapshot(s) ==
    /\ DOMAIN s = {"tables", "enums"}
    /\ \A t \in DOMAIN s.tables : IsTable(s.tables[t], DOMAIN s.enums)
    /\ s.enums \in [DOMAIN s.enums -> Seq(STRING)]

ASSUME SnapshotAssumption ==
    /\ Snapshots \in Seq(Range(Snapshots)) /\ Len(Snapshots) > 0
    /\ \A n \in DOMAIN Snapshots : IsSnapshot(Snapshots[n])

(* loadSnapshot: a checkout has the snapshots of its own journal. *)
CanLoad(journal, n) == n <= journal

EmptyCatalog == [tables |-> Empty, enums |-> Empty]

(* normalizeAction: upper case, and an absent action is NO ACTION. *)
NormalizeAction(a) == CASE a \in {"absent", "no action", "NO ACTION"} -> "NO ACTION"
                        [] a \in {"restrict", "RESTRICT"}            -> "RESTRICT"
                        [] a \in {"cascade", "CASCADE"}              -> "CASCADE"
                        [] a \in {"set null", "SET NULL"}            -> "SET NULL"
                        [] a \in {"set default", "SET DEFAULT"}      -> "SET DEFAULT"

NormalizedKeys(keys) == [k \in DOMAIN keys |-> [keys[k] EXCEPT !.onDelete = NormalizeAction(@),
                                                               !.onUpdate = NormalizeAction(@)]]

-----------------------------------------------------------------------------
(* Postgres *)

(* The catalog entry of a snapshot's column; enums is the set of type      *)
(* names that are enums.                                                   *)
CatalogColumn(c, enums) ==
    [data |-> IF c.type.name \in enums THEN "USER-DEFINED"
              ELSE IF c.type.name = "varchar" THEN "character varying"
              ELSE IF c.type.name = "char" THEN "character" ELSE c.type.name,
     udt |-> c.type.name, length |-> c.type.length, nullable |-> ~c.notNull,
     default |-> [c.default EXCEPT !.cast = c.default.quoted]]

(* Every constraint that is unique has an index behind it. *)
CatalogTable(t, enums) ==
    [columns |-> [c \in DOMAIN t.columns |-> CatalogColumn(t.columns[c], enums)],
     indexes |-> Merged([i \in DOMAIN t.indexes |-> [t.indexes[i] EXCEPT !.constraint = FALSE]],
                        [i \in DOMAIN t.uniqueConstraints |->
                           [columns |-> t.uniqueConstraints[i], isUnique |-> TRUE,
                            constraint |-> TRUE]]),
     foreignKeys |-> NormalizedKeys(t.foreignKeys),
     primaryKey |-> {c \in DOMAIN t.columns : t.columns[c].primaryKey} \cup t.compositePrimaryKey]

(* The catalog that the first n migrations make of an empty database *)
CatalogAfter(n) ==
    IF n = 0 THEN EmptyCatalog
    ELSE LET s == Snapshots[n] IN
         [tables |-> [t \in DOMAIN s.tables |-> CatalogTable(s.tables[t], DOMAIN s.enums)],
          enums |-> s.enums]

(* The migrations of the journal add tables, columns, enums and values of  *)
(* enums, each of them something, and change nothing that is there.        *)
Agree(f, g) == DOMAIN f \subseteq DOMAIN g /\ \A x \in DOMAIN f : f[x] = g[x]

Kept(a, b) ==
    /\ DOMAIN a.tables \subseteq DOMAIN b.tables
    /\ \A t \in DOMAIN a.tables :
          /\ Agree(a.tables[t].columns, b.tables[t].columns)
          /\ a.tables[t].indexes = b.tables[t].indexes
          /\ a.tables[t].foreignKeys = b.tables[t].foreignKeys
          /\ a.tables[t].primaryKey = b.tables[t].primaryKey
    /\ DOMAIN a.enums \subseteq DOMAIN b.enums
    /\ \A e \in DOMAIN a.enums : Agree(a.enums[e], b.enums[e])

Added(a, b) ==
    \/ DOMAIN b.tables \ DOMAIN a.tables # {}
    \/ \E t \in DOMAIN a.tables : DOMAIN b.tables[t].columns \ DOMAIN a.tables[t].columns # {}
    \/ DOMAIN b.enums \ DOMAIN a.enums # {}
    \/ \E e \in DOMAIN a.enums : DOMAIN b.enums[e] \ DOMAIN a.enums[e] # {}

ASSUME JournalAssumption ==
    \A n \in 1 .. Len(Snapshots) : /\ Kept(CatalogAfter(n - 1), CatalogAfter(n))
                                   /\ Added(CatalogAfter(n - 1), CatalogAfter(n))

(* Migration n on any catalog: its CREATEs and ADDs, which fail when they  *)
(* meet an object that is there already or miss the one they alter.        *)
NewTables(n) == DOMAIN CatalogAfter(n).tables \ DOMAIN CatalogAfter(n - 1).tables
NewColumns(n, t) == DOMAIN CatalogAfter(n).tables[t].columns
                    \ DOMAIN CatalogAfter(n - 1).tables[t].columns
NewValues(n, e) == SubSeq(CatalogAfter(n).enums[e], 1 + Len(CatalogAfter(n - 1).enums[e]),
                          Len(CatalogAfter(n).enums[e]))
AlteredTables(n) == {t \in DOMAIN CatalogAfter(n - 1).tables : NewColumns(n, t) # {}}

CanApply(db, n) ==
    /\ NewTables(n) \cap DOMAIN db.tables = {}
    /\ \A t \in AlteredTables(n) : /\ t \in DOMAIN db.tables
                                   /\ NewColumns(n, t) \cap DOMAIN db.tables[t].columns = {}
    /\ \A e \in DOMAIN CatalogAfter(n).enums :
          IF e \notin DOMAIN CatalogAfter(n - 1).enums THEN e \notin DOMAIN db.enums
          ELSE e \in DOMAIN db.enums /\ Range(NewValues(n, e)) \cap Range(db.enums[e]) = {}

Apply(db, n) ==
    LET target == CatalogAfter(n) IN
    [tables |-> [t \in DOMAIN db.tables \cup NewTables(n) |->
                   IF t \in NewTables(n) THEN target.tables[t]
                   ELSE IF t \notin AlteredTables(n) THEN db.tables[t]
                   ELSE [db.tables[t] EXCEPT !.columns =
                           Merged(@, [c \in NewColumns(n, t) |-> target.tables[t].columns[c]])]],
     enums |-> [e \in DOMAIN db.enums \cup DOMAIN target.enums |->
                  IF e \notin DOMAIN db.enums THEN target.enums[e]
                  ELSE IF e \in DOMAIN CatalogAfter(n - 1).enums
                  THEN db.enums[e] \o NewValues(n, e) ELSE db.enums[e]]]

-----------------------------------------------------------------------------
(* The canonical form *)

(* normalizeDefault: quotes and casts do not count. *)
NormalizeDefault(d) == d.text

CanonicalizeLiveType(row) ==
    CASE row.data = "USER-DEFINED"      -> [name |-> row.udt, length |-> 0]
      [] row.data = "character varying" -> [name |-> "varchar", length |-> row.length]
      [] row.data = "character"         -> [name |-> "char", length |-> row.length]
      [] OTHER                          -> [name |-> row.data, length |-> 0]

(* projectSnapshot: indexes only, expressions left out of them *)
ProjectTable(table) ==
    [columns |-> [c \in DOMAIN table.columns |->
                    [type |-> table.columns[c].type, notNull |-> table.columns[c].notNull,
                     default |-> NormalizeDefault(table.columns[c].default)]],
     indexes |-> [i \in DOMAIN table.indexes |->
                    [columns |-> PlainColumns(table.indexes[i].columns),
                     isUnique |-> table.indexes[i].isUnique]],
     foreignKeys |-> NormalizedKeys(table.foreignKeys),
     primaryKey |-> {c \in DOMAIN table.columns : table.columns[c].primaryKey}
                    \cup table.compositePrimaryKey]

ProjectSnapshot(s) ==
    [tables |-> [t \in DOMAIN s.tables |-> ProjectTable(s.tables[t])], enums |-> s.enums]

(* introspectLiveSchema: six queries, each a statement of its own.  All    *)
(* but the first and the enums look at the snapshot's tables only; those   *)
(* of indexes skip the primary key and what backs a constraint, and have   *)
(* no row for an expression.                                               *)
Queries == <<"tables", "columns", "enums", "indexes", "foreignKeys", "primaryKeys">>

IndexRows(indexes) ==
    [i \in {j \in DOMAIN indexes : ~indexes[j].constraint /\ PlainColumns(indexes[j].columns) # <<>>} |->
        [columns |-> PlainColumns(indexes[i].columns), isUnique |-> indexes[i].isUnique]]

Query(q, db, names) ==
    LET seen == names \cap DOMAIN db.tables IN
    CASE q = "tables"      -> DOMAIN db.tables
      [] q = "columns"     -> [t \in seen |-> db.tables[t].columns]
      [] q = "enums"       -> db.enums
      [] q = "indexes"     -> [t \in seen |-> IndexRows(db.tables[t].indexes)]
      [] q = "foreignKeys" -> [t \in seen |-> db.tables[t].foreignKeys]
      [] q = "primaryKeys" -> [t \in seen |-> db.tables[t].primaryKey]

(* assembleLiveSchema: a table exists when any query has a row of it. *)
LiveColumn(row) == [type |-> CanonicalizeLiveType(row), notNull |-> ~row.nullable,
                    default |-> NormalizeDefault(row.default)]

RowsOf(rows, t, none) == IF t \in DOMAIN rows THEN rows[t] ELSE none

LiveTable(columns, indexes, keys, primaryKey) ==
    [columns |-> [c \in DOMAIN columns |-> LiveColumn(columns[c])], indexes |-> indexes,
     foreignKeys |-> NormalizedKeys(keys), primaryKey |-> primaryKey]

AssembleLiveSchema(raw) ==
    [tables |-> [t \in raw[1] \cup DOMAIN raw[2] \cup DOMAIN raw[4] \cup DOMAIN raw[5]
                       \cup DOMAIN raw[6] |->
                    LiveTable(RowsOf(raw[2], t, Empty), RowsOf(raw[4], t, Empty),
                              RowsOf(raw[5], t, Empty), RowsOf(raw[6], t, {}))],
     enums |-> raw[3]]

-----------------------------------------------------------------------------
(* The comparison *)

Difference(kind, objects, detail) ==
    {[kind |-> kind, object |-> o, detail |-> detail] : o \in objects}

Objects(table, names) == {<<table, n>> : n \in names}

(* Missing, unexpected and different objects of one kind *)
Compare(kind, table, expected, actual) ==
    Difference(kind, Objects(table, DOMAIN expected \ DOMAIN actual), "missing_in_db")
    \cup Difference(kind, Objects(table, DOMAIN actual \ DOMAIN expected), "unexpected_in_db")
    \cup Difference(kind, Objects(table, {n \in DOMAIN expected \cap DOMAIN actual :
                                            expected[n] # actual[n]}), "mismatch")

(* What is compared of a column, and of a table as such *)
Compared(columns) == [c \in DOMAIN columns |-> <<columns[c].type, columns[c].notNull>>]
Present(tables) == [t \in DOMAIN tables |-> TRUE]

DiffTable(t, expected, actual) ==
    Compare("column", t, Compared(expected.columns), Compared(actual.columns))
    \cup Compare("index", t, expected.indexes, actual.indexes)
    \cup Compare("foreignKey", t, expected.foreignKeys, actual.foreignKeys)
    \cup Difference("primaryKey", IF expected.primaryKey = actual.primaryKey THEN {}
                                  ELSE {<<t, "">>}, "mismatch")

(* Mutant: what the database has too much goes unnoticed. *)
DiffSchemasOneWay(expected, actual) ==
    Compare("enum", "", expected.enums, actual.enums)
    \cup Difference("table", Objects("", DOMAIN expected.tables \ DOMAIN actual.tables),
                    "missing_in_db")
    \cup UNION {DiffTable(t, expected.tables[t], actual.tables[t]) :
                   t \in DOMAIN expected.tables \cap DOMAIN actual.tables}

DiffSchemas(expected, actual) ==
    Compare("enum", "", expected.enums, actual.enums)
    \cup Compare("table", "", Present(expected.tables), Present(actual.tables))
    \cup UNION {DiffTable(t, expected.tables[t], actual.tables[t]) :
                   t \in DOMAIN expected.tables \cap DOMAIN actual.tables}

(* collectDefaultNotes: defaults that differ, never drift *)
CollectDefaultNotes(expected, actual) ==
    LET Differs(t) == {c \in DOMAIN expected.tables[t].columns \cap DOMAIN actual.tables[t].columns :
            expected.tables[t].columns[c].default # actual.tables[t].columns[c].default} IN
    UNION {{<<t, c>> : c \in Differs(t)} : t \in DOMAIN expected.tables \cap DOMAIN actual.tables}

(* checkDrift on the answers of the six queries *)
CheckDrift(raw, n) ==
    LET expected == ProjectSnapshot(Snapshots[n])
        actual == AssembleLiveSchema(raw) IN
    [differences |-> DiffSchemas(expected, actual), notes |-> CollectDefaultNotes(expected, actual)]

(* db:check compares an undisturbed database with the last snapshot of the *)
(* checkout.                                                               *)
DbCheck(db, journal) ==
    CheckDrift([k \in 1 .. 6 |-> Query(Queries[k], db, DOMAIN Snapshots[journal].tables)], journal)

-----------------------------------------------------------------------------
(* computeMigrationStatus for a checkout whose journal has that many       *)
(* entries: entry i is applied when there is an i-th row, and rows beyond  *)
(* the journal are unknown.                                                *)
ComputeMigrationStatus(journal, rows) ==
    [i \in 1 .. (IF rows > journal THEN rows ELSE journal) |->
        IF i > journal THEN "UNKNOWN" ELSE IF i <= rows THEN "APPLIED" ELSE "PENDING"]

(* db:status *)
DbStatus(journal, rows) == Range(ComputeMigrationStatus(journal, rows))

(* Mutant: the ordinal of the first migration, zero, reads as none. *)
PlanPreflightTruthy(skip, rows) ==
    IF skip THEN [action |-> "skip-warned", expected |-> 0]
    ELSE IF rows <= 1 THEN [action |-> "skip-virgin", expected |-> 0]
    ELSE [action |-> "check", expected |-> rows]

(* planPreflight: the snapshot to compare with is that of the last row. *)
PlanPreflight(skip, rows) ==
    IF skip THEN [action |-> "skip-warned", expected |-> 0]
    ELSE IF rows = 0 THEN [action |-> "skip-virgin", expected |-> 0]
    ELSE [action |-> "check", expected |-> rows]
=============================================================================
