------------------------------- MODULE Schema -------------------------------
(***************************************************************************)
(* What a PostgreSQL schema is to the migrations of apps/api/alembic and   *)
(* to the models: a set of facts (this table has that column, that key     *)
(* points there), and what each statement of a migration does to it.       *)
(*                                                                         *)
(* Kept: tables, columns and whether they may be empty, server defaults,   *)
(* primary and foreign keys with their rule, unique and plain indexes with *)
(* their condition, checks, row-level policies, the labels of the enum     *)
(* types and the one function.  Left out: column types, comments, grants   *)
(* and the rows (a backfill is a statement that changes no fact).          *)
(***************************************************************************)
EXTENDS Naturals, Sequences, FiniteSets

LOCAL INSTANCE SequencesExt

Kinds == {"table", "column", "default", "object", "policy", "label", "function"}

Empty == [k \in Kinds |-> {}]

Of(F, k) == {f \in F : f.kind = k}

-----------------------------------------------------------------------------
(* The names db/base.py's convention gives: an index, a foreign key and a  *)
(* primary key are named after the table, the first column and the target. *)

Ix(t, c) == <<"ix", t, c>>
Fk(t, c, to) == <<"fk", t, c, to>>
Pk(t) == <<"pk", t>>

-----------------------------------------------------------------------------
(* Facts, in the vocabulary of the migrations and of the models.           *)

Column(t, c, required) == [kind |-> "column", table |-> t, column |-> c, required |-> required]
Required(t, cs) == {Column(t, c, TRUE) : c \in cs}
Optional(t, cs) == {Column(t, c, FALSE) : c \in cs}

\* Columns the server fills when an INSERT leaves them out.
Filled(t, cs) == {[kind |-> "default", table |-> t, column |-> c] : c \in cs}

Table(t, required, optional) ==
    {[kind |-> "table", table |-> t]} \cup Required(t, required) \cup Optional(t, optional)

Object(t, name, over, unique, where, to, rule, test) ==
    [kind |-> "object", table |-> t, name |-> name, over |-> over, unique |-> unique,
     where |-> where, to |-> to, rule |-> rule, test |-> test]

PrimaryKey(t, over) == Object(t, Pk(t), over, "key", "", "", "", "")

NamedKey(t, name, over, to, rule) == Object(t, <<name>>, over, "no", "", to, rule, "")
Keys(t, rule, targets) ==
    {Object(t, Fk(t, k[1], k[2]), <<k[1]>>, "no", "", k[2], rule, "") : k \in targets}

IndexAmong(t, name, over, where) == Object(t, <<name>>, over, "no", where, "", "", "")
Index(t, name, over) == IndexAmong(t, name, over, "")
Indexed(t, cs) == {Object(t, Ix(t, c), <<c>>, "no", "", "", "", "") : c \in cs}
UniqueAmong(t, name, over, where) == Object(t, <<name>>, over, "yes", where, "", "", "")
\* A unique constraint lets two empty values differ, unless told otherwise.
Unique(t, name, over) == Object(t, <<name>>, over, "nulls differ", "", "", "", "")
UniqueWithNulls(t, name, over) == Object(t, <<name>>, over, "nulls equal", "", "", "", "")

Check(t, name, c, test) == Object(t, <<name>>, <<c>>, "no", "", "", "", test)

\* Almost every table: an identifier and the two timestamps, which the
\* server fills (Stamped) or the application must (Entity).
Entity(t, required, optional) ==
    Table(t, required \cup {"id", "created_at", "updated_at"}, optional)
    \cup {PrimaryKey(t, <<"id">>)}
Stamped(t, required, optional) ==
    Entity(t, required, optional) \cup Filled(t, {"created_at", "updated_at"})

\* A row is visible by its own school_id, or through its parent's.
Policy(t, via) == [kind |-> "policy", table |-> t, via |-> via]
Policed(ts) == {Policy(t, t) : t \in ts}
PolicedThrough(links) == {Policy(l[1], l[2]) : l \in links}
SchoolPolicy(who) == [kind |-> "policy", table |-> "school", via |-> "teacher_school", who |-> who]

TenantOfJob == [kind |-> "function", name |-> "alppy_job_school"]

Labels(type, ls) == {[kind |-> "label", type |-> type, label |-> l] : l \in ls}

EmbeddingIndex == Index("source_chunk", "ix_source_chunk_embedding_hnsw", <<"embedding">>)

-----------------------------------------------------------------------------
(* The statements of a migration.                                          *)

Add(F) == [op |-> "add", facts |-> F]
AddIfAbsent(F) == [op |-> "add if absent", facts |-> F]
Drop(names) == [op |-> "drop", names |-> names]
DropIfPresent(names) == [op |-> "drop if present", names |-> names]
DropColumns(t, cs) == [op |-> "drop columns", table |-> t, columns |-> cs]
DropTable(t) == [op |-> "drop table", table |-> t]
RenameColumn(t, from, to) == [op |-> "rename column", table |-> t, from |-> from, to |-> to]
Rename(from, to) == [op |-> "rename", from |-> from, to |-> to]
Require(t, cs) == [op |-> "require", table |-> t, columns |-> cs, required |-> TRUE]
Relax(t, cs) == [op |-> "require", table |-> t, columns |-> cs, required |-> FALSE]
Unfill(t, cs) == [op |-> "unfill", table |-> t, columns |-> cs]
NewType(type, ls) == [op |-> "new type", type |-> type, labels |-> ls]
AddLabels(type, ls) == [op |-> "add labels", type |-> type, labels |-> ls]
RenameLabel(type, from, to) == [op |-> "rename label", type |-> type, from |-> from, to |-> to]
DropTypes(types) == [op |-> "drop types", types |-> types]
DropTypesIfPresent(types) == [op |-> "drop types if present", types |-> types]
DropPolicies(ts) == [op |-> "drop policies", tables |-> ts]
DropFunction == [op |-> "drop function"]
BuildConcurrently(o) == [op |-> "build concurrently", object |-> o]
DropConcurrently(o) == [op |-> "drop concurrently", object |-> o]

-----------------------------------------------------------------------------
TableNames(db) == {f.table : f \in db["table"]}
ObjectNames(db) == {o.name : o \in db["object"]}
HasColumn(db, t, c) == \E r \in BOOLEAN : Column(t, c, r) \in db["column"]
TypeNames(db) == {f.type : f \in db["label"]}

With(db, F) == [k \in Kinds |-> db[k] \cup Of(F, k)]

\* A fact the server would not take: its table, a column it is over or its
\* target is not there, or another fact of the kind holds its name.
Dangles(db, f) ==
    \/ f.kind \notin {"table", "label", "function"} /\ f.table \notin TableNames(db)
    \/ f.kind = "default" /\ ~HasColumn(db, f.table, f.column)
    \/ f.kind = "object" /\ \/ \E c \in ToSet(f.over) : ~HasColumn(db, f.table, c)
                            \/ f.to # "" /\ f.to \notin TableNames(db)
    \/ f.kind = "policy" /\ f.via \notin TableNames(db)

Clashes(db, f) ==
    \/ f.kind = "table" /\ f \in db["table"]
    \/ f.kind = "column" /\ HasColumn(db, f.table, f.column)
    \/ f.kind = "object" /\ f.name \in ObjectNames(db)
    \/ f.kind = "label" /\ f.type \in TypeNames(db)
    \/ f.kind = "policy" /\ \E p \in db["policy"] : p.table = f.table

\* The statements PostgreSQL refuses: a name taken, a name missing, a table
\* something else still points at.
Refuses(db, s) ==
    CASE s.op \in {"add", "add if absent"} ->
            \/ LET after == With(db, s.facts) IN \E f \in s.facts : Dangles(after, f)
            \/ s.op = "add" /\ \E f \in s.facts : Clashes(db, f)
      [] s.op = "drop" -> ~(s.names \subseteq ObjectNames(db))
      [] s.op \in {"drop columns", "require", "unfill"} ->
            \E c \in s.columns : ~HasColumn(db, s.table, c)
      [] s.op = "drop table" ->
            \/ s.table \notin TableNames(db)
            \/ \E o \in db["object"] : o.to = s.table /\ o.table # s.table
            \/ \E p \in db["policy"] : p.via = s.table /\ p.table # s.table
      [] s.op = "rename column" -> ~HasColumn(db, s.table, s.from) \/ HasColumn(db, s.table, s.to)
      [] s.op = "rename" -> s.from \notin ObjectNames(db) \/ s.to \in ObjectNames(db)
      [] s.op = "add labels" -> s.type \notin TypeNames(db)
      [] s.op = "rename label" ->
            \/ ~(Labels(s.type, {s.from}) \subseteq db["label"])
            \/ Labels(s.type, {s.to}) \subseteq db["label"]
      [] s.op = "drop types" -> ~(s.types \subseteq TypeNames(db))
      [] OTHER -> FALSE

Without(db, k, Gone(_)) == [db EXCEPT ![k] = {f \in @ : ~Gone(f)}]

Named(db, names) ==
    LET Gone(o) == o.name \in names IN Without(db, "object", Gone)

\* A column takes with it its default and every object over it.
WithoutColumns(db, t, cs) ==
    LET Lost(f) == f.table = t /\ f.column \in cs
        Covers(o) == o.table = t /\ ToSet(o.over) \cap cs # {}
    IN Without(Without(Without(db, "column", Lost), "default", Lost), "object", Covers)

WithoutTable(db, t) ==
    [k \in Kinds |-> IF k \in {"label", "function"} THEN db[k] ELSE {f \in db[k] : f.table # t}]

ColumnRenamed(db, t, from, to) ==
    LET Moved(f) == IF f.table = t /\ f.column = from THEN [f EXCEPT !.column = to] ELSE f
        Over(o) == IF o.table # t THEN o
                   ELSE [o EXCEPT !.over =
                            [i \in DOMAIN o.over |-> IF o.over[i] = from THEN to ELSE o.over[i]]]
    IN [db EXCEPT !["column"] = {Moved(f) : f \in @}, !["default"] = {Moved(f) : f \in @},
                  !["object"] = {Over(o) : o \in @}]

\* The facts after a statement the server accepts.
Outcome(db, s) ==
    CASE s.op = "add" -> With(db, s.facts)
      [] s.op = "add if absent" -> With(db, {f \in s.facts : ~Clashes(db, f)})
      [] s.op \in {"drop", "drop if present"} -> Named(db, s.names)
      [] s.op = "drop columns" -> WithoutColumns(db, s.table, s.columns)
      [] s.op = "drop table" -> WithoutTable(db, s.table)
      [] s.op = "rename column" -> ColumnRenamed(db, s.table, s.from, s.to)
      [] s.op = "rename" -> [db EXCEPT !["object"] =
                                {IF o.name = s.from THEN [o EXCEPT !.name = s.to] ELSE o : o \in @}]
      [] s.op = "require" ->
            LET Now(f) == IF f.table = s.table /\ f.column \in s.columns
                          THEN [f EXCEPT !.required = s.required] ELSE f
            IN [db EXCEPT !["column"] = {Now(f) : f \in @}]
      [] s.op = "unfill" -> [db EXCEPT !["default"] = @ \ Filled(s.table, s.columns)]
      [] s.op = "new type" ->
            IF s.type \in TypeNames(db) THEN db ELSE With(db, Labels(s.type, s.labels))
      [] s.op = "add labels" -> With(db, Labels(s.type, s.labels))
      [] s.op = "rename label" ->
            With([db EXCEPT !["label"] = @ \ Labels(s.type, {s.from})], Labels(s.type, {s.to}))
      [] s.op \in {"drop types", "drop types if present"} ->
            [db EXCEPT !["label"] = {f \in @ : f.type \notin s.types}]
      [] s.op = "drop policies" -> [db EXCEPT !["policy"] = {f \in @ : f.table \notin s.tables}]
      [] s.op = "drop function" -> [db EXCEPT !["function"] = {}]
      [] s.op = "build concurrently" ->
            IF s.object.name \in ObjectNames(db) THEN db ELSE With(db, {s.object})
      [] s.op = "drop concurrently" -> Named(db, {s.object.name})

\* A piece of a migration, statement after statement; the first refusal
\* stops it.
Ran(db, piece) ==
    LET Then(done, s) ==
            IF done.refused \/ Refuses(done.facts, s)
            THEN [done EXCEPT !.refused = TRUE]
            ELSE [done EXCEPT !.facts = Outcome(@, s)]
    IN FoldLeft(Then, [facts |-> db, refused |-> FALSE], piece)

=============================================================================
