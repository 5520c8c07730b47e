----------------------------- MODULE SchemaChange -----------------------------
(***************************************************************************)
(* What one statement of a migration does to the schema and to the rows    *)
(* kept in it: the calls of Sequelize's queryInterface that the files under *)
(* src/migrations make, as PostgreSQL runs them.                           *)
(*                                                                         *)
(* The schema is the set of its objects, each a tuple that begins with the *)
(* table it belongs to:                                                    *)
(*   <<t>>                a table                                          *)
(*   <<t, n>>             a column, index or constraint of t by its name   *)
(*   <<t, c, "->", u>>    a foreign key from t (its column c) to table u   *)
(*   <<"type", t, c>>     the enum type Sequelize makes for column c of t  *)
(*   <<"type", t, c, v>>  a value added to it later                        *)
(* Columns a table is created with are objects only where a later          *)
(* statement depends on them.                                              *)
(***************************************************************************)
EXTENDS Sequences, Naturals

\* A statement runs only if what it needs is there and what it makes afresh is
\* not. It may be guarded: without `when` in the schema it does nothing.
Statement == [when |-> {}, needs |-> {}, fresh |-> {}, adds |-> {}, drops |-> {},
              rewrites |-> {}, restores |-> {}, deletes |-> {}, without |-> {}]

\* CREATE TABLE IF NOT EXISTS, preceded by the enum types, which are made only
\* if they are missing.
CreateTable(t, refs, enums) ==
  [Statement EXCEPT
     !.needs = {<<u>> : u \in refs \ {t}},
     !.adds = {<<t>>} \cup {<<t, "", "->", u>> : u \in refs}
                \cup {<<t, c>> : c \in enums} \cup {<<"type", t, c>> : c \in enums}]

\* ALTER TABLE ... ADD COLUMN fails on a column that exists.
AddColumn(t, c) ==
  [Statement EXCEPT !.needs = {<<t>>}, !.fresh = {<<t, c>>}, !.adds = {<<t, c>>}]

AddEnumColumn(t, c) ==
  [AddColumn(t, c) EXCEPT !.adds = {<<t, c>>, <<"type", t, c>>}]

AddRefColumn(t, c, u) ==
  [AddColumn(t, c) EXCEPT !.needs = {<<t>>, <<u>>}, !.adds = {<<t, c>>, <<t, c, "->", u>>}]

\* CREATE INDEX and ADD CONSTRAINT fail on a name that exists.
AddIndex(t, i, columns) ==
  [Statement EXCEPT !.needs = {<<t>>} \cup {<<t, c>> : c \in columns},
                    !.fresh = {<<t, i>>}, !.adds = {<<t, i>>}]

AddCheck(t, i, columns) == AddIndex(t, i, columns)

\* CREATE INDEX IF NOT EXISTS.
EnsureIndex(t, i) == [AddIndex(t, i, {}) EXCEPT !.fresh = {}]

\* CREATE EXTENSION IF NOT EXISTS.
EnsureExtension(e) == [Statement EXCEPT !.adds = {<<"extension", e>>}]

\* ALTER TYPE ... ADD VALUE IF NOT EXISTS.
AddValue(t, c, v) ==
  [Statement EXCEPT !.needs = {<<"type", t, c>>}, !.adds = {<<"type", t, c, v>>}]

\* DROP TABLE, INDEX and TYPE come with IF EXISTS, DROP COLUMN does not.
DropTable(t) == [Statement EXCEPT !.drops = {<<t>>}]
RemoveIndex(t, i) == [Statement EXCEPT !.drops = {<<t, i>>}]
DropType(t, c) == [Statement EXCEPT !.drops = {<<"type", t, c>>}]
RemoveColumn(t, c) == [Statement EXCEPT !.needs = {<<t, c>>}, !.drops = {<<t, c>>}]

\* RENAME: what hangs on the old name moves to the new one.
Rename(olds, news) ==
  [Statement EXCEPT !.needs = olds, !.fresh = news, !.adds = news, !.drops = olds]

RenameIfPresent(olds, news) == [Rename(olds, news) EXCEPT !.when = olds]

\* changeColumn: NOT NULL is an object of its own.
RelaxNotNull(t, c) == [Statement EXCEPT !.needs = {<<t>>}, !.drops = {<<t, c, "not null">>}]
SetNotNull(t, c, kind) ==
  [Statement EXCEPT !.needs = {<<t>>}, !.adds = {<<t, c, "not null">>}, !.without = {kind}]

\* UPDATE of the rows of a kind: from the old shape to the new one, or back.
Rewrite(kind, objects) == [Statement EXCEPT !.needs = objects, !.rewrites = {kind}]
Restore(kind, objects) == [Statement EXCEPT !.needs = objects, !.restores = {kind}]
DeleteRows(kind, t) == [Statement EXCEPT !.needs = {<<t>>}, !.deletes = {kind}]

--------------------------------------------------------------------------------

Within(o, p) == Len(p) <= Len(o) /\ SubSeq(o, 1, Len(p)) = p

\* What keeps p from being dropped: foreign keys to a table, the column of a type.
Blocks(o, p) ==
  \/ Len(p) = 1 /\ Len(o) = 4 /\ o[3] = "->" /\ o[4] = p[1] /\ o[1] # p[1]
  \/ Len(p) = 3 /\ p[1] = "type" /\ o = <<p[2], p[3]>>

Possible(s, schema, kinds) ==
  /\ s.needs \subseteq schema
  /\ s.fresh \cap schema = {}
  /\ s.without \cap kinds = {}
  /\ \A p \in s.drops, o \in schema : ~Blocks(o, p)

Effect(s, schema) ==
  {o \in schema : \A p \in s.drops : ~Within(o, p)} \cup s.adds

\* A database while a block of statements runs on it. A block is one transaction:
\* a statement that fails takes all of it back.
RunStatement(db, s) ==
  IF ~db.ok \/ ~(s.when \subseteq db.schema) THEN db
  ELSE IF ~Possible(s, db.schema, db.kinds) THEN [db EXCEPT !.ok = FALSE]
  ELSE [db EXCEPT !.schema = Effect(s, db.schema),
                  !.kinds = @ \ s.deletes,
                  !.rewrites = (@ \ s.restores) \cup s.rewrites,
                  !.restores = (@ \ s.rewrites) \cup s.restores]

RunBlock(block, schema, kinds) ==
  LET after[k \in 0..Len(block)] ==
        IF k = 0
        THEN [ok |-> TRUE, schema |-> schema, kinds |-> kinds, rewrites |-> {}, restores |-> {}]
        ELSE RunStatement(after[k - 1], block[k])
  IN after[Len(block)]

================================================================================
