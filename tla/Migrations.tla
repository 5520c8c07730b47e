------------------------------ MODULE Migrations ------------------------------
(***************************************************************************)
(* sequelize-cli db:migrate and db:migrate:undo over the migrations of      *)
(* SchemaHistory, as deploy/deploy.sh runs them: before the API restarts,   *)
(* while the old one still serves. The row of SequelizeMeta that records a  *)
(* migration is written after it, in no transaction of its own, and a run   *)
(* may die at any point. One run at a time.                                 *)
(*                                                                         *)
(* Of the rows only one is followed: a payload whose keys one migration     *)
(* renames, or a takedown that another one stamps. It has the shape the     *)
(* API that wrote it knew, until a migration rewrites it.                   *)
(***************************************************************************)
EXTENDS SchemaHistory, FiniteSets

CONSTANTS
  MaxCrashes,   \* runs that die half-way
  Followed      \* kinds of rows to follow

ASSUME MigrationsAssumption == MaxCrashes \in Nat

VARIABLES
  schema,       \* the objects in the database
  executed,     \* how many migrations SequelizeMeta records
  run,          \* the migration being run: its direction and next block
  crashes,
  api,          \* the code that serves: that of before these migrations or after
  row,          \* the row followed
  rewritten,    \* history: kinds of rows whose rewrite has run and was not undone
  interrupted   \* history: <<direction, migration>> that died with a block committed

vars == <<schema, executed, run, crashes, api, row, rewritten, interrupted>>

Latest == Len(Migration)
Idle == [dir |-> "none", at |-> 0]
NoRow == [kind |-> "none", shape |-> "new", late |-> FALSE]

\* What holds a row of each kind.
Carrier == [shipping_address |-> <<"orders", "shipping_address">>,
            participants |-> <<"call_records", "participants">>,
            product_id |-> <<"messages">>,
            video_id |-> <<"messages">>,
            videos |-> <<"videos">>,
            posts |-> <<"posts">>]
Kind == DOMAIN Carrier

\* The column the new API writes a takedown's author to.
Stamp == [k \in {"videos", "posts"} |-> <<k, "deleted_by">>]

Current == IF run.dir = "up" THEN executed + 1 ELSE executed
Statements(m) == UNION {{m.up[k][j] : j \in DOMAIN m.up[k]} : k \in DOMAIN m.up}
                   \cup UNION {{m.down[k][j] : j \in DOMAIN m.down[k]} : k \in DOMAIN m.down}
BlocksOf(d, m) == IF d = "up" THEN Migration[m].up ELSE Migration[m].down

--------------------------------------------------------------------------------

\* db:migrate takes the first migration that is not recorded, db:migrate:undo the
\* last one that is.
Start(d) ==
  /\ run = Idle
  /\ IF d = "up" THEN executed < Latest ELSE executed > 0
  /\ run' = [dir |-> d, at |-> 1]
  /\ UNCHANGED <<schema, executed, crashes, api, row, rewritten, interrupted>>

\* The row after a block: rewritten, or gone with what held it.
RowAfter(db) ==
  IF row = NoRow THEN NoRow
  ELSE IF row.kind \notin db.kinds \/ Carrier[row.kind] \notin db.schema THEN NoRow
  ELSE [row EXCEPT !.shape = IF row.kind \in db.rewrites THEN "new"
                             ELSE IF row.kind \in db.restores THEN "old" ELSE @]

Ahead == run # Idle /\ run.at <= Len(BlocksOf(run.dir, Current))
Outcome == RunBlock(BlocksOf(run.dir, Current)[run.at], schema, {row.kind})

\* The next block: it commits, or a statement of it fails, which takes the block
\* back and ends the run.
RunNext ==
  /\ Ahead
  /\ LET db == Outcome IN
     \/ /\ db.ok
        /\ schema' = db.schema
        /\ row' = RowAfter(db)
        /\ rewritten' = (rewritten \ db.restores) \cup db.rewrites
        /\ run' = [run EXCEPT !.at = @ + 1]
     \/ /\ ~db.ok
        /\ run' = Idle
        /\ UNCHANGED <<schema, row, rewritten>>
  /\ UNCHANGED <<executed, crashes, api, interrupted>>

\* The row of SequelizeMeta is written, or deleted.
Record ==
  /\ run # Idle
  /\ run.at > Len(BlocksOf(run.dir, Current))
  /\ executed' = IF run.dir = "up" THEN executed + 1 ELSE executed - 1
  /\ run' = Idle
  /\ UNCHANGED <<schema, crashes, api, row, rewritten, interrupted>>

\* The open transaction, if any, is rolled back; what was committed stays.
Crash ==
  /\ run # Idle
  /\ crashes < MaxCrashes
  /\ crashes' = crashes + 1
  /\ run' = Idle
  /\ interrupted' = IF run.at > 1 THEN interrupted \cup {<<run.dir, Current>>} ELSE interrupted
  /\ UNCHANGED <<schema, executed, api, row, rewritten>>

Restart ==
  /\ api = "old"
  /\ executed = Latest
  /\ run = Idle
  /\ api' = "new"
  /\ UNCHANGED <<schema, executed, run, crashes, row, rewritten, interrupted>>

Write(k) ==
  /\ row = NoRow
  /\ Carrier[k] \in schema
  /\ api = "new" /\ k \in DOMAIN Stamp => Stamp[k] \in schema
  /\ row' = [kind |-> k, shape |-> api, late |-> k \in rewritten]
  /\ UNCHANGED <<schema, executed, run, crashes, api, rewritten, interrupted>>

Init ==
  /\ schema = {}
  /\ executed = 0
  /\ run = Idle
  /\ crashes = 0
  /\ api = "old"
  /\ row = NoRow
  /\ rewritten = {}
  /\ interrupted = {}

Next ==
  \/ \E d \in {"up", "down"} : Start(d)
  \/ RunNext
  \/ Record
  \/ Crash
  \/ Restart
  \/ \E k \in Followed : Write(k)

Spec == Init /\ [][Next]_vars

--------------------------------------------------------------------------------
(* Properties *)

\* The migrations whose comments promise that running them again is a no-op.
Rerunnable == {UserSearchTrgm, SearchIndexes, NotificationLikeType, PostModerationEnums,
               PostMediaPkRename, JsonbSnakeCase, MediaJobsPostMediaKind}

\* However the history is run up and down, no statement of it fails on what the
\* others made, dropped or left behind, unless a run was cut short: then the same
\* migration fails when it is run again, for what it had committed is not
\* recorded, but for those that may be re-run; or one in the other direction
\* meets what it left (all files, 20260726000000-jsonb-snake-case.js:20).
FailsOnlyInterrupted ==
  Ahead /\ ~Outcome.ok =>
    \E i \in interrupted :
      \/ i[1] # run.dir
      \/ i = <<run.dir, Current>> /\ (run.dir = "up" => Migration[Current] \notin Rerunnable)

\* A schema once migration n has been applied to it, every block of its up.
Applied(n, before) ==
  LET up == Migration[n].up
      after[k \in 0..Len(up)] ==
        IF k = 0 THEN before ELSE RunBlock(up[k], after[k - 1], {}).schema
  IN after[Len(up)]

\* (The UNION makes TLC evaluate one schema before it starts on the next, where
\* it would nest the evaluation of the whole history.)
SchemaUpTo[n \in 0..Latest] ==
  IF n = 0 THEN {} ELSE UNION {Applied(n, before) : before \in {SchemaUpTo[n - 1]}}
SchemaAt == [n \in 0..Latest |-> SchemaUpTo[n]]

\* What no down takes back: enum values and the extension, which say so, and the
\* enum type of post_engagements, whose down does not drop it.
Leftover == {<<"extension", "pg_trgm">>, <<"type", "post_engagements", "type">>}
Residue(o) == o \in Leftover \/ (Len(o) = 4 /\ o[1] = "type")

\* Undoing migrations leads back through the schemas they were applied to, and
\* applying them again leads forward to the same ones: but for the residue, the
\* schema is a function of what SequelizeMeta records (up and down of every file).
UndoRestores ==
  run = Idle /\ interrupted = {} =>
    /\ SchemaAt[executed] \subseteq schema
    /\ \A o \in schema \ SchemaAt[executed] : Residue(o)

\* Once every migration has run, whatever crashes and undos came before, a row of
\* the old shape is one the old API wrote after the rewrite had run and before
\* the restart, unless an undo of the rewrite was cut short: part of the rows then
\* go back to the old shape and the migration still counts as executed
\* (20260726000000-jsonb-snake-case.js:20, deploy/deploy.sh).
RowsConverted ==
  executed = Latest /\ run = Idle /\ row.shape = "old" =>
    row.late \/ \E i \in interrupted : i[1] = "down"

================================================================================
