----------------------------- MODULE Migrations -----------------------------
(***************************************************************************)
(* Alembic running the chain of module Revisions against one database.     *)
(*                                                                         *)
(* alembic/env.py wraps a whole run, however many migrations it takes, in  *)
(* ONE transaction; the row of alembic_version moves with each migration,  *)
(* inside it.  Five migrations break out: their COMMIT makes durable what  *)
(* the run did up to there, the row still naming the migration before, and *)
(* 0042 builds its index on a connection of its own, which is durable at   *)
(* once and can be cancelled half-way.  infra/api/entrypoint.sh starts the *)
(* upgrade again, up to ten times, when it fails.                          *)
(***************************************************************************)
EXTENDS Revisions, Models

LOCAL INSTANCE SequencesExt

CONSTANTS
    Goals,       \* revisions a deployment or an operator migrates to
    MaxCrashes   \* bound: runs that die before their end

ASSUME GoalsAssumption == Goals \subseteq 0..LastRevision
ASSUME MaxCrashesAssumption == MaxCrashes \in Nat

VARIABLES
    durable,   \* what is committed: the facts, the revision, the indexes left invalid
    run,       \* the run under way, or NoRun
    crashes,   \* runs that died
    torn       \* a run has died inside 0042, with its index half-built, or
               \* dropped and the revision not moved (auxiliary)

vars == <<durable, run, crashes, torn>>

NoRun == [under_way |-> FALSE]

InRun == run # NoRun

Init ==
    /\ durable = [facts |-> Empty, revision |-> 0, invalid |-> {}]
    /\ run = NoRun
    /\ crashes = 0
    /\ torn = FALSE

\* alembic upgrade / downgrade: the run reads the committed revision.
Start(goal) ==
    /\ ~InRun
    /\ goal # durable.revision
    /\ run' = [goal |-> goal, facts |-> durable.facts, revision |-> durable.revision,
               piece |-> 1, refused |-> FALSE]
    /\ UNCHANGED <<durable, crashes, torn>>

Goes(way) ==
    /\ InRun /\ ~run.refused
    /\ IF way = "up" THEN run.revision < run.goal ELSE run.goal < run.revision

Migration(way) == IF way = "up" THEN Upgrades[run.revision + 1] ELSE Downgrades[run.revision]

\* A statement on the second connection is durable when it returns.
IsConcurrent(piece) ==
    piece # <<>> /\ piece[1].op \in {"build concurrently", "drop concurrently"}

\* One piece of the next migration: to its COMMIT, or to its end, where the
\* version row moves.  A drop by name takes an invalid index too; a build
\* that finds the name taken does nothing.
Step(way) ==
    LET pieces == Migration(way)
        piece == pieces[run.piece]
        done == Ran(run.facts, piece)
        after == IF way = "up" THEN run.revision + 1 ELSE run.revision - 1
        last == run.piece = Len(pieces)
    IN /\ Goes(way)
       /\ run' = [run EXCEPT !.facts = done.facts, !.refused = done.refused,
                             !.revision = IF last /\ ~done.refused THEN after ELSE @,
                             !.piece = IF last THEN 1 ELSE @ + 1]
       /\ durable' =
            CASE done.refused -> durable
              [] IsConcurrent(piece) ->
                    LET facts == Outcome(durable.facts, piece[1])
                    IN [durable EXCEPT !.facts = facts, !.invalid = @ \cap ObjectNames(facts)]
              [] ~last -> [durable EXCEPT !.facts = done.facts, !.revision = run.revision]
              [] OTHER -> durable
       /\ UNCHANGED <<crashes, torn>>

Up == Step("up")
Down == Step("down")

\* The run's own COMMIT, at its end.
Finish ==
    /\ InRun /\ ~run.refused
    /\ run.revision = run.goal
    /\ durable' = [durable EXCEPT !.facts = run.facts, !.revision = run.revision]
    /\ run' = NoRun
    /\ UNCHANGED <<crashes, torn>>

\* 0042 has dropped its index on the second connection, and the run that takes
\* the revision back has not committed.
IsTorn ==
    /\ durable.revision >= 42
    /\ EmbeddingIndex.name \notin ObjectNames(durable.facts)

\* The process dies, loses its connection, or a data guard (0022, 0051)
\* raises: what was not committed is gone.
Crash ==
    /\ InRun
    /\ crashes < MaxCrashes
    /\ crashes' = crashes + 1
    /\ run' = NoRun
    /\ torn' = (torn \/ IsTorn)
    /\ UNCHANGED durable

\* ... in the middle of the concurrent build, which leaves the index behind,
\* invalid: the planner ignores it.
CancelBuild ==
    /\ Goes("up")
    /\ crashes < MaxCrashes
    /\ LET piece == Migration("up")[run.piece]
       IN /\ IsConcurrent(piece)
          /\ piece[1].object.name \notin ObjectNames(durable.facts)
          /\ durable' = [durable EXCEPT !.facts = Outcome(@, piece[1]),
                                        !.invalid = @ \cup {piece[1].object.name}]
    /\ crashes' = crashes + 1
    /\ run' = NoRun
    /\ torn' = TRUE

Next ==
    \/ \E goal \in Goals : Start(goal)
    \/ Up \/ Down
    \/ Finish
    \/ Crash \/ CancelBuild

Spec == Init /\ [][Next]_vars

-----------------------------------------------------------------------------
(* The facts of each revision when the chain is climbed from nothing.      *)

Built ==
    LET RanThrough(db, migration) ==
            FoldLeft(LAMBDA facts, piece : Ran(facts, piece).facts, db, migration)
    IN FoldLeft(LAMBDA seen, migration : Append(seen, RanThrough(seen[Len(seen)], migration)),
                <<Empty>>, Upgrades)

BuiltAt(revision) == Built[revision + 1]

\* What a revision settles whatever died before: all but the labels, which no
\* downgrade takes back, and the embedding index, which is built and dropped
\* outside every transaction.
Settled(db) ==
    [k \in Kinds |-> IF k = "label" THEN {}
                     ELSE IF k = "object" THEN {o \in db[k] : o.name # EmbeddingIndex.name}
                     ELSE db[k]]

Sorted(db) == DOMAIN db = Kinds /\ \A k \in Kinds : \A f \in db[k] : f.kind = k

TypeOK ==
    /\ durable.revision \in 0..LastRevision
    /\ durable.invalid \subseteq {EmbeddingIndex.name}
    /\ Sorted(durable.facts)
    /\ InRun => /\ run.goal \in Goals
                /\ run.revision \in 0..LastRevision
                /\ \A way \in {"up", "down"} :
                       Goes(way) => run.piece \in DOMAIN Migration(way)
    /\ crashes \in 0..MaxCrashes
    /\ torn \in BOOLEAN

\* Whatever was upgraded, downgraded, interrupted and begun again before, no
\* statement of a migration meets a name that is taken, missing or still in
\* use: entrypoint.sh's retries can succeed.
NothingIsRefused == InRun => ~run.refused

\* The revision alembic_version names determines the schema: a downgrade
\* undoes exactly what its upgrade did, and a run that died after one of the
\* early COMMITs left nothing of the migration it was in.
RevisionNamesTheSchema == Settled(durable.facts) = Settled(BuiltAt(durable.revision))

\* The labels a revision's code may write are in the enum types whenever the
\* database is at that revision.
LabelsAreThere == BuiltAt(durable.revision)["label"] \subseteq durable.facts["label"]

\* A downgrade to nothing leaves nothing, types included, so that the first
\* migration can run again.
BaseIsEmpty == durable.revision = 0 => durable.facts = Empty

\* From 0024 on, a table with a school_id of its own has the row-level policy
\* on it (teacher_school excepted, which is read before a tenant is known).
SchoolTablesArePoliced ==
    durable.revision >= 24 =>
        \A t \in TableNames(durable.facts) \ {"teacher_school"} :
            HasColumn(durable.facts, t, "school_id")
                => \E p \in durable.facts["policy"] : p.table = t

\* Wherever the chain stands, by whatever way it came there, alembic_version
\* tells what the database holds: the schema, the labels, the policies, and at
\* the base nothing (migrations run without anybody looking, entrypoint.sh).
ChainIsSound ==
    /\ TypeOK
    /\ RevisionNamesTheSchema
    /\ LabelsAreThere
    /\ BaseIsEmpty
    /\ SchoolTablesArePoliced

\* What the comparison of scripts/check-schema-drift.py sees: a foreign key's
\* name is not compared, and policies and functions are not in the models.
Compared(db) ==
    [k \in Kinds |->
        IF k \in {"policy", "function", "label"} THEN {}
        ELSE {IF k = "object" /\ f.to # "" THEN [f EXCEPT !.name = <<>>] ELSE f :
                 f \in db[k]}]

Declared == [k \in Kinds |-> Of(Metadata, k)]

\* At the head the database is what the models declare, no more and no less:
\* their columns, keys, indexes and checks, and every label they can write; and
\* no index is left that is written to and never read. Excepted is the embedding
\* index once a run has died inside 0042: its IF NOT EXISTS passes over an index
\* that is invalid (0042:41-43 calls that safe), and a downgrade past it that
\* dies has dropped it at a revision that has it.
HeadIsTheModels ==
    durable.revision = LastRevision =>
        /\ Compared(Settled(durable.facts)) = Compared(Settled(Declared))
        /\ Declared["label"] \subseteq durable.facts["label"]
        /\ ~torn => /\ Compared(durable.facts) = Compared(Declared)
                    /\ durable.invalid = {}

=============================================================================
