------------------------------ MODULE Migration ------------------------------
(***************************************************************************)
(* The identity migration of the account database                          *)
(* (src/central/storage/migration.rs): every initializer runs it, several  *)
(* at once, in bounded batches that it decodes outside the admission lock; *)
(* it may die or run out of time at any point and is then run again.  Old  *)
(* servers write the source tables until the fence is committed.           *)
(***************************************************************************)
EXTENDS Integers, FiniteSets, Sequences, FiniteSetsExt

CONSTANTS
  Migrators,
  Keys,         \* the possible keys of a source table, numbers from 1
  Batch,        \* rows of a batch: 32
  Inventory,    \* rows the migration accepts: 5000
  Nothing,
  Databases     \* bounds of a behaviour: the source tables it starts from (rows),
                \* and how many writes and deaths there are

VARIABLES
  rows,      \* stage -> key -> [claim, account], or Nothing
  fence,     \* the source_fence row: exists, revision, records, completed
  progress,  \* stage -> exists, cursor, end, revision, records, completed
  claimants, \* central_account_identity_claims: claim -> account
  worker,    \* the migrators: at, stage, seen (a progress row), page, total
  budget     \* writes and deaths left

migrationVars == <<rows, fence, progress, claimants, worker, budget>>

Order == <<"claims", "accounts", "operations", "reservations">>
Stages == {Order[i] : i \in 1..4}
KeysOf(s) == {k \in Keys : rows[s][k] # Nothing}
AllClaims == {"c1", "c2"}
NoFence == [exists |-> FALSE, revision |-> 0, records |-> 0, completed |-> FALSE]
NoProgress == [exists |-> FALSE, cursor |-> 0, end |-> 0, revision |-> 0, records |-> 0,
               completed |-> FALSE]
Idle == [at |-> "idle", stage |-> 1, seen |-> NoProgress, page |-> {}, total |-> 0]

MigrationInit ==
  /\ \E d \in Databases :
       /\ rows = [s \in Stages |-> [k \in Keys |-> IF k \in DOMAIN d.rows[s] THEN d.rows[s][k]
                                                   ELSE Nothing]]
       /\ budget = [writes |-> d.writes, deaths |-> d.deaths]
  /\ fence = NoFence /\ progress = [s \in Stages |-> NoProgress]
  /\ claimants = [c \in AllClaims |-> Nothing]
  /\ worker = [m \in Migrators |-> Idle]

---------------------------------------------------------------------------
Pending == fence.exists /\ ~fence.completed
Ready == fence.exists /\ fence.completed
Enter(m, at) == worker' = [worker EXCEPT ![m] = [@ EXCEPT !.at = at]]
Stop(m) == worker' = [worker EXCEPT ![m] = Idle]
StageOf(m) == Order[worker[m].stage]

\* An old server's write: the trigger refuses it while the fence is pending.
\* What a server writes after readiness records its claims itself.
\* Mutated form: the triggers are not installed.
Unfenced == ~Ready
Writable == ~fence.exists
Write(s, k, written) ==
  /\ Writable /\ budget.writes > 0 /\ rows[s][k] = Nothing
  /\ rows' = [rows EXCEPT ![s][k] = written]
  /\ budget' = [budget EXCEPT !.writes = @ - 1]
  /\ UNCHANGED <<fence, progress, claimants, worker>>

\* migrate: the layout, the fence and its triggers in one transaction; then
\* identity_ready, and check_inventory_bound's early return.
Migrate(m) ==
  /\ worker[m].at = "idle" /\ ~Ready
  /\ fence' = [fence EXCEPT !.exists = TRUE]
  /\ Enter(m, IF fence.revision > 0 THEN "progress" ELSE "count")
  /\ UNCHANGED <<rows, progress, claimants, budget>>

Total == Cardinality(UNION {{<<s, k>> : k \in KeysOf(s)} : s \in Stages})
Count(m) ==
  /\ worker[m].at = "count"
  /\ worker' = [worker EXCEPT ![m] = [@ EXCEPT !.at = "record", !.total = Total]]
  /\ UNCHANGED <<rows, fence, progress, claimants, budget>>

Record(m) ==
  /\ worker[m].at = "record"
  /\ IF fence.revision = 0 /\ worker[m].total > Inventory
     THEN Stop(m) /\ UNCHANGED fence
     ELSE /\ fence' = IF fence.revision > 0 THEN fence
                      ELSE [fence EXCEPT !.records = worker[m].total, !.revision = 1]
          /\ worker' = [worker EXCEPT ![m] = [@ EXCEPT !.at = "progress", !.total = 0]]
  /\ UNCHANGED <<rows, progress, claimants, budget>>

\* migration_progress: the high-water key is fixed by the first to ask.
ReadProgress(m) ==
  LET s == StageOf(m)
      p == IF progress[s].exists THEN progress[s]
           ELSE [NoProgress EXCEPT !.exists = TRUE, !.end = Max({0} \cup KeysOf(s))]
  IN /\ worker[m].at = "progress"
     /\ progress' = [progress EXCEPT ![s] = p]
     /\ worker' = [worker EXCEPT ![m] =
          IF ~p.completed THEN [@ EXCEPT !.at = "page", !.seen = p]
          ELSE IF worker[m].stage = 4 THEN [Idle EXCEPT !.at = "finish"]
          ELSE [@ EXCEPT !.stage = worker[m].stage + 1]]
     /\ UNCHANGED <<rows, fence, claimants, budget>>

\* migration_page, and the decoding of what it read.
PageOf(p, s) ==
  LET range == {k \in KeysOf(s) : p.cursor < k /\ k <= p.end}
  IN {k \in range : Cardinality({j \in range : j <= k}) <= Batch}
ReadPage(m) ==
  /\ worker[m].at = "page"
  /\ worker' = [worker EXCEPT ![m] =
       [@ EXCEPT !.at = "commit", !.page = PageOf(worker[m].seen, StageOf(m))]]
  /\ UNCHANGED <<rows, fence, progress, claimants, budget>>

\* commit_migration_batch: the rows, the cursor and the count in one transaction,
\* if nobody committed since the progress was read.
\* Mutated form: the revision is not compared.
AlwaysCurrent(m) == progress[StageOf(m)].exists
Current(m) == progress[StageOf(m)].revision = worker[m].seen.revision
Declares(s) == s \in {"claims", "accounts"}
Learned(s, page) ==
  [c \in AllClaims |->
     IF claimants[c] = Nothing /\ Declares(s) /\ \E k \in page : c = rows[s][k].claim
     THEN rows[s][CHOOSE k \in page : c = rows[s][k].claim].account ELSE claimants[c]]
Conflict(s, page) ==
  Declares(s) /\ \E k \in page : /\ rows[s][k].claim \in AllClaims
                               /\ Learned(s, page)[rows[s][k].claim] # rows[s][k].account
\* Mutated form: the cursor moves to the end with the first batch.
CursorAtEnd(p, page) == p.end
Cursor(p, page) == Max({p.cursor} \cup page)
Commit(m) ==
  LET s == StageOf(m)
      page == worker[m].page
      p == worker[m].seen
  IN /\ worker[m].at = "commit"
     /\ IF ~Current(m) THEN UNCHANGED <<progress, claimants>> /\ Enter(m, "progress")
        ELSE IF Conflict(s, page) THEN UNCHANGED <<progress, claimants>> /\ Stop(m)
        ELSE /\ claimants' = Learned(s, page)
             /\ progress' = [progress EXCEPT ![s] =
                  [@ EXCEPT !.cursor = Cursor(p, page), !.completed = (page = {}),
                            !.revision = progress[s].revision + 1,
                            !.records = progress[s].records + Cardinality(page)]]
             /\ worker' = [worker EXCEPT ![m] =
                  [@ EXCEPT !.at = "progress", !.seen = NoProgress, !.page = {}]]
     /\ UNCHANGED <<rows, fence, budget>>

Finish(m) ==
  /\ worker[m].at = "finish"
  /\ \A s \in Stages : progress[s].completed
  /\ fence' = [fence EXCEPT !.completed = TRUE]
  /\ Stop(m)
  /\ UNCHANGED <<rows, progress, claimants, budget>>

\* A crash, a failed statement, or the five minutes of one run: what was not
\* committed is rolled back, and the migration is run again.
Die(m) ==
  /\ worker[m].at # "idle" /\ budget.deaths > 0
  /\ Stop(m)
  /\ budget' = [budget EXCEPT !.deaths = @ - 1]
  /\ UNCHANGED <<rows, fence, progress, claimants>>

MigrationNext ==
  \/ \E s \in Stages, k \in Keys : Write(s, k, [claim |-> "c2", account |-> "b"])
  \/ \E m \in Migrators :
       \/ Migrate(m) \/ Count(m) \/ Record(m) \/ ReadProgress(m) \/ ReadPage(m) \/ Commit(m)
       \/ Finish(m) \/ Die(m)

MigrationSpec == MigrationInit /\ [][MigrationNext]_migrationVars

---------------------------------------------------------------------------
MigrationTypeOK ==
  /\ \A s \in Stages : progress[s].cursor \in {0} \cup Keys
  /\ \A m \in Migrators : worker[m].stage \in 1..4 /\ worker[m].page \subseteq Keys

\* Readiness means that every row of every table was migrated, and that the
\* account of every claim is the one the source names.
ReadyComplete ==
  Ready => \A s \in Stages, k \in Keys : rows[s][k] # Nothing =>
    /\ k <= progress[s].cursor
    /\ Declares(s) /\ rows[s][k].claim \in AllClaims => claimants[rows[s][k].claim] = rows[s][k].account

\* Every row is counted once, and the tables are those the fence counted.
CountedOnce ==
  /\ \A s \in Stages : progress[s].records = Cardinality({k \in KeysOf(s) : k <= progress[s].cursor})
  /\ fence.revision > 0 => fence.records = Total /\ Total <= Inventory

\* What a batch committed is never contradicted by a later one.
OwnerFromSource ==
  \A c \in AllClaims : claimants[c] # Nothing =>
    \E s \in {"claims", "accounts"}, k \in Keys :
      rows[s][k] # Nothing /\ rows[s][k].claim = c /\ rows[s][k].account = claimants[c]
      /\ k <= progress[s].cursor

MigrationIInv == MigrationTypeOK /\ ReadyComplete /\ CountedOnce /\ OwnerFromSource
=============================================================================
