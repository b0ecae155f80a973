------------------------------ MODULE Backfill ------------------------------
(***************************************************************************)
(* The import of a stopped file server's state into PostgreSQL             *)
(* (src/central/storage.rs, storage/backfill.rs, storage/loans.rs): table  *)
(* after table, row after row, each its own transaction, so that a run may *)
(* fail at any row and is then repeated.  Between two runs the file server *)
(* or a PostgreSQL server may have been serving.                           *)
(*                                                                         *)
(* A row is its revision and who wrote it; revision 0 is no row.  Rows are *)
(* copied in any order; the code's order is one of them.                   *)
(***************************************************************************)
EXTENDS Integers, FiniteSets

CONSTANTS
  Rows,
  Cap,     \* rows of a table that a backfill accepts: 50000
  Stores   \* bounds of a behaviour: the rows of each table and side it starts from,
           \* and how many writes of each server and failures there are

VARIABLES
  source,  \* table -> row -> [rev, by], the file server's
  target,  \* the same in PostgreSQL; a removed row has by = "removed"
  run,     \* the backfill: at, todo (rows of its table not copied yet)
  mixed,   \* somebody wrote between two runs
  quota    \* writes and failures left

backfillVars == <<source, target, run, mixed, quota>>

Tables == {"aliases", "accounts", "users", "devices", "loans"}
NoRow == [rev |-> 0, by |-> "file"]
There(side, t) == {r \in Rows : side[t][r] # NoRow}
Removed(t, r) == target[t][r].by = "removed"
Shown(t) == {r \in There(target, t) : ~Removed(t, r)}
Fits(t) == Cardinality(There(target, t)) <= Cap
Stopped == [at |-> "stopped", todo |-> {}]
Turn(t) == run' = [at |-> t, todo |-> There(source, t)]

BackfillInit ==
  \E s \in Stores :
    /\ source = [t \in Tables |-> [r \in Rows |->
         IF r \in s.source[t] THEN [rev |-> 1, by |-> "file"] ELSE NoRow]]
    /\ target = [t \in Tables |-> [r \in Rows |->
         IF r \in s.target[t] THEN [rev |-> 1, by |-> "server"] ELSE NoRow]]
    /\ mixed = (\E t \in Tables : s.target[t] # {})
    /\ run = Stopped
    /\ quota = [file |-> s.file, server |-> s.server, failures |-> s.failures]

---------------------------------------------------------------------------
\* target_counts and source_counts refuse before the first row is decoded.
Begin ==
  /\ run.at \in {"stopped", "reported"}
  /\ \A t \in Tables : Fits(t) /\ Cardinality(There(source, t)) <= Cap
  /\ Turn("aliases")
  /\ UNCHANGED <<source, target, mixed, quota>>

\* A bail ends the run; what it has copied stays.
Bail == run' = Stopped /\ UNCHANGED target

\* save_alias_tombstones: all or none; the update of a name that is used again does
\* not bring a deleted one back.
Aliases ==
  [r \in Rows |-> IF r \in There(source, "aliases") /\ ~Removed("aliases", r)
                  THEN source["aliases"][r] ELSE target["aliases"][r]]
AliasesMatch ==
  /\ \A r \in There(source, "aliases") : ~Removed("aliases", r)
  /\ Shown("aliases") \subseteq There(source, "aliases")
  /\ Cardinality(There(source, "aliases") \cup There(target, "aliases")) <= Cap
CopyAliases ==
  /\ run.at = "aliases"
  /\ IF AliasesMatch
     THEN target' = [target EXCEPT !["aliases"] = Aliases] /\ Turn("accounts")
     ELSE Bail
  /\ UNCHANGED <<source, mixed, quota>>

\* save_account replaces an older revision only, and only of a row that is not removed.
\* Mutated form: the revisions are not compared.
Replaced(t, r) == target[t][r] # source[t][r]
Newer(t, r) == target[t][r].rev < source[t][r].rev
\* Users, devices and loans (with their audit) are inserted: what is there stays.
Copies(t, r) ==
  IF t = "accounts" THEN Newer(t, r) /\ ~Removed(t, r) ELSE target[t][r] = NoRow
Copied(t, r) == IF Copies(t, r) THEN source[t][r] ELSE target[t][r]

\* Every row is read back and compared.
\* Mutated form: a row that was there before is taken for copied.
ReadsBackCopied(t, r) == ~Removed(t, r)
ReadsBack(t, r) == Copied(t, r) = source[t][r]
CopyRow(r) ==
  /\ run.at \in {"accounts", "users", "devices", "loans"} /\ r \in run.todo
  /\ IF ReadsBack(run.at, r)
     THEN /\ target' = [target EXCEPT ![run.at][r] = Copied(run.at, r)]
          /\ run' = [run EXCEPT !.todo = @ \ {r}]
     ELSE Bail
  /\ UNCHANGED <<source, mixed, quota>>

\* A table done: the next one, with the checks that stand between them.
\* verify_devices: a device of a tenant the source knows may be retained, removed.
DevicesMatch == (\A t \in Tables : Fits(t)) /\ Shown("devices") \subseteq There(source, "devices")
\* import_loans counts what it would add, and refuses a loan that the source lacks.
LoansFit == Cardinality(There(source, "loans") \cup There(target, "loans")) <= Cap
\* The last counts, and the rows that the source lacks.
NothingExtra ==
  /\ There(target, "loans") \subseteq There(source, "loans")
  /\ \A t \in Tables : Fits(t)
  /\ \A t \in {"accounts", "users"} : Shown(t) \subseteq There(source, t)
NextTable ==
  /\ run.todo = {}
  /\ \/ run.at = "accounts" /\ Turn("users") /\ UNCHANGED target
     \/ run.at = "users" /\ Turn("devices") /\ UNCHANGED target
     \/ /\ run.at = "devices"
        /\ IF DevicesMatch /\ LoansFit THEN Turn("loans") /\ UNCHANGED target ELSE Bail
     \/ /\ run.at = "loans"
        /\ IF NothingExtra THEN run' = [at |-> "reported", todo |-> {}] /\ UNCHANGED target
           ELSE Bail
  /\ UNCHANGED <<source, mixed, quota>>

\* A crash, a failed statement, or a claim that check_claims refuses.
Fail ==
  /\ run.at \notin {"stopped", "reported"} /\ quota.failures > 0
  /\ run' = Stopped
  /\ quota' = [quota EXCEPT !.failures = @ - 1]
  /\ UNCHANGED <<source, target, mixed>>

BackfillStep ==
  Begin \/ CopyAliases \/ (\E r \in Rows : CopyRow(r)) \/ NextTable \/ Fail

---------------------------------------------------------------------------
\* Between two runs: the file server changes a row, which it does not remove (a loan
\* has ended, a user is disabled, a credential is refreshed).
FileWrites(t, r) ==
  /\ run.at \in {"stopped", "reported"} /\ quota.file > 0
  /\ source' = [source EXCEPT ![t][r].rev = @ + 1]
  /\ quota' = [quota EXCEPT !.file = @ - 1]
  /\ run' = Stopped /\ mixed' = TRUE
  /\ UNCHANGED target

\* A PostgreSQL server writes or removes one; a loan's end is a write.
ServerWrites(t, r, by) ==
  /\ run.at \in {"stopped", "reported"} /\ quota.server > 0
  /\ ~Removed(t, r) /\ (by = "removed" => target[t][r] # NoRow /\ t # "loans")
  /\ target' = [target EXCEPT ![t][r] = [rev |-> @.rev + 1, by |-> by]]
  /\ quota' = [quota EXCEPT !.server = @ - 1]
  /\ run' = Stopped /\ mixed' = TRUE
  /\ UNCHANGED source

BackfillNext ==
  \/ BackfillStep
  \/ \E t \in Tables, r \in Rows :
       FileWrites(t, r) \/ \E by \in {"server", "removed"} : ServerWrites(t, r, by)

BackfillSpec == BackfillInit /\ [][BackfillNext]_backfillVars

---------------------------------------------------------------------------
BackfillTypeOK ==
  /\ run.todo \subseteq Rows
  /\ \A t \in Tables, r \in Rows : source[t][r].by = "file"

\* What a run reports as imported is the file server's state, row for row: nothing
\* stale is left, nothing is there that the source lacks, and no table is over its cap.
ReportExact ==
  run.at = "reported" =>
    \A t \in Tables :
      /\ Fits(t)
      /\ \A r \in Rows : target[t][r] = source[t][r] \/ (Removed(t, r) /\ source[t][r] = NoRow)

\* A run that stopped can always be repeated: while nobody else wrote, every row is
\* the source's or not there yet.
Repeatable ==
  ~mixed => \A t \in Tables, r \in Rows : target[t][r] \in {NoRow, source[t][r]}

BackfillIInv == BackfillTypeOK /\ ReportExact /\ Repeatable

\* A backfill never takes a row back: no revision falls, nothing removed returns, only
\* accounts and aliases are replaced, and no table it checks first outgrows the cap.
RowsKept ==
  BackfillStep =>
    /\ \A t \in Tables, r \in Rows : target'[t][r] # target[t][r] =>
         /\ target[t][r].by # "removed"
         /\ t # "aliases" => target'[t][r].rev > target[t][r].rev
         /\ t \in {"users", "devices", "loans"} => target[t][r] = NoRow
    /\ \A t \in {"aliases", "loans"} :
         Cardinality({r \in Rows : target'[t][r] # NoRow}) <= Cap
           \/ target'[t] = target[t]
BackfillSafe == [][RowsKept]_backfillVars
=============================================================================
