------------------------------ MODULE MCServer ------------------------------
(***************************************************************************)
(* The account server's components in one run: a behaviour is one of one   *)
(* component (part), and the variables of the others stay 0.               *)
(***************************************************************************)
EXTENDS Loans, Sequences, TLC

CONSTANTS
  g1, g2,                                                                 \* Loans
  Window, Cooldown, Retention,                                            \* Capacity
  Identities, Attempts, DeviceCodes, Browsers, Nobody, Places, DeviceTTL, SessionTTL, Recent,
  LastDay                                                                 \* Enrollment

VARIABLES
  part,
  ticks, reports, histories, moves, capStore, capSession, moved, limits,
  today, site, users, devices, attempt, sessions, machines, audits, admitted,
  people, ledger, held, logins, imports, left,
  rows, fence, progress, claimants, migrator, chances,
  source, target, run, mixed, quota

---------------------------------------------------------------------------
\* Requests of one kind and logins are interchangeable.
Symmetry ==
  Permutations(Managers) \cup Permutations(Borrowers) \cup Permutations(Logins)

\* Capacity, with two failures for a cooldown and one move, or one and two: with
\* successes, with a death between the files, and with a new launcher.
Recovering(streak, budget, where, failed, completed, terminal, resumes, deaths) ==
  [streak |-> streak, moves |-> budget, where |-> where, on |-> 1, failed |-> failed,
   completed |-> completed, terminal |-> terminal, late |-> Window * completed,
   resumes |-> resumes, deaths |-> deaths]
MCBounds ==
  {Recovering(2, 1, {1}, 3, 1, 0, 0, 0), Recovering(1, 1, {}, 2, 0, 2, 0, 1),
   Recovering(1, 2, {}, 2, 0, 2, 1, 0), Recovering(1, 2, {}, 3, 0, 3, 0, 0)}

\* Enrollment: the cutover to the company's domains, with the old identity authorized
\* for a link or not, back and forth; two identities of one email; and revocations.
MCEmailOf == [u \in Identities |-> "person"]
Before == [people |-> {"old"}, hosted |-> FALSE, links |-> {}]
After(links) == [people |-> Identities \ {"old"}, hosted |-> TRUE, links |-> links]
Authorized == {<<"person", "old">>}
Signing(mode, sites, of, stored, changes, revokes) ==
  [mode |-> mode, sites |-> sites, of |-> of, stored |-> stored, changes |-> changes,
   revokes |-> revokes, company |-> Identities \ {"old"}]
MCSitePlans ==
  {Signing("file", <<After(Authorized), Before>>, <<"d1", "accounts">>, {"old"}, 0, 0),
   Signing("file", <<After({})>>, <<"d1", "d1">>, {}, 1, 0),
   Signing("file", <<Before, After(Authorized)>>, <<"d1", "accounts">>, {}, 0, 0),
   Signing("postgres", <<After(Authorized), Before>>, <<"accounts", "accounts">>, {"old"}, 1, 0),
   Signing("postgres", <<After(Authorized), After({})>>, <<"fresh", "accounts">>, {"old"}, 0, 2)}

\* IdentityAdmission: two rows of one user and one of another, both with a login
\* operation; two imports, an Add beside a renewal, an operation and a removal.
MCUserOf == [a \in {"a", "b", "c"} |-> IF a = "c" THEN "u2" ELSE "u1"]
MCHands == [o \in {1, 2} |-> IF o = 1 THEN "u1" ELSE "u2"]
Admitting(n, removals, ops) == [imports |-> n, removals |-> removals, ops |-> ops]
MCPlans == {Admitting(2, 1, {}), Admitting(1, 0, {1, 2}), Admitting(1, 1, {1})}

\* Migration: a clean source, one that contradicts itself, one an old server still
\* writes, and one over the bound.
Row(claim, of) == [claim |-> claim, account |-> of]
Keyed(key, row) == [k \in {key} |-> row]
Empty == Keyed(1, [claim |-> "-", account |-> "-"])
Migrating(claims, accounts, operations, writes, deaths) ==
  [rows |-> [claims |-> claims, accounts |-> accounts, operations |-> operations,
             reservations |-> [k \in {} |-> 0]],
   writes |-> writes, deaths |-> deaths]
MCDatabases ==
  {Migrating(Keyed(2, Row("c1", "a")), Keyed(2, Row("c1", "a")) @@ Keyed(3, Row("c2", "b")), Empty, 0, 1),
   Migrating(Keyed(2, Row("c1", "a")), Keyed(1, Row("c1", "b")), Empty, 0, 0),
   Migrating([k \in {} |-> 0], Keyed(2, Row("c1", "a")), [k \in {} |-> 0], 1, 1),
   Migrating(Keyed(1, Row("c1", "a")) @@ Keyed(2, Row("c2", "b")), Empty,
             Empty @@ Keyed(2, Empty[1]), 1, 0)}

\* Backfill: into an empty database, into one with other rows at the cap, and into one
\* with rows of its own, with a write on either side or a failure.
Fill(as, cs, us, ds, ls) ==
  [aliases |-> as, accounts |-> cs, users |-> us, devices |-> ds, loans |-> ls]
Filling(from, to, writes, failures) ==
  [source |-> from, target |-> to, file |-> writes, server |-> 1, failures |-> failures]
MCStores ==
  {Filling(Fill({1}, {1, 2}, {1}, {1}, {1, 2}), Fill({}, {}, {}, {}, {}), 1, 1),
   Filling(Fill({1, 2}, {1}, {}, {}, {1}), Fill({3}, {}, {2}, {}, {2, 3}), 0, 0),
   Filling(Fill({}, {1}, {}, {1}, {}), Fill({}, {2}, {}, {2}, {}), 1, 0)}

\* Two loans in the store, then one with its copies in the file mirror.
M == INSTANCE Loans WITH Ids <- {g1}, Mirrored <- {g1}, MaxTime <- 2
C == INSTANCE Capacity WITH Accounts <- {1, 2, 3}, LastTick <- 4, Bounds <- MCBounds,
       backend <- capStore, session <- capSession, advised <- moved
E == INSTANCE Enrollment WITH EmailOf <- MCEmailOf, SitePlans <- MCSitePlans
I == INSTANCE IdentityAdmission WITH Accounts <- {"a", "b", "c"}, UserOf <- MCUserOf,
       Ops <- {1, 2}, Hands <- MCHands, Plans <- MCPlans, accounts <- people, ops <- logins
G == INSTANCE Migration WITH Migrators <- {1, 2}, Keys <- {1, 2, 3}, Batch <- 1,
       Inventory <- 4, Nothing <- Nobody, Databases <- MCDatabases, worker <- migrator,
       budget <- chances
B == INSTANCE Backfill WITH Rows <- {1, 2, 3}, Cap <- 2, Stores <- MCStores

---------------------------------------------------------------------------
loansVars == <<now, account, past, enabled, grants, audit, issued, file, fileAudit, mirrors,
               missed, work>>
capacityVars == <<ticks, reports, histories, moves, capStore, capSession, moved, limits>>
enrollmentVars ==
  <<today, site, users, devices, attempt, sessions, machines, audits, admitted>>
admissionVars == <<people, ledger, held, logins, imports, left>>
migrationVars == <<rows, fence, progress, claimants, migrator, chances>>
backfillVars == <<source, target, run, mixed, quota>>

NoLoans ==
  /\ now = 0 /\ account = 0 /\ past = 0 /\ enabled = 0 /\ grants = 0 /\ audit = 0 /\ issued = 0
  /\ file = 0 /\ fileAudit = 0 /\ mirrors = 0 /\ missed = 0 /\ work = 0
NoCapacity ==
  /\ ticks = 0 /\ reports = 0 /\ histories = 0 /\ moves = 0 /\ capStore = 0 /\ capSession = 0
  /\ moved = 0 /\ limits = 0
NoEnrollment ==
  /\ today = 0 /\ site = 0 /\ users = 0 /\ devices = 0 /\ attempt = 0 /\ sessions = 0
  /\ machines = 0 /\ audits = 0 /\ admitted = 0
NoAdmission ==
  /\ people = 0 /\ ledger = 0 /\ held = 0 /\ logins = 0 /\ imports = 0 /\ left = 0
NoMigration ==
  /\ rows = 0 /\ fence = 0 /\ progress = 0 /\ claimants = 0 /\ migrator = 0 /\ chances = 0
NoBackfill ==
  /\ source = 0 /\ target = 0 /\ run = 0 /\ mixed = 0 /\ quota = 0

ServerInit ==
  \/ part = "loans" /\ Init /\ NoCapacity /\ NoEnrollment /\ NoAdmission /\ NoMigration
     /\ NoBackfill
  \/ part = "mirror" /\ M!Init /\ NoCapacity /\ NoEnrollment /\ NoAdmission /\ NoMigration
     /\ NoBackfill
  \/ part = "capacity" /\ C!CapacityInit /\ NoLoans /\ NoEnrollment /\ NoAdmission
     /\ NoMigration /\ NoBackfill
  \/ part = "enrollment" /\ E!EnrollmentInit /\ NoLoans /\ NoCapacity /\ NoAdmission
     /\ NoMigration /\ NoBackfill
  \/ part = "admission" /\ I!AdmissionInit /\ NoLoans /\ NoCapacity /\ NoEnrollment
     /\ NoMigration /\ NoBackfill
  \/ part = "migration" /\ G!MigrationInit /\ NoLoans /\ NoCapacity /\ NoEnrollment
     /\ NoAdmission /\ NoBackfill
  \/ part = "backfill" /\ B!BackfillInit /\ NoLoans /\ NoCapacity /\ NoEnrollment /\ NoAdmission
     /\ NoMigration

ServerNext ==
  /\ UNCHANGED part
  /\ \/ /\ part = "loans" /\ Next
        /\ UNCHANGED <<capacityVars, enrollmentVars, admissionVars, migrationVars,
                        backfillVars>>
     \/ /\ part = "mirror" /\ M!Next
        /\ UNCHANGED <<capacityVars, enrollmentVars, admissionVars, migrationVars,
                        backfillVars>>
     \/ /\ part = "capacity" /\ C!CapacityNext
        /\ UNCHANGED <<loansVars, enrollmentVars, admissionVars, migrationVars, backfillVars>>
     \/ /\ part = "enrollment" /\ E!EnrollmentNext
        /\ UNCHANGED <<loansVars, capacityVars, admissionVars, migrationVars, backfillVars>>
     \/ /\ part = "admission" /\ I!AdmissionNext
        /\ UNCHANGED <<loansVars, capacityVars, enrollmentVars, migrationVars, backfillVars>>
     \/ /\ part = "migration" /\ G!MigrationNext
        /\ UNCHANGED <<loansVars, capacityVars, enrollmentVars, admissionVars, backfillVars>>
     \/ /\ part = "backfill" /\ B!BackfillNext
        /\ UNCHANGED <<loansVars, capacityVars, enrollmentVars, admissionVars, migrationVars>>

serverVars ==
  <<part, loansVars, capacityVars, enrollmentVars, admissionVars, migrationVars, backfillVars>>
ServerSpec == ServerInit /\ [][ServerNext]_serverVars

---------------------------------------------------------------------------
\* Loans: the types, one audit event per change, no loan of a removed account,
\* and a mirror that agrees when the copies have arrived.
LoanIInv ==
  /\ part = "loans" => LoansIInv
  /\ part = "mirror" => M!LoansIInv
\* Loans: an end is final, in the store and in its mirror; what is delivered is lent at
\* that moment.
LoanSteps ==
  [][/\ part = "loans" => EndKept /\ DeliveredLent
     /\ part = "mirror" => M!EndKept /\ M!DeliveredLent]_serverVars
\* Capacity: moves are bounded, charged, answered once, and cooldowns justified.
CapacityIInv == part = "capacity" => C!CapacityIInv
\* Enrollment: one identity one user, one token per device code, truthful audits.
EnrollmentIInv == part = "enrollment" => E!EnrollmentIInv
\* IdentityAdmission: one live account per login, and a ledger that says so.
AdmissionIInv == part = "admission" => I!AdmissionIInv
\* Migration and backfill: a migration that is ready and a backfill that reports are
\* complete and exact; a stopped one can be repeated.
MigrationIInv ==
  /\ part = "migration" => G!MigrationIInv
  /\ part = "backfill" => B!BackfillIInv
\* Backfill: it never takes back a row.
BackfillSafe == [][part = "backfill" => B!RowsKept]_serverVars
=============================================================================
