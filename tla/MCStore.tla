------------------------------- MODULE MCStore -------------------------------
(***************************************************************************)
(* The account row and what is built beside it, in one run: a behaviour is *)
(* one of one component (part).  The rows of LeaseStore stay as they were  *)
(* created in the other parts, and the other variables stay 0.             *)
(***************************************************************************)
EXTENDS LeaseStore, Sequences, TLC

CONSTANTS
  Nobody

VARIABLES
  part,
  clock, row, proof, leaseholder, owners, asks, answers, traffic,
  journal, tasks, turns, client, calls, outcome, avail, covers, refused, told, mishaps,
  dirs, kids, keepers, host, importer, logins, lives,
  saved, ops, procs, children, serving, works, mutex, boots, grants, budget,
  adds, elder, newcomer, errand, station, revoked, faulty, quota

---------------------------------------------------------------------------
\* Replicas and credential contents of LeaseStore are interchangeable.
Symmetry == Permutations(Holders) \cup Permutations(Vaults)

\* FastPath: two requests at two replicas while the token rotates and the lease expires;
\* three while a withdrawal fails, and three that ask again for what they were given.
Ask(at, billing, previous) == [at |-> at, billing |-> billing, previous |-> previous]
Meeting(of, rotations, expiries, clears, changes) ==
  [asks |-> of, rotations |-> rotations, expiries |-> expiries, clears |-> clears,
   changes |-> changes]
MCTwo == {Meeting(<<Ask(1, TRUE, 0), Ask(2, TRUE, 1)>>, 1, 1, 0, 1)}
MCThree ==
  {Meeting(<<Ask(1, FALSE, 0), Ask(2, FALSE, 1), Ask(1, FALSE, 0)>>, 1, 0, 1, 0),
   Meeting(<<Ask(1, TRUE, 0), Ask(1, FALSE, 0), Ask(1, TRUE, 0)>>, 1, 0, 0, 0)}

\* FileReset: two machines, one of which asks again, with a failed write and a crash, with
\* lost answers or rejections; and four machines whose receipts fill the journal.
Mishap(ids, writes, lost, auth, rejections, nothing, leaves, crashes) ==
  [ids |-> ids, writes |-> writes, lost |-> lost, auth |-> auth, rejections |-> rejections,
   nothing |-> nothing, leaves |-> leaves, crashes |-> crashes]
TwoMachines == <<<<1, 3>>, <<2>>, <<>>, <<>>>>
MCMishaps ==
  {Mishap(TwoMachines, 1, 0, 0, 0, 0, 1, 1), Mishap(TwoMachines, 0, 1, 2, 0, 1, 0, 0),
   Mishap(TwoMachines, 0, 1, 0, 1, 0, 1, 0),
   Mishap(<<<<1>>, <<2>>, <<3>>, <<4>>>>, 0, 1, 0, 0, 0, 0, 0)}

\* AccountImport: the login under two aliases, while it is signed in again or revoked; with
\* restarts and failing calls; and with children that die beside token requests.
Life(imports, signins, revokes, tokens, crashes, stops, deaths, errors) ==
  [imports |-> imports, signins |-> signins, revokes |-> revokes, tokens |-> tokens,
   crashes |-> crashes, stops |-> stops, deaths |-> deaths, errors |-> errors]
MCLives ==
  {Life(3, 1, 1, 0, 1, 0, 0, 0), Life(2, 0, 0, 1, 1, 1, 0, 1), Life(3, 0, 0, 1, 0, 0, 1, 1)}

\* FileLogin: two renewals, one of which may land the other alias's login; a failing step with
\* a revocation, or with a late token answer and a crash; and two crashes.
Turn(starts, signins, cancels, tokens, revokes, crashes, errors) ==
  [starts |-> starts, signins |-> signins, cancels |-> cancels, tokens |-> tokens,
   revokes |-> revokes, crashes |-> crashes, errors |-> errors]
MCTurns ==
  {Turn(2, 2, 1, 0, 0, 1, 0), Turn(2, 1, 0, 0, 1, 0, 1), Turn(2, 1, 0, 1, 0, 1, 1),
   Turn(1, 0, 0, 0, 0, 2, 0)}

\* FileAdd: one step of each kind that can go wrong, for a login that is held by the same user
\* or by another one; and two crashes.
Round(mine, cancels, others, crashes) ==
  [mine |-> mine, starts |-> 2, cancels |-> cancels, revokes |-> others, renewals |-> others,
   crashes |-> crashes, errors |-> others]
MCRounds == {Round(mine, 1, 1, 1) : mine \in BOOLEAN} \cup {Round(mine, 1, 0, 2) : mine \in BOOLEAN}

F == INSTANCE FastPath WITH Replicas <- {1, 2}, Requests <- {1, 2}, MaxAge <- 1, Wait <- 1,
       Delay <- 1, LastTime <- 3, Free <- Nobody, Traffic <- MCTwo, now <- clock, evidence <- proof,
       lease <- leaseholder, owner <- owners, req <- asks, provider <- answers,
       bounds <- traffic
T == INSTANCE FastPath WITH Replicas <- {1, 2}, Requests <- {1, 2, 3}, MaxAge <- 1, Wait <- 1,
       Delay <- 1, LastTime <- 3, Free <- Nobody, Traffic <- MCThree, now <- clock, evidence <- proof,
       lease <- leaseholder, owner <- owners, req <- asks, provider <- answers,
       bounds <- traffic
R == INSTANCE FileReset WITH Machines <- 1..4, Requests <- 1..4, Credits <- {1, 2},
       None <- Nobody, ReceiptLimit <- 3, Mishaps <- MCMishaps, disk <- journal,
       work <- turns
J == INSTANCE AccountImport WITH Aliases <- {1, 2}, Lives <- MCLives, disk <- dirs,
       child <- kids, owner <- keepers, server <- host, job <- importer, world <- logins,
       spare <- lives
N == INSTANCE FileLogin WITH Aliases <- {1, 2}, Turns <- MCTurns, disk <- saved, recs <- ops,
       proc <- procs, login <- children, owner <- serving, job <- works, lock <- mutex,
       server <- boots, world <- grants, spare <- budget
A == INSTANCE FileAdd WITH Rounds <- MCRounds, recs <- adds, held <- elder, fresh <- newcomer,
       job <- errand, server <- station, gone <- revoked, faulted <- faulty, spare <- quota

---------------------------------------------------------------------------
leaseVars == <<account, lease, evidence, blocked, handles, committed, lastEpoch, acked>>
fastVars == <<clock, row, proof, leaseholder, owners, asks, answers, traffic>>
fileResetVars ==
  <<journal, tasks, turns, client, calls, outcome, avail, covers, refused, told, mishaps>>
importVars == <<dirs, kids, keepers, host, importer, logins, lives>>
fileLoginVars ==
  <<saved, ops, procs, children, serving, works, mutex, boots, grants, budget>>
fileAddVars == <<adds, elder, newcomer, errand, station, revoked, faulty, quota>>

NoLease == Init
NoFast ==
  /\ clock = 0 /\ row = 0 /\ proof = 0 /\ leaseholder = 0 /\ owners = 0 /\ asks = 0
  /\ answers = 0 /\ traffic = 0
NoResets ==
  /\ journal = 0 /\ tasks = 0 /\ turns = 0 /\ client = 0 /\ calls = 0 /\ outcome = 0
  /\ avail = 0 /\ covers = 0 /\ refused = 0 /\ told = 0 /\ mishaps = 0
NoImports ==
  /\ dirs = 0 /\ kids = 0 /\ keepers = 0 /\ host = 0 /\ importer = 0 /\ logins = 0 /\ lives = 0
NoRenewals ==
  /\ saved = 0 /\ ops = 0 /\ procs = 0 /\ children = 0 /\ serving = 0 /\ works = 0 /\ mutex = 0
  /\ boots = 0 /\ grants = 0 /\ budget = 0
NoAdds ==
  /\ adds = 0 /\ elder = 0 /\ newcomer = 0 /\ errand = 0 /\ station = 0 /\ revoked = 0
  /\ faulty = 0 /\ quota = 0

StoreInit ==
  \/ part = "lease" /\ Init /\ NoFast /\ NoResets /\ NoImports /\ NoRenewals /\ NoAdds
  \/ part = "fast" /\ F!FastInit /\ NoLease /\ NoResets /\ NoImports /\ NoRenewals /\ NoAdds
  \/ part = "thrice" /\ T!FastInit /\ NoLease /\ NoResets /\ NoImports /\ NoRenewals /\ NoAdds
  \/ part = "resets" /\ R!FileResetInit /\ NoLease /\ NoFast /\ NoImports /\ NoRenewals
     /\ NoAdds
  \/ part = "imports" /\ J!ImportInit /\ NoLease /\ NoFast /\ NoResets /\ NoRenewals /\ NoAdds
  \/ part = "renewals" /\ N!FileLoginInit /\ NoLease /\ NoFast /\ NoResets /\ NoImports
     /\ NoAdds
  \/ part = "adds" /\ A!FileAddInit /\ NoLease /\ NoFast /\ NoResets /\ NoImports /\ NoRenewals

StoreNext ==
  /\ UNCHANGED part
  /\ \/ /\ part = "lease" /\ Next
        /\ UNCHANGED <<fastVars, fileResetVars, importVars, fileLoginVars, fileAddVars>>
     \/ /\ part = "fast" /\ F!FastNext
        /\ UNCHANGED <<leaseVars, fileResetVars, importVars, fileLoginVars, fileAddVars>>
     \/ /\ part = "thrice" /\ T!FastNext
        /\ UNCHANGED <<leaseVars, fileResetVars, importVars, fileLoginVars, fileAddVars>>
     \/ /\ part = "resets" /\ R!FileResetNext
        /\ UNCHANGED <<leaseVars, fastVars, importVars, fileLoginVars, fileAddVars>>
     \/ /\ part = "imports" /\ J!ImportNext
        /\ UNCHANGED <<leaseVars, fastVars, fileResetVars, fileLoginVars, fileAddVars>>
     \/ /\ part = "renewals" /\ N!FileLoginNext
        /\ UNCHANGED <<leaseVars, fastVars, fileResetVars, importVars, fileAddVars>>
     \/ /\ part = "adds" /\ A!FileAddNext
        /\ UNCHANGED <<leaseVars, fastVars, fileResetVars, importVars, fileLoginVars>>
storeVars ==
  <<part, leaseVars, fastVars, fileResetVars, importVars, fileLoginVars, fileAddVars>>
StoreSpec == StoreInit /\ [][StoreNext]_storeVars

---------------------------------------------------------------------------
\* FastPath: what a request is told was true of the credential it is given, not long ago.
FastIInv ==
  /\ part = "fast" => F!FastIInv
  /\ part = "thrice" => T!FastIInv
\* What a single server keeps in files survives failed writes, lost answers and crashes.
\* FileReset: one attempt spends one credit, receipts are kept and truthful.
\* AccountImport: a login is refreshed by one process at a time, and its newest grant kept.
\* FileLogin: a renewal that is cut short anywhere keeps the grant it was given.
\* FileAdd: a grant for a new account is kept until it is admitted or given up, and accounts
\* it overlaps are fenced exactly as long.
SingleServerIInv ==
  /\ part = "resets" => R!FileResetIInv
  /\ part = "imports" => J!ImportIInv
  /\ part = "renewals" => N!FileLoginIInv
  /\ part = "adds" => A!FileAddIInv
=============================================================================
