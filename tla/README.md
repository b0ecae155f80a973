# Verification of codexctl

TLA+ models of codexctl, the TLC configurations that check them on small
instances, and theorems that TLAPS proves for every instance. Paths are relative
to the repository root unless they start with a module name; line numbers are
those of the mapped commit.

codexctl is a CLI that keeps several Codex logins on a machine and a central
server (`codexctl-central`) that holds the logins of a company, refreshes their
tokens in one place and hands access tokens to clients. A refresh token rotates:
the provider accepts it once and answers with the next one. Whoever presents an
old one destroys the login. Nearly everything hard in this code follows from that
sentence: there may be one refresh child per account at a time, on any replica;
what it obtained must be committed before it is used; and when a step fails in
between, the only copy of the login may be a file on one pod.

The server has two modes. In *PostgreSQL mode* several replicas share a database; in
*file mode* a single server keeps everything in files. Login, Add, import and reset
redemption are written twice, once per mode, and are modelled twice.

## 1. Inventory

| Component | State | Operations | Interacts with |
|---|---|---|---|
| Central store (`src/central/storage.rs`, `storage/*.rs`) | PostgreSQL rows per account: credential with its revision and tombstone, refresh lease with holder and epoch, token evidence, login journal, reset journal, loans, capacity, identities, sessions | one SQL statement or transaction each: acquire, renew, release, fenced write, save, observe, remove, ... | every central component; each call is bounded by 2 s and its answer may be lost |
| Managed owner (`managed.rs`, `managed/owner_request.rs`, `managed/renewal.rs`) | per replica and account: the vault in memory, availability flags, the lease operation in progress, index of aliases | token request, background settlement, recovery of retryable owners, hydration, reconciliation | store, owner runtime, removal, resets, rename |
| Owner runtime (`server.rs`, `rpc.rs`, `vault.rs`, `process.rs`) | the `codex app-server` child, its `auth.json` journal, the encrypted vault file, the record of its pid | start, read, stop, kill and reap, reconcile the journal | the provider |
| Account import (`managed.rs`, `relogin/inventory.rs`) | a directory per account, its vault, journal, registry and proof of exit | import, replace, prepare, launch, clear at startup | owner runtime, login operations |
| Fast token path (`fast_path.rs`) | evidence of the last provider check | serve without a lease, wait for another holder | store |
| Owner refresh control (`owner_refresh.rs`, `refresh_control.rs`) | retry clock, operator switch | schedule, pause | owner |
| Reset redemption (`resets.rs`, `resets/shared.rs`, `storage/resets.rs`) | journal of pending and completed redemptions, custody lock | redeem: reserve, call the provider, settle | store, owner, provider |
| Loans (`loans.rs`, `loans/*.rs`, `storage/loans.rs`) | grants, audit log, file mirror | lend, revoke, return, expire, borrowed token | store, owner |
| Account rename (`rename.rs`) | the directory of an account, intent file, tombstones, index | rename, finish, recover at start | imports, new logins, token requests |
| Account removal (`removal.rs`, `storage/removal.rs`) | tombstone | remove | store, owner, loans, resets |
| Login renewal and Add (`relogin*.rs`, `storage/login.rs`, `polling.rs`) | login operation with holder and phase, device-login worker and its polling supervisor | start, take over, finalise, abandon, land | store, owner, dashboard |
| Identity admission (`storage/identity.rs`) | ledger of identity claims, reservations | admit, reserve, finalise, free | imports, login operations, removal |
| Capacity (`capacity.rs`, `storage/capacity.rs`) | failures, cooldowns, moves of a session | observe, plan a recovery, complete | clients, store |
| Enrollment (`enrollment*.rs`, `storage/browser.rs`) | device codes, sign-ins, users, machines | start, sign in, approve, poll, revoke | store, browser |
| Sessions and dashboard (`sessions.rs`, `storage/browser.rs`, `dashboard*`) | browser sessions, audit | sign in, act, sign out | the above |
| Migration and backfill (`storage/migration.rs`, `storage/backfill.rs`) | fence, progress, the imported rows | identity migration in batches, import of a file server's state | store |
| Live sessions (`activity.rs`, `catalog.rs`) | live-session table, cached reads | register, expire | clients |
| Clients (`client.rs`, `remote.rs`, `native*.rs`, `transport.rs`, `service_account.rs`) | Codex's configuration, provider marker, pointer, connections of launches, the desktop app's file | select and release an account, launch, hand out a token, pin the app | server, Codex, relay |
| Relay (`src/relay/*`) | frames held back, streaks of failures, pending completions, watch of a launch | proxy, rewrite advice, count stops | Codex, provider, launch |
| Codex launch (`commands/codex.rs`, `commands/exec.rs`, `outcomes.rs`) | terminal, recovery budget | launch, recover from a cap, a 429 or an overload | accounts, server, relay |
| Local profiles and daemon (`profile.rs`, `daemon.rs`, `store.rs`, `commands/{daemon_sync,use_profile,save,adopt,switch,login}.rs`) | saved profiles, live `auth.json`, locks; the daemon's sessions | use, save, adopt, login, remove, sync | Codex, the user's commands |
| Rate and state caps (`state_cap.rs`, `commands/rate*`) | archives and their index | archive, restore | Codex's files |
| Local resets (`commands/resets.rs`, `api.rs`) | id of the command in progress | rank, redeem | provider, server |
| Status output (`commands/{status,list}.rs`, `status*.rs`) | none of its own | format | all |

What makes them hard, and what must hold:

- **Lease and credential rows.** Replicas use leases long after they expired and
  never learn whether a timed-out call committed. Fencing must keep publications
  in epoch order; an acknowledged publication must be the committed one; evidence
  must speak of the credential it was observed on; a removal is final.
- **Owner.** A request, a settlement, a recovery and a removal share one child
  across lost connections, hung children and restarts. A child may run only under
  the lease; a rotation must be committed, held under the lease or visibly given up;
  a token goes out only for a committed credential; every operation ends.
- **Fast path.** A token may be served from what somebody else observed, but only
  while that is recent, of the same credential and not withdrawn.
- **Resets.** A redemption spends money's worth and must not be repeated or
  forgotten while custody, transactions and provider answers are lost.
- **Loans.** Revoke, return, expiry and removal race with a borrower's request;
  the file mirror receives copies in any order.
- **Rename.** Four file-system writes with a crash between any two; an alias that
  was left must never lead to another account.
- **Login operations, imports.** A device login outlives its process; two replicas may
  take it over; the grant it lands must exist in one place only, be presented by one
  process only, and survive a crash between any two writes.
- **Identity, enrollment, migration.** Claims become known bit by bit; an account, a
  user and a machine must stay one person's through a cutover, a retry and a copy.
- **Client files.** Several commands and Codex itself write the files that decide
  which login is used; a command may fail or die between any two of them.
- **Relay and launch.** What counts as a failure, a stop, a turn that went on; retry
  budgets over tables that are pruned; money spent only with consent.

`PROJECT.json` lists every component with its status, and under `hazards` each
place where the code is exposed, with the properties that are about it.

## 2. Plan

Built in this order: the rows everything rests on (`LeaseStore`, with proofs) and the
owner over it (`CredentialOwner`); the shared redemption (`ResetJournal`,
`ResetRedemption`); `Loans`; `AliasBook` (abstract, proved) with `AliasRename`, which is
proved to implement it; `LoginOperation`; then the client (`LocalProfiles`, the relay,
the provider files, the launch, the choice of accounts, the state cap), the other
server components (`Capacity`, `Enrollment`, `IdentityAdmission`, `Migration`, `Backfill`,
`FastPath`) and the single server's files (`FileReset`, `AccountImport`, `FileLogin`,
`FileAdd`); last the proofs about `IdentityAdmission`, `ResetRedemption`, `CredentialOwner`,
`AliasRename`, `LoginOperation`, `LocalProfiles`, `Loans`, `FastPath`, `Enrollment`, `Migration`,
`Backfill` and `Capacity`.

Left, in the order of what it would add:

1. Proofs: the single server's files, the client.
2. The relay's watchdog and connection handling, and the evidence files it leaves for
   the launch.
3. Session discovery of `commands/codex.rs`, which reads files while Codex writes them.
4. `refresh_control.rs` and `activity.rs`, once they hold more than a clock.

## 3. Modules

`MC*` modules give values to constants, state symmetries and, in four runs, a state
constraint (section 4). Three of them are
sums: `MCStore`, `MCServer` and `MCClient` hold several components that share no state,
and a behaviour (`part`) is one of one of them while the other variables stay 0. Their
properties name the component (`part = "adds" => A!FileAddIInv`). Which faults a
behaviour has is a value of a variable that only counts down (`lives`, `budget`, `quota`,
`plan`, ...): the MC modules name a few combinations rather than every maximum at once.

Definitions that begin with "Mutated form" are a definition with a plausible bug; they
are not part of any specification and document what a property guards against.

### LeaseStore

One account's rows. `account`, `lease`, `evidence` are the columns that decide
anything; `blocked` stands for a login journal or reset that fences the account.
`handles` holds every lease a caller was ever granted: any of them may be used at
any time, which covers every delay. Each action is one SQL statement or
transaction of `PostgresStore`: `AcquireLease` (`acquire_login_lease`), `Expire`
(the clock passes `expires_at`), `ReleaseLease`, `FencedWrite` and `FencedRewrite` (the
two branches of `fenced_write_observed`), `SaveAccount` and `ResaveAccount` (the upsert of
`save_account`, and its answer to a repeat that finds its own vault stored),
`ClearTokenEvidence`, `RemoveAccount`. The parameter `reply` says whether the answer arrives.
`committed`, `lastEpoch` and `acked` are history. Accounts do not share rows, so
one account is enough.

### CredentialOwner

EXTENDS `LeaseStore`; its steps are the store's actions joined with what one replica
does around them. `own[h]` is the `Owner` of replica `h` (vault record, journal, child,
flags), `op[h]` the lease operation in progress: `pc` follows `token`
(`admitted` → `leased` → `native` → `stopped` → `published`),
`settle_background_recovery` (`settling` → `closing`) and `recover_owners`
(`launching` → `probing`). A credential is the generation of its refresh token;
`provider` accepts the current generation and rotates it in `ChildRefresh`.
`reach[h]` is the network, `Crash` and `Boot` a restart with
`hydrate_accounts` and `prepare_owner`. Time is counted in renewal intervals of
30 s; the database calls before a window opens and the termination of a child are
bounded by seconds in the code and are instantaneous here (`Urgent`).

### FastPath

A request (`req`) first tries `decide` on the committed `row` and its `evidence` (`Probe`): a
token is served without the lease if a read of this very revision is recent enough. Otherwise
it takes the owner's lock and tries again (`Lock`), claims the lease (`Claim`), or waits for
whoever has it (`Poll`). A holder reads (`ReadOk`, `ReadFails`), which may rotate, and publishes
credential and evidence in one fenced statement (`Publish`) or withdraws the evidence of a
failed read. `Recover` (background recovery), `LeaseExpires` and `Change` (routing, use, a login
journal, a removal) happen beside it.

### ResetJournal, ResetRedemption, FileReset

`ResetJournal` has `Pending::join` and `Journal::complete` as functions on records, and
what a sound journal is (`Sound`): receipts and the pending batch are disjoint, and `order`
names the receipts, or nothing in a journal of an earlier release.
`ResetRedemption` runs workers (`apply` in `resets/shared.rs`) through
`reserve → call → settle`, with compare-and-swap on the journal version, the
session-bound custody lock, and refresh and recovery on the same account as far as they
meet it. `found` says whether the replica has an `Owner` of the account in its map, from boot or
since a request for it (`SelectOwner`, `resolve_alias`): `TakeCustody` takes the Owner's mutex
only when it finds one (`shared.rs:298`). The provider is external: it handles an idempotency key once, whenever it
likes, and answers later calls from the first outcome. `covers` (the requests each credit
was called for), `fresh` and `evicted` are history.

`FileReset` is the same promise kept in one file by `Reader::redeem`: tasks hold the owner's
lock (`work`), write the intent, call, and write the receipt; each write may fail or be lost
with the process; machines keep the id of their command (`client`) until an outcome is known,
and ask again.

### Loans

Requests (`work`) against grant rows and the audit log, with reads and writes as
separate steps and each SQL statement atomic. `issued` records borrowed tokens with
the login they were for. `file`, `fileAudit` and `mirrors` are the dual-mode mirror:
a copy is in flight until it arrives or is lost. The mirror is followed for the
grants in `Mirrored`, since the copies of different grants do not meet. The
`account_removed` end of `grant_owner` needs a grant without its account, which
`RemovedUnlent` shows cannot be in PostgreSQL mode.

### AliasNames, AliasBook, AliasRename

`AliasBook` is what rename promises: one alias per account and one account per
alias (without case), an alias left behind is retired for good and names its
successor. `AliasRename` is the code: `disk` (directories with vault alias and
intent), `tombs` (`renames.json`), `adds` (unfinished new-account logins), the index
in memory, and one operation under the imports lock. The steps of `finish` are
`FinishSave`, `FinishMove`, `FinishTombstone`, `FinishClear`; `Crash` may come between
any two and `Restart`, `RecoverNext` and `Serve` are the startup sequence. The renewal
and loan checks of a rename and half-created import directories appear as refusals.
Rename exists in file mode only, where accounts are not removed.

### LoginOperation

One shared renewal (PostgreSQL mode). `row` is the row of `central_login_operations`,
reduced to what its
statements compare: `live` is "`expires_at` is in the future", `grant` the candidate in
the payload, `identified` the claimed identity columns, `clear` `polling_clear`. A
process holds its own copy (`op`) and each statement compares it with the row; the
operators of the second section (`Savable`, `Claimable`, `Takable`, ...) are the WHERE
clauses. `worker` follows `run` and `verify_shared_renewal`, `sup` follows
`supervise_login` in its own process with the native login as its child (`native`;
both die with their parent, `process::isolate`), `poll` is a status request in
`recover`, from the receipt it read to the statement that acts on it. `Write` and
`SupWrite` give every statement three outcomes: committed, not committed, and
committed with its answer lost. A claim of `login_account_lease` turns the account's
lease into a login lease; ordinary refreshes are `Refresh` and `Refreshed`. The epoch
of the lease is left out: `LeaseStore` has it, and a login lease is named by
its operation's holder, who has one worker (`WorkerGuard`). `Boot` is the holder each replica
registers when it first boots; a restart or a refused renewal registers another. Linux
only: elsewhere the server runs the native login without a supervisor.

### FileLogin, FileAdd, AccountImport

The logins of a single server, down to the write. A grant is a number in the order of
issue; the provider supersedes what is presented and revokes the chain of a superseded
grant (`world`, external). `disk` holds each alias's vault, journal and the evidence by
which a later server decides that an earlier process has ended.

- `AccountImport` runs an import (`job`) from admission (`Import`, `Admit`, `Own`) over the
  replacement of a rejected grant (`Replace`, `Replaced`) and the directory (`Create`,
  `Prepare`) to the process (`Cleared`, `Spawn`, `Fork`, `Capture`, `Initialized`, `Probed`),
  and a start (`Start`, `Inventory`, `Inventoried`, `Launch`). `child` outlives its server.
- `FileLogin` runs a renewal: the worker to the sign-in (`Start` … `Awaited`), `Land`, the
  promotion write by write (`Commit`, `WriteJournal`, `WriteVault`, `Promoted`), the verification
  by a new process (`Verify` … `Probe`), `Retiring`, `Complete`; a repair and a start repeat
  what was cut short (`Repair`, `RecoverOne`). Its processes die with the server
  (`PR_SET_PDEATHSIG`), and one login runs per alias, so that a renewal's `check_claim`
  always passes.
- `FileAdd` takes promotion, verification and import as steps that succeed or fail, and
  follows the record of an Add between phases, the renewal it may land as on the account
  that already has the login, the cancel and the discard, the audit of a start and the
  fence over every account a saved grant overlaps.

### IdentityAdmission

The ledger of identity claims and the reservations of login operations. A credential
declares some of its login's claims (a uid, a sub, both or none), so two credentials of one
login may have no claim in common. Each action is one transaction under the admission lock:
`CheckImport`/`SaveImport`, `AdmitAdd` (new row, renewal of a known one, or refusal),
`ReserveRenewal`, `BeginVerification`, `Complete`, `EndUnpublished`, `Refresh`, `Remove`.
Everything between two transactions may be interleaved.

### Capacity, Enrollment, Migration, Backfill

- `Capacity`: evidence that happened may be reported late, twice or out of order
  (`Report`); a recovery is planned (`PlanMove`) or answered from an earlier charge (`PlanAgain`),
  in file mode as two writes with a death in between (`FinishWrite`, `Die`); a new
  launcher resumes the session (`Resume`).
- `Enrollment`: a device code (`Start`, `Poll`), a sign-in (`Begin`, `Callback`, `ResolveIdentity`,
  `RecordUser`, `OpenSession`), the approval (`Ask`, `Approve`, `RecordMachine`, `GrantDevice`) and
  the dashboard's revocation with its audit; a restart brings another configuration of
  the identity provider (`site`), so that a cutover can be done, half done and undone.
- `Migration`: several initializers migrate identities table by table in batches decoded
  outside the lock (`ReadPage`, `Commit`); old servers write until the fence is committed.
- `Backfill`: the import of a file server's tables, row by row, each its own
  transaction; a failed run is repeated, and servers may have written in between.

### LocalProfiles, ProfileIdentity

`ProfileIdentity` says whose an auth file is: what a token declares of its seat, which may be
nothing in an old token, compared with profiles and marker. `LocalProfiles` runs commands
(`cmd`) over these files under the locks they take, while Codex (which takes none) rotates
and redeclares the live file: `Switch` with `Capture`, `Fold`, `Copy`, `Install`, `Mark`; save,
login, exec and remove. In the code a snapshot, a workspace record or a copy that fails only
warns, and the command goes on (`CaptureFails`). `newest` is what the provider accepts; `worlds` names combinations of
the tokens' claims, deaths or failed captures, logins and generations. `excused` is history: the
seats whose newest token was given up knowingly, was in a file that a command replaced after
Codex rotated it or after its capture failed (`Overwritten`), or came from a login that
another one of that seat overlapped (`Overlapped`).

### DaemonSync

The daemon follows a switch: `Inspect`, the question, a second look, drain or
stop-and-start, reconnection, and for each stopped session the settings, the recheck, the
interrupt and the new turn. Several switches run at once, beside users who load
sessions and start turns. The daemon is external.

### RelayFrames, RelayStreaks, RelayStops

`RelayFrames`: the bytes of an event arrive in any chunks, as pieces (half an event line,
the type, a code, advice, bulk); what is held back, passed on or rewritten. `RelayStreaks`: the
budget of a thread's streak over a table that is pruned, against a table that never is
(`run`). `RelayStops`: which overloads count as a stop, as told by the stream, by the
output observer (`Confirm`) or by the watcher of the launch; a `Confirm` reaches the relay
before the next turn of the thread starts.

### NativeProvider, PinnedLaunch, AppAuth

Files of the client write by write, with a failed write taking effect or not, rollback
and crash. `NativeProvider`: connection, marker, configuration, pointer and log of an
activation (`Activate`, `Undo`, `Rollback`), the way back (`Deactivate`, `UndoLocal`), the locks that keep local owners and
the provider apart, relay and helper. `PinnedLaunch`: the directory of one launch with its
lock, other launches that sweep, helpers that fetch tokens, and a close that leaves files behind
or, when the sweep lock does not come in time, takes the directory without it. `AppAuth`: the desktop app's
file with its journal of digests, the backup of the login it replaces, and the switch.

### CodexLaunch, AccountChoice

`CodexLaunch` is the wrapper of one session: main loop, output thread and the threads that
ask for capacity, interleaved with the child and signals; recovery with its count,
choice, consent, redemption and switch. `AccountChoice` evaluates the rankings
(`select_recovery`, `select_most_available`, `select_with_headroom`, `select_for_activation`,
`select_least_loaded`) on every small list of readings against what they promise.

### StateCap

A maintenance run and a resume (`job`) over rollouts, archives and the index, write by
write (`Hash`, `Publish`, `Append_index`, `Recheck`, `Delete`; `Entry`, `Restore`, `Unindexed`,
`Unarchive`), while Codex opens, writes and closes rollouts and the job may be killed. An append
that is killed or fails may stop anywhere in its line (`Stopped`): before it, in the session's
name, after it, or before the line feed. `Written` is what the next append of the same run makes
of such a line, which it does not read again.

## 4. Checks

| Run | Question | Bounds |
|---|---|---|
| `store` | rows: fencing, acknowledgement, tombstone; fast path: what a token claims is so; files of a single server: one spend, one process per login, no grant lost | rows: 2 holders, 2 contents, 3 epochs, 3 revisions (a holder, its successor and its return; a lost answer, a rewrite and a later one); the parts below |
| `owner_custody` | lease, custody and delivery in requests, settlement and recovery | 2 replicas, lease of 2 intervals, margin 1; requests with 2 epochs and a restart each, or recovery with 3 epochs (request, recovery, a rival) |
| `owner_liveness` | every operation ends; the inductive invariant of custody | 1 replica (the other only takes the lease away, which expiry does too); requests with 3 epochs and 1 restart, or with recovery |
| `recovery_lease` | *violated*: the lease rule in recovery | 2 replicas, 2 epochs, lease of 3 intervals |
| `reset_redemption` | no double spend, none forgotten, truthful answers, retention; no publication under a redemption | 2 replicas with a worker each, 3 requests, 2 credits, retention of 2 receipts, 5 journal writes: two settlements after an old journal; or 2 requests and 2 writes beside refresh, recovery and removal on both replicas, or 1 write and these on one that has no Owner at first |
| `server` | loans, capacity, enrollment, identities, migration, backfill | below |
| `rename` | names, finishing, stale requests, retries, the restart finishes | 3 keys, or 2 of which one has two spellings; 2 accounts, 1 client, 2 troubles, of which 1 failure and 2 crashes (one may hit the recovery) |
| `rename_retry_dropped` | *violated*: a retried rename returns the account | 2 keys, 1 disconnect |
| `login_operation` | custody of the grant, one user of it, order and truth of its receipt | 2 replicas, 3 holder incarnations (one replacement or restart), 2 epochs (one takeover or recovery), 1 operation, 1 status request and 1 ordinary refresh at a time |
| `local_profiles` | whose a live file is, no rotation lost, nothing replaced unasked | 2 commands, 2 aliases, 2 seats; a death or a failed capture and a login with 2 generations; two logins or saves with 3; tokens without claims |
| `client` | daemon, relay, provider files, launch, choice, state cap | below |
| `app_auth_journal` | *violated*: a crash leaves either file recognizable | the app's file with 2 crashes |

Scopes of the sums (the values are in the MC modules, with a comment each):

- `store`: `FastPath` with two requests at two replicas that meet a rotation, an
  expiry and a change of routing, and with three that meet a failed withdrawal;
  `FileReset` with two machines of which one asks again, and four machines that fill the
  window of receipts; `AccountImport` and `FileLogin` with two aliases and up to three imports
  or two renewals, in combinations of sign-in, revocation, crash, death and failing call;
  `FileAdd` with the held login of the same user or of another, and one step of each kind
  that can go wrong.
- `server`: two loans with a manager, a borrower and two logins, then one with its copies
  in the mirror; three accounts and four combinations of successes, deaths and new
  launchers; two sign-ins through a cutover back and forth; three rows of two users with
  two login operations; two migrators over four databases (clean, contradictory, still
  written, over the bound); three imports into other stores.
- `client`: two sessions and one switch or one session and two switches; eleven shapes
  of a frame; two commands on the provider's files with two faults or a crash; two
  launches with two helpers; a wrapper with three accounts and one recovery per hour; all
  lists of at most three local profiles or two server accounts; two rollouts, two runs
  and a resume with a kill or a failing step.

Each scope is the smallest in which the actors of the hazard meet and the fault can hit
each of them; the mutants in `PROJECT.json` show that the scopes reach what the properties
forbid. Where a third actor could matter (a rival for a lease, a third request in a batch,
a takeover), it is there.

In `login_operation` three more bounds only leave out steps that nothing could tell
apart: leases lapse and refreshes end before the operation or while a worker reads
the lease; a holder lapses or is replaced after the device login, because during it a
refused statement and a failed one look the same; and a replica with nothing of the
operation keeps its holder. A status request is only followed when its recovery has
something to do: its statement requires the sequence it read, so a request that came
too early does what a later one does. 
Four runs have a state constraint, each in its MC module:

- `Followed` (`login_operation`) follows a recovered operation for a machine's login only,
  since `browser` is read by the worker and the supervisor of the device login while the
  receipt is theirs, in the first epoch; and there the request reports a failure only after
  the workers have ended.
- `Asked` (`reset_redemption`): beside a refresh, two requests are made, one for each worker. The
  third request is for the journals of an earlier release, which have no refresh beside them.
- `OneCutOff` (`owner_custody`): one replica is cut off from the database at a time. With both
  cut off nobody writes the row, which only lets the lease of either run out.
- `TwoLogins` (`local_profiles`): a seat has a third token only once both logins were used and
  while the other seat still has its first.

What they leave out is in the theorems of section 5, which have no such bounds.

`CHECK_DEADLOCK FALSE` is set where the system may come to rest: all grants ended, all
requests answered, all bounds used.

The property names in the modules carry the statement, and the comment before each says
what it is about. The ones that took the most behaviour to reach: `RotationHeld` (the one
usable refresh token is committed, held under a live lease, or was given up visibly),
`SpendRemembered` and `OneSpend` (across lost custody and late provider calls),
`ReceiptsKept` (with journals of an earlier release), `MirrorConverges`, `ImplementsBook`,
`SoleUser` and `FailureTruthful` (a takeover beside a worker that does not know it lost
its holder), `OneAccountPerLogin` (claims that become known later), `NoReuse` and `GrantKept`
of `FileLogin` (a crash between any two writes of a promotion), `FencedForGrant` (nothing is
served beside a saved grant, and nothing stays fenced for one that is gone), `RotationKept`
of `LocalProfiles` (Codex rotates while a command folds), `ActivationWhole`, `ReplacedKept`.

### Fairness

`CredentialOwner!FairSpec`: every step of a running operation is bounded by a
deadline of its own (2 s per database call, the foreground and stop deadlines, the
lease window), hence `WF(Progress)`; the settlement loop retries every second and for
ever, so a round that is possible again and again happens: `SF(SettleRound)`; the
clock advances: `WF(Tick)`. The network is under no fairness at all: `Partition`
may flap or stay. For what a token request started, `OperationEnds` then rests on the lease
window. The settlements that `recover_owners` spawns (`owner_request.rs:2449`, `2513`, `2552`, `2596`)
have no window: `RecoverySettles` names them, and for them the property assumes that the
replica reaches the database again and again. Both assume that the local disk works, since
`BackgroundSettlement::record` (`owner_request.rs:521`) repeats a local write each second until it
is made, and writes of the settlement that fail are not in the model.
`AliasRename!FairSpec`: `WF(Recover)`, since the platform restarts the process and
startup runs `rename::recover` before it serves. Crashes are bounded. The other modules
state safety only; that their waits end rests on the same deadlines.

### Disagreements between the documents and the code

- `recovery_lease`: `recover_owners` claims the lease, drops the owner guard and
  waits for the imports lock (`managed/owner_request.rs:2284`) without looking at the
  lease again; its renewal task ends silently when refused. A refresh child may start
  after the lease has run out. `docs/central-ha.md:17-18` and
  `docs/adr/0002-postgresql-shared-state-for-central-ha.md:37-38` exclude that.
  `owner_custody` shows what still holds: nothing uncommitted is delivered or reopened.
- `rename_retry_dropped`: the rename handler awaits `owners.write()` after the commit
  (`rename.rs:283`) in the connection's task. A client that disconnects there leaves
  the index on the old alias and the retry is answered `alias_exists` until a restart,
  while `docs/central-server.md:575-576` says a retry returns the renamed account.
- `app_auth_journal`: `write_auth` overwrites the journal's pending digest before the file is
  replaced (`central/native/app_auth.rs:673`). When the file on disk is known by that
  digest only, a second crash leaves app-auth's own file unknown: refresh stops, disable
  keeps it as a login. `app_auth.rs:83` says a crash leaves either file recognizable.

### What the models show that no document speaks of

These are consequences of the code that the properties are stated around. Each names the
code and the shape of the case; none has a run of its own.

Renames and profiles
- A local login takes the store lock only after the new token is made
  (`login.rs:140-165`). Of two logins of one account at one time the last to take the lock is
  kept, also when its token is the older one. The provider has revoked that one, and the newer
  one is gone. Two generations cannot show this; three do.
- A capture that fails only warns (`profile.rs:914-920`, `952-964`) and the switch, login or exec then
  overwrites the file it should have saved (`profile.rs:845-871`). If Codex had rotated the
  token there, the only copy of the newest one is gone. `RotationKept` excuses the seat from then
  on; without the excuse TLC finds the loss.
- `atomic_write` renames the intent into place and then syncs the directory
  (`rename.rs:270`). When only the sync fails, the rename is refused with the intent on
  disk and later changes are not blocked, so an import may take the new alias and the
  restart fails on it. With `"intent_sync"` in `Failures`, TLC finds `IntentFinishable`
  violated, and `StaleNeverServed` and `ImplementsBook` with it; the instance leaves it
  out. It is the one hazard without a property.
- A client that disconnects between the commit of its rename and the index
  (`rename.rs:283`) leaves the account under its old key in memory. The retry is refused
  (the finding above). A later rename that starts from the old alias can also take the
  account back to the alias that was just retired: two tombstones then name each other. With
  `"index"` in `Failures` TLC finds `StaleNeverServed` and `ImplementsBook` violated.

Operations of an owner
- The settlement that background recovery leaves behind has no lease window
  (`owner_request.rs:2449`, `2513`, `2552`, `2596`). Under a partition that does not end it keeps the
  account's owner closed and its permit of the work pool, while the same settlement of a
  request gives both up. `OperationEnds` states the two apart.
- A redemption on a replica that has no Owner of the account in its map takes custody without
  the Owner's mutex (`resets/shared.rs:298-308`). A request for a token may then insert the Owner
  (`managed.rs:1032-1084`), refresh it and publish while the redemption calls the provider, because
  `storage/resets.rs:153` excludes only the leases of other holders. `CredentialStable`
  excludes this for other replicas and for an Owner the worker holds; `OneSpend` and the
  rest do not depend on it.

Resets and choice
- File mode: a call that timed out after the provider spent its credit, followed by a
  refused retry, is receipted as rejected although the credit is spent (`refused` in
  `FileReset`). An id whose receipt left the window of 256 could spend again.
- `docs/resets.md:59-66` ranks resets before accounts that can bill; `codexctl use` takes
  an account with headroom that may bill before any reset (`MostAvailable`).
- `select_most_available` returns nobody when an unread account, or one with closed overage,
  sorts first, although `use_profile.rs:165` expects it to hand something back.

Imports and logins of a single server
- A crash between the creation of an account's directory and its vault leaves the
  ownership unresolved, and every later import is refused. A crash between the runtime
  directory and `auth.json` blocks every launch. A crash between fork and the pid record
  leaves an alias that can never prove its process ended; the verifier's intent
  removes this for renewals.
- "Not started" speaks of the last spawn only: an alias whose earlier process rotated
  its grant and whose next spawn fails yields to an older copy under another alias, which
  the provider answers by revoking the login (`forgot` in `AccountImport`).
- A cancel is durable when the worker lands; a crash before that promotes the grant. A
  canceled or failed renewal leaves its alias blocked until the next one succeeds.
- An Add whose landing fails after its rename leaves a landed record with its grant
  unretired; the status request ends it, retirement skips ended records, and every later
  start fences the held account again until it is renewed. A revoked device's Add whose
  import succeeded is recorded as canceled although the account stays.

Identity, enrollment, copies
- A removed account's claims stay in the ledger: its login cannot be added again, and
  the Add ends in an error only after its checks.
- A poll's lost answer loses the token; a second approval of one device overwrites the
  first; a device that expires during approval leaves a machine nobody has the token of;
  a known identity's changed email is stored without the uniqueness check.
- `import_loans` refuses a changed loan, so a later backfill fails as a whole; an account a
  PostgreSQL server refreshed can be overwritten by a file server's higher revision.
- Fast path: the age of an observation is taken once before up to three attempts to write
  it; a former holder's failed read may withdraw the new holder's evidence; a withdrawal
  that fails three times leaves evidence for its 60 s.
- Capacity: a repeated answer keeps the time of its charge, so the hour is measured from
  charges, not from moves.

Launch, relay, client files
- Recovery resumes the session of the first stop; with two wrappers in one directory,
  discovery takes the newest unseen session; the file-system fallback of capacity
  detection can never find it. An interrupted turn's overload may be counted by a
  later confirmation without a turn id (`lost` in `RelayStops`).
- A double failure in `rollback_activation` leaves the provider active without a marker
  (`history.torn`). A probe of a dead launch's lock is itself taken for a live owner
  for a moment.
- A helper that holds the sweep lock for longer than a close waits for it can write the
  connection back into the directory that the close removed without the lock (`launch.rs:82-85`).
- State cap: a process that opens a rollout after the last check writes to a deleted
  file; a cut-off line of the index stops every later run; a kill between two steps
  followed by Codex's own write, or an ignored failure to remove an entry, makes the
  resume of that session refuse for good; entries are keyed by session id. An append that
  fails within its line (`state_cap.rs:292`) cannot take its entry back, since the index is no
  longer readable and the failure is ignored (`state_cap.rs:265`). The same run goes on, and the next
  entry lands on the cut-off line: its rollout is deleted (`state_cap.rs:275`) and stays in an archive
  that no entry, or one of a mangled session id, names. A line that a kill left without its
  line feed is read, and spoils the next entry too. `RolloutKept` then still says that the
  archive has what was written (`glued`).

## 5. Proofs

`CredentialOwnerProofs` begins with the store: for every set of holders and contents and every
bound, `IInv` is an invariant of `LeaseStore` and from it `AckedCommitted`, `EvidenceTruthful`,
`FencingOrder`, `RevisionNamesContent`, `RemovedUnleased` and `RemovedFinal`. None of the
properties is inductive alone: that an older grant cannot publish needs that grants
in memory are ordered below the row's epoch (`GrantsOrdered`); that a repeated
publication or save may be acknowledged needs that the row holds what was committed at its
revision and nothing was committed above it (`RowCommitted`); that a removed account
stays unleased needs that a released lease is not live (`ReleasedNotLive`). The
assumptions are the three of the module: the absent holder and content are not holders
or contents, and the bounds are numbers.

`AliasBook` proves `BookInv` (types, `OneHolder`, `RetiredUnheld`) and from it
`RetiredForGood`: a rename retires the alias it leaves, which someone held and so was
not retired.

`AliasRenameProofs` proves the safety properties of the run `rename` for any accounts,
aliases, spellings and clients and any number of failures and crashes: `IInv`
(`Invariant`), `StaleNeverServed` (`NeverStale`), `RetryReturns` (`RetriesReturn`) and the
refinement `ImplementsBook` (`Implements`); `Promises` then carries the theorems about the
book over to the files. The invariant relates four things that the code keeps apart.
`DirectoriesNamed`: every directory is under the key of its vault's alias or has an intent,
and then it is before or after its move (`Unmoved`, `Moved`), with its other key free; nobody
is under a retired key. `IntentsWait` and `OpPlaced`: an intent is on disk only while a rename
works on it, or until a restart, and what each step may rely on (this is why nothing can take
the new name while the intent waits, `IntentFinishable`). `Memory` and `Indexed`: an index
entry names the owner under its key, or its directory has left and the alias is retired.
`Serving`: an owner that serves has the directory and the alias of its account, which is why a
rename stops it first. The refinement needs no more than this invariant: of all steps only the
entry of an account, the intent (which takes the spelling the owner had), the save of the
vault when the key stays and the move of the directory when it changes alter the names.
The hypothesis `Known` excludes two failures, and TLC shows that both are needed: with either
the properties do not hold (see "What the models show"). `RetriesReturn` also excludes that the
owner cannot take its moved vault (`"reload"`), which leaves the index behind in the same way.
The last assumption, `ApartAssumption`, says that "none" is no name and no record.

`ServerProofs` holds the theorems about four components of the account server that have no
definitions in common. Its first part proves `FastIInv` of `FastPath`, for any replicas and
requests, any ages and delays and any course of rotations, expiries and failures
(`FastHolds`). The inductive invariant `FastInductive` says how the truth of an answer goes
through four hands: what a read knows when it is about to publish (`Knows`: as long as its
replica has the lease, the credential has been routed, and its use as low as it says, since
the read began), what the evidence of the committed revision then says (`Evident`: late by
one publication at most), what a request is told (`Told`), and that the lease is with a
request that reads under it (`Locks`), without which a withdrawal and a publication could
cross. `Knows` has to say nothing of a read that lost its lease: its publication is refused,
so the step that commits is where the fence of `fenced_write_observed` is used. The
hypothesis `Measured` says that the value for "free" is no replica and no request, that the
ages and delays are natural numbers and that `Traffic` has the fields a behaviour reads.

The second part of `ServerProofs` proves `AdmissionIInv` of `IdentityAdmission` for every set
of accounts, users, operations and plans. `OneAccountPerLogin` is not inductive: that a new claim of a live
account meets no other account of the login needs the ledger to know every claim of a live
credential (`LedgerTrue`) and those claims to be the login's (`OwnClaims`); that an operation
publishes into the right account needs that what it reserved or verified is of that
account's login (`ReservedForOwner`, `VerifiedForOwner`), between its transactions too. The
assumption `Apart` says that the value for "nobody" is neither an account nor an operation.

Its third part proves `MigrationIInv` of `Migration`, for any source tables, any number of
migrators and deaths and any size of a batch (`MigrationInvariant`). Nothing is locked between
reading a position, reading and decoding a page, and the commit, so what is proved of a migrator
(`Informed`) is conditional: as long as the revision it saw is the position's, the position
is what it saw. Then the page is the next rows (`PageExact`: none between the cursor and the new
cursor is left out, and an empty page means that none is left), and a commit counts each of them
once (`Positioned`) and contradicts no account of a claim that a row passed has named (`Settled`).
`Fenced` is why that is so at the end too: from the fence on the tables stand still, and
before it nobody has begun. The hypothesis `Migratable` says that keys are finitely many numbers from
1, that a batch has at least one row, and that the value for "nothing" is no row and no account.

The fourth part proves of `Backfill` both what the run checks as part of `MigrationIInv`
(`BackfillInvariant`: `ReportExact` and `Repeatable`) and `BackfillSafe` (`BackfillKeeps`), for any
rows on both sides. A run reads each row back and never looks at it again, and checks some tables
only on its way; `SameRows` and `Checked` say of each stage what is still so of the tables it
has left behind, which rests on nobody writing beside a run. The hypothesis `Importable`
says that tables are finite and the cap is a number.

`ResetRedemptionProofs` proves, for any requests, credits, workers and replicas, what the
run `reset_redemption` checks for a few. `Invariant` is `Spec => []IInv`; `SpendsOnce`
(`OneSpend`), `ToldTheTruth` (`AnswerTruthful`) and `Retained` (the action property
`ReceiptsKept`) follow from it. `OneSpend` says only what must not happen to outcomes. What
carries it is `CoveredOnce` (no request is written under two keys, unless its receipt was
dropped), which needs `Accounted`: every request ever written under a key is pending under
it, or its receipt is the provider's answer to that key. Both need `WorkTrue`: a worker
whose revision is still the row's holds the very row it read, with its intent or its
settlement, so the compare-and-set of the two writes is what the proof rests on; a worker
that holds an answer holds the provider's. `CredentialStable` is the part the refresh
lease, the custody lock and the Owner's mutex keep: a refresh of another replica cannot begin
under custody, a reservation is not admitted under its open lease, and where the worker holds
the Owner its own replica's cannot begin either. Where the Owner is inserted later it can, and
nothing else in the invariant needs that it cannot. There is a lemma per action; those of the
redemption itself (`ReserveKeeps`, `SettleKeeps`, `ProcessKeeps`) are where the argument
is, the others go through `Ended`, `Moved` and `AccountMoves`, which say what a worker that
ends, a worker that moves on and the other actors leave alone. `CompleteGives` is the
specification of `Journal::complete`, from one lemma per loop of it (`RecordedGives`,
`WithoutUnorderedGives`, `TrimmedGives`): the batch is on record with its code, and the
receipts dropped from the order are its oldest. It rests on `InOrderIs`, that a finite set
of ids can be listed in order; this is an induction, done by the least size of a set that
could not be (`Sortable`), since the library's induction theorems are out of reach. Assumed
are: `None` and the words for the mutex are no one's name, bounds are numbers of which at
least one write is allowed, and what an earlier release left is `Sound`.

The rest of `CredentialOwnerProofs` proves all the safety properties that
the run `owner_custody` checks, for any number of replicas and restarts, any generations of
the grant, any lease length and margin. It builds on the theorems about the store: the rows are
the same, and an owner's step is a store's step with what its replica does around it.
`CustodyIInv` is the inductive invariant (`CustodyInvariant`), in three layers; the run
`owner_liveness` checks it on one replica, with two it takes longer than a run may.

- *Types and windows* (`Typed`, `Watched`). `RequestHoldsLease` is about the row, but the
  code looks only at its own clock: the proof needs that the window of an operation never
  exceeds what is left of its lease (a renewal sets both back, a tick takes from both, and
  the store refuses to renew what has run out), and that an operation that goes on has more
  than the margin. The one exception is a replica that removed the account itself, whose
  child was stopped before (`RequestsHoldTheirLease`).
- *What may be worked with is committed* (`PublishedClean`, `WorkingClean`). An owner at rest
  that requests may use, the baseline of an operation, and what is published before it is
  delivered agree with what the row committed under their revision. `DeliversCommitted` and
  `ReopensDurable` follow.
- *One rotation at a time* (`RevisionsOrdered`, `OneRotation`, `Tracked`, `Held`), as long as
  no custody was given up and the account is active: a later revision names a later
  generation; a generation that is not committed is the provider's newest and is on one
  replica; whatever is behind it there is committed under the revision it is held with,
  unless the row has moved on; and an operation under its lease has it. `RotationHeld`
  follows (`HoldsRotations`). It says what the lease is for: two holders could otherwise each
  rotate what the other has.

The layers are not proved action by action. The step of a replica is described once (`StepView` and the lemmas before it: a credential stays, is reconciled, is
reported by the child, is settled, published or rejected), and each layer is then proved of
the views. Beyond the assumptions of `LeaseStore`, it assumes that generations are positive
numbers of which 1 is the imported one, that holder ids are a replica with its boot, and that
the margin is less than the lease.

`LoginOperationProofs` proves what the run `login_operation` checks, for any replicas, holder
incarnations and epochs: `Invariant` is `Spec => []IInv`, `LoginPromises` are the three
properties in it, and `ReceiptOrderHolds` is the order of phases. `GrantKept`, `SoleUser` and
`FailureTruthful` are each about several processes, none of which sees the others; what
carries them is what each may believe.

- *Copies* (`Copied`, `Distinct`). Worker, supervisor and request each act on a copy of the
  receipt. A copy is of an epoch that was; at the receipt's epoch its sequence is not ahead,
  and at the receipt's sequence it has the receipt's phase and grant. So a statement that
  compares holder, epoch and sequence writes over what the copy says, and no two workers
  have the same epoch.
- *The device* (`Device`, `Supervisor`, `Worker`). The absence of a grant is written only by one
  that looked into the home after the native login had ended: a supervisor at its last
  step, or a worker whose supervisor is gone.
- *The account* (`Leased`, `Claimed`). A login lease stays with its holder, expired or not,
  until the receipt is decided; a worker that has claimed the account has that lease and
  the receipt, or the receipt was given up as unresolved and no worker has its epoch. An
  ordinary refresh never meets such a worker, because the journal fences it.
- *Rotation* (`Rotation`). Only a verification rotates the grant; as long as a worker of the
  receipt is before that call, or was refused by it, nothing has. This is why
  `Abort` may reject.

There is a lemma per action; what the copies and the other processes keep under any
step of the receipt is proved once (`CopiedKept`, `WorkerKept`, `ClaimedKept`, `Others`, ...).
Assumed are that `None` is no replica, holder or result, that replicas boot under different
holders, and that there is at least one epoch. The bounds on when leases and holders lapse
(section 4) are guards of the module, and so are part of the theorem.

`LocalProfilesProofs` proves what the run `local_profiles` checks, for any aliases, seats, tokens,
commands and deaths: `LocalInvariant` is `LocalSpec => []IInv`, and `LocalHolds` (`LocalIInv`),
`RotationsKept` (`RotationKept`) and `ReplacedAgreed` (the action property
`ReplacedOnlyAgreed`) follow. `RotationKept` is not inductive, for three reasons, and each is
a part of the invariant. It speaks of saved accounts only, but a switch saves what was
live, so the newest token of a live seat must be on disk as well (`Kept`). A command that folds
the live file acts on what it read of it, so the invariant says what it knows under the
store lock although Codex takes none: that the bytes it read are saved or still to be
(`Folding`, `Keeps`, `Snapped`), that its answer was about these profiles (`Answers`), and that
nobody else is between two writes (`Alone`, `Mutex`, `Verifying`). And a login holds its token
outside the store until it has the lock: until then it is the only one with the newest token
of that seat, unless another login overlapped (`Fresh`); without the exception this is false, which
is how the overlap above was found. A failed capture leaves what was live unsaved until the
install, where the invariant excuses it; that a command which captured nothing knows nothing
(its snapshot is `None`) is what makes the case one of its own. `ExecSaved` says the same of a child that has its own copy.
A fold is right because attribution is: `Attributed`, `Found`, `SeatExists`, `NoConflict` and
`Resolved` are the lemmas about `ProfileIdentity`, and say that a file attributed to a profile is
of its seat. `OneAlias` (one account under one alias) rests on them. The actions are taken in
four classes: those that write no file, those of one command that leave the files, those
under the lock, and those that make a token. Assumed are: `None` is no name and no file, and 1 is a
generation; tokens of one seat agree in what they declare, and two seats of one workspace have
no login in common, which is what the code means by a seat.

`UsersProofs` has the theorems about what the account server keeps for its users. The first part
proves `EnrollmentIInv` of `Enrollment` (`EnrollmentHolds`), for any identities, sign-ins, devices,
browsers, time limits and course of restarts. What is not inductive by itself is `OneIdentity`: that
two sign-ins of one identity, with a cutover and a roll back between them, are let in as one user.
`EnrollmentInductive` adds what `decide` relies on. A link is of an identity of the company that
has no user of its own, to one user of the same email, and is never taken back
(`UsersSound`); whoever was let in as itself is linked to nobody and, if it is of the company, in
the registry since that moment (`AdmittedSound`); a sign-in between its identity and its machine
was let in as the user it names, and a machine comes only of a sign-in that got that far
(`SignInSound`, `MachinesSound`), which is why the write of the registry that follows without the
lock (`RecordUser`) cannot make a user for a linked identity. The hypothesis `Deployed` says
that the value for "nobody" is no one's name or email, that stored users of the company have
different emails, and that an identity, the digest of an issuer and a subject, is admitted
either by the configuration of the company's domains or by the others. The last is needed: if
one issuer served both, someone let in without the check of the domain would be a second user of
the email, and TLC finds it in seven steps.

The second part of `UsersProofs` proves what the run `server` checks of `Loans`, for any grants,
requests, logins and length of the clock: `LoanInvariant` is `Spec => []Inductive`, from which `LoansHold`
(`LoansIInv`, which `LoanIInv` of the run checks in its two sizes), `EndsKept` and `DeliversLent`
(the two halves of `LoanSteps`) follow. Neither the mirror nor the delivery can be argued from the
rows alone.

- *Requests* (`Knows`). A request decides on what it read some steps ago. Still so when it
  writes is only: nobody else creates the id it planned; the grant it read is still of that
  login, because a grant changes its phase and never its login; the token it holds is of the
  login it compared. That the loan has not ended since is no part of it, which is why
  the last statement (`Issuable`) looks again, and `DeliversLent` is about that look.
- *Copies* (`CopyOK`, `FileOK`, `Arrived`). A copy on its way is the grant as it was when it was
  sent. The copy of an active grant is the grant unless that has ended; the copy of an end is the
  end, because an end is final. So the mirror is behind the store and never beside it, and
  what it lacks is on its way or its last copy failed: `MirrorConverges` is what remains of this
  when nothing is on its way.
- *Rows* (`GrantOK`, `RemovedUnlent`). The audit log follows the phase of the grant.

Assumed is what the module assumes: the bound of the clock is a number, and the mirror is
followed for some of the grants.

The third part of `UsersProofs` proves `CapacityIInv` of `Capacity` (`CapacityInvariant`), for any
accounts, lengths of a window, a cooldown and an hour, limits, and any course of reports, lost
answers, deaths and new launchers. Three things make it inductive.

- *Histories* (`HistoryTrue`). What a history counts are failures that happened, none of them from
  before its last success, and while it cools at least `streak` of them since. Pruning forgets
  failures and no cooldown, so the count is of what happened and not of what is still remembered.
- *Moves* (`MovesSound`). `MovesBounded` is about the moves that launchers were told, and the budget
  counts those that are charged. What was told within the hour is charged, so the charged ones
  are all that counts against a new move, and the limit is stated of both together. A stop is
  charged once, because a charge of the stop a launcher asks about is of the account it is on,
  and a plan finds it; it is told once, because the launcher then asks about another one.
- *The write in progress* (`Pending`). Between the two files the move is charged and the
  histories to be written are still true, though more may have been reported. A death there
  leaves a charge nobody was told of, which the next question about the stop finds.

The hypothesis `Recoverable` says that the lengths and the limits are numbers and that the account
a session starts on is one of the accounts.

Only model-checked: everything else, that is the single server's
files and the rest of the client; of `CredentialOwner`, that operations end
(`OperationEnds`), and of `AliasRename`, that a restart finishes (`RestartFinishes`). Liveness
and `ENABLED` are beyond the prover and stay with TLC.

## 6. Abstractions and what is left out

- Names, tokens, payloads and identities are values of small sets; encryption, JSON,
  HTTP routing, logging and wording are left out.
- A login journal is a flag in `LeaseStore` (`SetBlocked`); `LoginOperation` has the
  journal and, in turn, the lease without its epoch and the credential rows.
- `LoginOperation` has one renewal; the claims by which operations exclude each other are
  `IdentityAdmission`'s, which has each transaction and nothing between.
- The provider is modelled as the code uses it: a refresh token rotates once, a superseded
  one revokes its chain where that matters, a redemption key is handled once.
- `FastPath`: the Vault canary policy and `BillingRead::Recent`. `Loans`: retention, pause
  events and the client's forms; an end is stamped with the time read before its
  statement, and the audit is compared by kind, not by time. `ResetRedemption`: the
  inventory reads and the audit row. `Backfill`: schema statements and reports.
- `Enrollment`: rate limits, cookies and pages. `Capacity`: parsing and rendering of plans.
- `CodexLaunch`: session discovery, arguments, resume prompts and the output of exec.
  Relay: the watchdog, connection handling and evidence files.
- `StateCap`: sizes, the SQLite checkpoint, and power loss (a kill keeps what was written).
  A rollout has a session of its own.
- File mode without `PR_SET_PDEATHSIG`: the server runs a login without a supervisor there.

### Not modelled

- *Owner refresh control*: a retry clock and a switch under one lock; its effect on a lease
  is in `CredentialOwner`.
- *Live sessions and activity*: one lock, nothing persisted, no answer depends on their order.
- *Server entry points*, *status output*: start-up, parsing and formatting.
- HTTP requests of the client, handoff and installation; the device flow of a local login
  and terminal dialogs; the `rate` command.
- Components marked "partly" in `PROJECT.json` say there what of them is left out.
