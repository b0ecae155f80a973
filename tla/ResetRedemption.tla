--------------------------- MODULE ResetRedemption ---------------------------
(***************************************************************************)
(* Redemption of a banked reset on one account shared by several replicas  *)
(* (src/src/central/resets/shared.rs and storage/resets.rs).  A worker is  *)
(* one spawned `apply` task; it keeps running when its caller disconnects. *)
(* The PostgreSQL session of its custody may be lost at any moment, its    *)
(* provider call may go unanswered and be processed later, and any         *)
(* transaction may commit without its reply being seen.                    *)
(*                                                                         *)
(* The provider is external: it handles an idempotency key once and        *)
(* answers every later call with that key from the first outcome.          *)
(***************************************************************************)
EXTENDS ResetJournal

CONSTANTS
  Workers, Replicas,
  Home,          \* the replica a worker runs on
  Scopes         \* bounds, of which a behaviour has one: the replicas that refresh
                 \* or remove the account, those that start without its Owner,
                 \* journal writes, publications, and the journals an earlier release
                 \* may have left

ASSUME HomeAssumption == Home \in [Workers -> Replicas]
ASSUME ActorsAssumption ==
  None \notin Workers \cup Replicas /\ "free" \notin Workers /\ "refresh" \notin Workers
ASSUME ScopesAssumption ==
  \A s \in Scopes :
    /\ s.refreshers \subseteq Replicas
    /\ s.versions \in Nat \ {0} /\ s.revisions \in Nat
    /\ \A j \in s.journals : Sound(j)

VARIABLES
  scope,     \* the bounds of this behaviour
  account,   \* [active, revision, routed]: routed is fresh routing evidence
  row,       \* the account_reset_journals row: [version, journal]
  lease,     \* the refresh lease: [holder, live, open], open is NOT released
  custody,   \* the worker whose session holds the advisory lock, or None
  found,     \* the account's Owner in each replica's map: "absent", "boot" (hydrated
             \* from disk) or "inserted" by a request since
  owner,     \* who holds each replica's Owner mutex: "free", "refresh", a worker
  recover,   \* replicas whose recovery holds a lease and waits for the mutex
  work,      \* what each worker knows
  calls,     \* provider calls sent: [key, credit]
  outcome,   \* external: the provider's outcome of each key
  avail,     \* external: credits not yet spent
  covers,    \* history: the requests each key was sent for
  fresh,     \* history: "reset" answers given as new, per key
  told,      \* history: requests told that a reset happened
  evicted    \* history: requests whose receipt was dropped

central == <<account, row, lease, custody, found, owner, recover>>
provider == <<calls, outcome, avail>>
history == <<covers, fresh, told, evicted>>
vars == <<scope, central, work, provider, history>>

\* The key of a request stands for digest(user, account, request).
Keys == Requests
Idle == [pc |-> "idle", req |-> None, revision |-> 0, version |-> 0,
         journal |-> EmptyJournal, sent |-> None, code |-> "unknown"]
Spent == {"reset", "already_redeemed"}

Works == [pc : {"idle", "loading", "reading", "reserving", "sending", "waiting",
                "settling", "writing"},
          req : Requests \cup {None}, revision : Nat, version : Nat, journal : Journals,
          sent : Pendings \cup {None}, code : Codes]
TypeOK ==
  /\ scope \in Scopes
  /\ account \in [active : BOOLEAN, revision : 0..scope.revisions, routed : BOOLEAN]
  /\ row \in [version : 0..scope.versions, journal : Journals]
  /\ lease \in [holder : Replicas \cup {None}, live : BOOLEAN, open : BOOLEAN]
  /\ custody \in Workers \cup {None}
  /\ found \in [Replicas -> {"absent", "boot", "inserted"}]
  /\ owner \in [Replicas -> Workers \cup {"free", "refresh"}]
  /\ recover \in SUBSET Replicas
  /\ work \in [Workers -> Works]
  /\ calls \in SUBSET [key : Keys, credit : Credits]
  /\ outcome \in [Keys -> Codes \cup {None}]
  /\ avail \in SUBSET Credits
  /\ covers \in [Keys -> SUBSET Requests]
  /\ fresh \in [Keys -> 0..2]
  /\ told \in SUBSET Requests
  /\ evicted \in SUBSET Requests

Init ==
  /\ scope \in Scopes
  /\ account = [active |-> TRUE, revision |-> 0, routed |-> TRUE]
  /\ \E j \in scope.journals :
       /\ row = [version |-> IF j = EmptyJournal THEN 0 ELSE 1, journal |-> j]
       /\ covers = [k \in Keys |->
                      IF j.pending # None /\ k = j.pending.request THEN Covers(j.pending)
                      ELSE IF k \in DOMAIN j.completed THEN {k} ELSE {}]
       /\ outcome = [k \in Keys |->
                       IF k \in DOMAIN j.completed THEN j.completed[k] ELSE None]
  /\ lease = [holder |-> None, live |-> FALSE, open |-> FALSE]
  /\ custody = None
  /\ found = [h \in Replicas |-> IF h \in scope.lazy THEN "absent" ELSE "boot"]
  /\ owner = [h \in Replicas |-> "free"]
  /\ recover = {}
  /\ work = [w \in Workers |-> Idle]
  /\ calls = {}
  /\ avail = Credits
  /\ fresh = [k \in Keys |-> 0]
  /\ told = {}
  /\ evicted = {}

---------------------------------------------------------------------------
\* Central: the journal's writer.

\* A settled journal replaces the row; what it drops is evicted.
Write(j) ==
  /\ row.version < scope.versions
  /\ row' = [version |-> row.version + 1, journal |-> j]
  /\ evicted' = evicted \cup (DOMAIN row.journal.completed \ DOMAIN j.completed)

\* Mutated form: the row is replaced whatever its revision.
CasAlways(w) == TRUE

\* UPDATE ... WHERE revision=$2, INSERT ... ON CONFLICT DO NOTHING.
Cas(w) == row.version = work[w].version

\* The worker ends: its session closes and the Owner guard is dropped.
End(w) ==
  /\ work' = [work EXCEPT ![w] = Idle]
  /\ custody' = IF custody = w THEN None ELSE custody
  /\ owner' = [owner EXCEPT ![Home[w]] = IF @ = w THEN "free" ELSE @]

At(w, pc) == work[w].pc = pc
Enter(w, pc) == work' = [work EXCEPT ![w].pc = pc]
Hold == UNCHANGED <<custody, owner>>

\* Mutated form: any receipt is replayed as a reset that already happened.
ToldAny(r, code) == told' = told \cup {r}

\* The answer to a request whose receipt is on record (`receipt`, replay).
Told(r, code) == told' = IF code \in Spent THEN told \cup {r} ELSE told

\* run: a receipt is replayed without custody or provider work.
Replay(w, r) ==
  /\ At(w, "idle") /\ account.active
  /\ r \in DOMAIN row.journal.completed
  /\ Told(r, row.journal.completed[r])
  /\ UNCHANGED <<central, work, provider, covers, fresh, evicted>>

\* run: the map of owners is read, then the mutex of what it held is tried, then the
\* custody; nothing is waited for.  An Owner that was not in the map is not locked, also
\* if a request has inserted it since and refreshes by now.
TakeCustody(w, r) ==
  /\ At(w, "idle") /\ account.active
  /\ r \notin DOMAIN row.journal.completed
  /\ \/ /\ found[Home[w]] # "absent" /\ owner[Home[w]] = "free"
        /\ owner' = [owner EXCEPT ![Home[w]] = w]
     \/ found[Home[w]] # "boot" /\ UNCHANGED owner
  /\ custody = None
  /\ custody' = w
  /\ work' = [work EXCEPT ![w] = [Idle EXCEPT !.pc = "loading", !.req = r]]
  /\ UNCHANGED <<account, row, lease, found, recover, provider, history>>

\* run and execute: the credential the call will use, its routing proof.
LoadAccount(w) ==
  /\ At(w, "loading")
  /\ IF account.active /\ account.routed
     THEN /\ work' = [work EXCEPT ![w].pc = "reading", ![w].revision = account.revision]
          /\ Hold
     ELSE End(w)
  /\ UNCHANGED <<account, row, lease, found, recover, provider, history>>

\* A pending redemption is joined, whoever began it; otherwise a credit is
\* picked and a new intent named after this request.
Intent(w, c) ==
  LET p == row.journal.pending
      r == work[w].req
  IN  IF p = None THEN [request |-> r, credit |-> c, joined |-> {}] ELSE Join(p, r)

\* Mutated form: the journal is read without looking for a receipt.
ReceiptIgnored(w) == FALSE

HasReceipt(w) == work[w].req \in DOMAIN row.journal.completed

\* execute: one round of the reservation loop, up to the write.
ReadJournal(w) ==
  LET j == row.journal
      r == work[w].req
  IN
  /\ At(w, "reading")
  /\ \/ /\ HasReceipt(w)
        /\ Told(r, j.completed[r])
        /\ End(w)
     \/ /\ ~HasReceipt(w)
        /\ \/ /\ j.pending # None => JoinBusy(j.pending, r)  \* reset_busy, no credit
              /\ End(w)
           \/ \E c \in Credits :
                /\ IF j.pending = None THEN c \in avail
                   ELSE ~JoinBusy(j.pending, r) /\ c = j.pending.credit
                /\ work' = [work EXCEPT ![w].pc = "reserving",
                                        ![w].version = row.version,
                                        ![w].journal = [j EXCEPT !.pending = Intent(w, c)]]
                /\ Hold
        /\ UNCHANGED told
  /\ UNCHANGED <<account, row, lease, found, recover, provider, covers, fresh, evicted>>

\* write_reset_journal, Reserve: what the transaction checks first.
Admitted(w) ==
  /\ account.active /\ account.routed
  /\ account.revision = work[w].revision
  /\ lease.open => lease.holder = Home[w]

\* The intent is committed before the provider hears of it.  `answered` is
\* false when the commit's reply is lost: the worker ends with an error.
Reserve(w, answered) ==
  LET p == work[w].journal.pending IN
  /\ At(w, "reserving")
  /\ Admitted(w) /\ Cas(w)
  /\ Write(work[w].journal)
  /\ covers' = [covers EXCEPT ![p.request] = @ \cup Covers(p)]
  /\ IF answered
     THEN work' = [work EXCEPT ![w].pc = "sending", ![w].sent = p] /\ Hold
     ELSE End(w)
  /\ UNCHANGED <<account, lease, found, recover, provider, fresh, told>>

\* Another write came first: up to eight rounds, then reset_busy.
ReserveRetry(w) ==
  /\ At(w, "reserving")
  /\ Admitted(w) /\ ~Cas(w)
  /\ \/ Enter(w, "reading") /\ Hold
     \/ End(w)
  /\ UNCHANGED <<account, row, lease, found, recover, provider, history>>

\* A refusal or an error ends the worker; the journal keeps the intent.
Refused(w) ==
  /\ At(w, "reserving") /\ ~Admitted(w)
  /\ End(w)
  /\ UNCHANGED <<account, row, lease, found, recover, provider, history>>

---------------------------------------------------------------------------
\* The provider call.

Consume(w) ==
  /\ At(w, "sending")
  /\ calls' = calls \cup {[key |-> work[w].sent.request, credit |-> work[w].sent.credit]}
  /\ Enter(w, "waiting")
  /\ UNCHANGED <<central, outcome, avail, history>>

\* No usable answer: transport error, timeout, 401, 408, 429, 5xx.
Unanswered(w) ==
  /\ At(w, "waiting")
  /\ End(w)
  /\ UNCHANGED <<account, row, lease, found, recover, provider, history>>

Answered(w) ==
  /\ At(w, "waiting")
  /\ outcome[work[w].sent.request] # None
  /\ work' = [work EXCEPT ![w].pc = "settling", ![w].code = outcome[work[w].sent.request]]
  /\ UNCHANGED <<central, provider, history>>

\* External: the provider handles a key it has not seen, in its own time.
Process(call) ==
  /\ outcome[call.key] = None
  /\ \E code \in Codes :
       /\ IF call.credit \in avail THEN code \in {"reset", "nothing_to_reset", "unknown"}
          ELSE code # "reset"
       /\ outcome' = [outcome EXCEPT ![call.key] = code]
       /\ avail' = IF code = "reset" THEN avail \ {call.credit} ELSE avail
  /\ UNCHANGED <<central, work, calls, history>>

---------------------------------------------------------------------------
\* Settlement.

\* The journal's intent is the one this worker called for.
SameIntent(w) ==
  /\ row.journal.pending # None
  /\ row.journal.pending.request = work[w].sent.request

\* execute: one round of the settlement loop, up to the write.
SettleRead(w) ==
  LET j == row.journal
      r == work[w].req
  IN
  /\ At(w, "settling")
  /\ \/ /\ HasReceipt(w)
        /\ Told(r, j.completed[r])
        /\ End(w)
     \/ /\ ~HasReceipt(w) /\ ~SameIntent(w)      \* reset_busy, intent changed
        /\ End(w)
        /\ UNCHANGED told
     \/ /\ ~HasReceipt(w) /\ SameIntent(w)
        /\ work' = [work EXCEPT
                     ![w].pc = "writing", ![w].version = row.version,
                     ![w].journal = Complete([j EXCEPT !.pending = None],
                                             Covers(j.pending), work[w].code)]
        /\ Hold
        /\ UNCHANGED told
  /\ UNCHANGED <<account, row, lease, found, recover, provider, covers, fresh, evicted>>

\* write_reset_journal, Settle: the receipts and the end of the routing
\* evidence commit together.
Settle(w, answered) ==
  LET code == work[w].code
      key == work[w].sent.request
  IN
  /\ At(w, "writing")
  /\ account.active /\ Cas(w)
  /\ Write(work[w].journal)
  /\ account' = [account EXCEPT !.routed = @ /\ code \notin Spent \cup {"unknown"}]
  /\ fresh' = IF answered /\ code = "reset" /\ fresh[key] < 2
              THEN [fresh EXCEPT ![key] = @ + 1] ELSE fresh
  /\ IF answered THEN Told(work[w].req, code) ELSE UNCHANGED told
  /\ End(w)
  /\ UNCHANGED <<lease, found, recover, provider, covers>>

SettleRetry(w) ==
  /\ At(w, "writing")
  /\ \/ account.active /\ ~Cas(w) /\ Enter(w, "settling") /\ Hold
     \/ ~Cas(w) /\ End(w)
     \/ ~account.active /\ End(w)
  /\ UNCHANGED <<account, row, lease, found, recover, provider, history>>

---------------------------------------------------------------------------
\* Losing custody.

\* The session dies: the lock is free at once, the worker does not know yet.
LoseSession(w) ==
  /\ custody = w
  /\ custody' = None
  /\ UNCHANGED <<account, row, lease, found, owner, recover, work, provider, history>>

\* custody.lost(): polled every 50 ms, then the worker is cancelled.
NoticeLost(w) ==
  /\ ~At(w, "idle") /\ custody # w
  /\ End(w)
  /\ UNCHANGED <<account, row, lease, found, recover, provider, history>>

\* A replica crashes: its workers, its mutex and its recovery are gone, its
\* lease row and the calls it sent are not.  It starts with the owners its disk names.
Crash(h) ==
  /\ \E w \in Workers : Home[w] = h /\ ~At(w, "idle")
  /\ work' = [w \in Workers |-> IF Home[w] = h THEN Idle ELSE work[w]]
  /\ custody' = IF custody # None /\ Home[custody] = h THEN None ELSE custody
  /\ owner' = [owner EXCEPT ![h] = "free"]
  /\ found' = [found EXCEPT ![h] = IF @ = "inserted" THEN "boot" ELSE @]
  /\ recover' = recover \ {h}
  /\ UNCHANGED <<account, row, lease, provider, history>>

---------------------------------------------------------------------------
\* Token refresh on the same account, as far as it meets a redemption.

\* Mutated form: a claim does not try the redemption's lock.
GuardOff == TRUE

\* reset_mutation_guard!: a shared lock on the custody's key.
MutationAllowed == custody = None

\* resolve_alias: a request for an account that is not in the map inserts its Owner.
SelectOwner(h) ==
  /\ account.active /\ found[h] = "absent"
  /\ found' = [found EXCEPT ![h] = "inserted"]
  /\ UNCHANGED <<account, row, lease, custody, owner, recover, work, provider, history>>

\* acquire_lease under the Owner mutex.  Background recovery then drops the
\* mutex and takes it again to launch (`wait`).
RefreshBegin(h, wait) ==
  /\ account.active /\ MutationAllowed
  /\ found[h] # "absent" /\ owner[h] = "free" /\ h \notin recover
  /\ ~lease.live \/ lease.holder = h
  /\ lease' = [holder |-> h, live |-> TRUE, open |-> TRUE]
  /\ owner' = [owner EXCEPT ![h] = IF wait THEN "free" ELSE "refresh"]
  /\ recover' = IF wait THEN recover \cup {h} ELSE recover
  /\ UNCHANGED <<account, row, custody, found, work, provider, history>>

RecoverResume(h) ==
  /\ h \in recover /\ owner[h] = "free"
  /\ recover' = recover \ {h}
  /\ owner' = [owner EXCEPT ![h] = "refresh"]
  /\ UNCHANGED <<account, row, lease, custody, found, work, provider, history>>

\* fenced_write: the rotated credential, with evidence or without.
RefreshPublish(h, proved) ==
  /\ owner[h] = "refresh" /\ account.active
  /\ lease.holder = h /\ lease.live
  /\ account.revision < scope.revisions
  /\ account' = [account EXCEPT !.revision = @ + 1, !.routed = proved]
  /\ UNCHANGED <<row, lease, custody, found, owner, recover, work, provider, history>>

\* release_lease, when it reaches the database, and the end of the guard.
RefreshEnd(h, released) ==
  /\ owner[h] = "refresh"
  /\ owner' = [owner EXCEPT ![h] = "free"]
  /\ lease' = IF released /\ lease.holder = h
              THEN [lease EXCEPT !.live = FALSE, !.open = FALSE] ELSE lease
  /\ UNCHANGED <<account, row, custody, found, recover, work, provider, history>>

LeaseExpires ==
  /\ lease.live
  /\ lease' = [lease EXCEPT !.live = FALSE]
  /\ UNCHANGED <<account, row, custody, found, owner, recover, work, provider, history>>

\* A normal token read observes routing again.
Observe ==
  /\ account.active /\ ~account.routed
  /\ account' = [account EXCEPT !.routed = TRUE]
  /\ UNCHANGED <<row, lease, custody, found, owner, recover, work, provider, history>>

\* remove_account, on replica h: it tries the mutex of an Owner it found in the map, and
\* its transaction the same lock; the Owner leaves the map.
RemoveAccount(h) ==
  /\ account.active /\ MutationAllowed
  /\ owner[h] = "free" \/ found[h] = "inserted"
  /\ found' = [found EXCEPT ![h] = "absent"]
  /\ lease.open => lease.holder = h
  /\ account' = [account EXCEPT !.active = FALSE]
  /\ lease' = IF lease.holder = h
              THEN [lease EXCEPT !.live = FALSE, !.open = FALSE] ELSE lease
  /\ UNCHANGED <<row, custody, owner, recover, work, provider, history>>

WorkerStep(w) ==
  \/ \E r \in Requests : Replay(w, r) \/ TakeCustody(w, r)
  \/ LoadAccount(w) \/ ReadJournal(w)
  \/ ReserveRetry(w) \/ Refused(w)
  \/ Consume(w) \/ Unanswered(w) \/ Answered(w)
  \/ SettleRead(w) \/ SettleRetry(w)
  \/ \E answered \in BOOLEAN : Reserve(w, answered) \/ Settle(w, answered)
  \/ LoseSession(w) \/ NoticeLost(w)

RefreshStep(h) ==
  \/ SelectOwner(h) \/ RecoverResume(h) \/ RemoveAccount(h)
  \/ \E b \in BOOLEAN : RefreshBegin(h, b) \/ RefreshPublish(h, b) \/ RefreshEnd(h, b)

Step ==
  \/ \E w \in Workers : WorkerStep(w)
  \/ \E h \in Replicas : Crash(h)
  \/ \E h \in scope.refreshers : RefreshStep(h)
  \/ \E call \in calls : Process(call)
  \/ LeaseExpires \/ Observe

Next == Step /\ UNCHANGED scope

Spec == Init /\ [][Next]_vars

---------------------------------------------------------------------------
(***************************************************************************)
(* Properties.                                                             *)
(***************************************************************************)

\* A request spends at most one credit, across retries, replicas, lost
\* custody and late provider calls, as long as its receipt is retained
\* (docs/central-server.md:186-189).
OneSpend ==
  \A k1, k2 \in Keys : \A r \in covers[k1] \cap covers[k2] :
    k1 # k2 /\ outcome[k1] = "reset" /\ outcome[k2] = "reset" => r \in evicted
\* Behind it: two keys are not written for one request, unless a receipt was dropped.
CoveredOnce ==
  \A k1, k2 \in Keys : k1 # k2 => covers[k1] \cap covers[k2] \subseteq evicted

\* A credit the provider has spent is never forgotten: its intent is still
\* pending, or every request it was sent for holds a receipt that says so.
SpendRemembered ==
  \A k \in Keys : outcome[k] = "reset" =>
    \/ row.journal.pending # None /\ row.journal.pending.request = k
    \/ \A r \in covers[k] \ evicted :
         /\ r \in DOMAIN row.journal.completed
         /\ row.journal.completed[r] \in Spent

\* A request that was ever written under a key is pending under it, or its receipt is
\* what the provider answered to that key, or the receipt was dropped.
Accounted ==
  \A k \in Keys : \A r \in covers[k] \ evicted :
    \/ r \in DOMAIN row.journal.completed /\ row.journal.completed[r] = outcome[k]
    \/ /\ row.journal.pending # None
       /\ row.journal.pending.request = k /\ r \in Covers(row.journal.pending)

\* A caller told that a reset happened was covered by a call for which the
\* provider said so, and so is whoever reads a receipt that says it.
TrueOf(r) == \E k \in Keys : r \in covers[k] /\ outcome[k] \in Spent
AnswerTruthful == \A r \in told : TrueOf(r)
ReceiptsTrue ==
  \A r \in DOMAIN row.journal.completed : row.journal.completed[r] \in Spent => TrueOf(r)

\* One settlement answers "reset" as new; everyone else is told that it was
\* already redeemed.
FreshOnce ==
  \A k \in Keys : /\ fresh[k] > 0 => k \in evicted \cup DOMAIN row.journal.completed
                  /\ fresh[k] > 1 => k \in evicted

\* What is pending is written under its key, and has no receipt; every ordered receipt is
\* on record, once.
JournalSound ==
  /\ Sound(row.journal)
  /\ row.journal.pending # None =>
       Covers(row.journal.pending) \subseteq covers[row.journal.pending.request]

\* What a worker knows: the request it serves was written under the key it sent, the
\* answer it holds is the provider's, and a journal it would write, if no other write comes
\* first, is the one on record with its intent or its settlement.
WorkOf(w) ==
  /\ work[w].version <= row.version
  /\ ~At(w, "idle") => work[w].req \in Requests
  /\ work[w].pc \in {"sending", "waiting", "settling", "writing"} =>
       work[w].sent \in Pendings /\ work[w].req \in covers[work[w].sent.request]
  /\ work[w].pc \in {"settling", "writing"} => outcome[work[w].sent.request] = work[w].code
  /\ At(w, "reserving") /\ Cas(w) =>
       /\ ~HasReceipt(w)
       /\ \E c \in Credits : work[w].journal = [row.journal EXCEPT !.pending = Intent(w, c)]
  /\ At(w, "writing") /\ Cas(w) =>
       /\ SameIntent(w)
       /\ work[w].journal = Complete([row.journal EXCEPT !.pending = None],
                                     Covers(row.journal.pending), work[w].code)
WorkTrue == \A w \in Workers : WorkOf(w)

\* While a worker with intact custody may call the provider, no other replica holds an open
\* lease, so none publishes under it; and if it holds its own replica's Owner, as it does
\* where the Owner was in the map from the start, the credential it loaded is the committed
\* one.  A refresh of its own replica under an Owner inserted late may publish.
CredentialStable ==
  /\ lease.live => lease.open
  /\ \A w \in Workers : custody = w =>
       /\ ~At(w, "idle")
       /\ found[Home[w]] = "boot" => owner[Home[w]] = w
       /\ work[w].pc \in {"sending", "waiting"} =>
            /\ lease.open => lease.holder = Home[w]
            /\ owner[Home[w]] = w => work[w].revision = account.revision

\* A settlement records its whole batch, and drops a receipt only for completions that
\* came later, a full window of them.
OrderOf(j, r) == CHOOSE i \in DOMAIN j.order : j.order[i] = r
Kept ==
  LET old == row.journal
      new == row'.journal
      dropped == DOMAIN old.completed \ DOMAIN new.completed
  IN  /\ old.pending # None /\ new.pending = None =>
           Covers(old.pending) \subseteq DOMAIN new.completed
      /\ dropped # {} => Len(new.order) >= ReceiptLimit
      /\ \A r \in dropped, q \in DOMAIN new.completed \cap ToSet(old.order) :
           r \in ToSet(old.order) => OrderOf(old, r) < OrderOf(old, q)

\* Retention: every write of the journal keeps what the documentation promises
\* (docs/central-server.md:179-184).
ReceiptsKept == [][Kept]_row

\* The types and all of these: together they are kept by every step.
IInv ==
  /\ TypeOK /\ CoveredOnce /\ SpendRemembered /\ Accounted /\ ReceiptsTrue /\ FreshOnce
  /\ JournalSound /\ WorkTrue /\ CredentialStable
=============================================================================
