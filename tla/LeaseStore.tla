---------------------------- MODULE LeaseStore ----------------------------
(***************************************************************************)
(* The PostgreSQL rows of one account (src/src/central/storage.rs): the    *)
(* credential row of central_accounts, its row of account_refresh_leases   *)
(* and its row of central_token_evidence.  Every SQL statement or          *)
(* transaction of PostgresStore is one atomic action.  The callers are     *)
(* replicas that keep every lease they were ever granted in memory and may *)
(* use any of them, however late; a call whose reply is lost (bounded_db   *)
(* gives up after DB_TIMEOUT) may have committed.                          *)
(*                                                                         *)
(* Accounts do not share these rows, so one account is modelled.  A live   *)
(* lease is one with expires_at > clock_timestamp(); the passage of time   *)
(* is the action Expire.                                                   *)
(***************************************************************************)
EXTENDS Integers

CONSTANTS
  Holders,      \* replica identities (holder_id)
  NoHolder,     \* the lease row does not exist yet
  Vaults,       \* credential contents
  NoVault,      \* no credential
  MaxEpoch,     \* bound: lease epochs granted
  MaxRevision   \* bound: account revisions written

ASSUME HoldersAssumption == NoHolder \notin Holders
ASSUME VaultsAssumption == NoVault \notin Vaults
ASSUME BoundsAssumption == MaxEpoch \in Nat /\ MaxRevision \in Nat

VARIABLES
  account,    \* the central_accounts row
  lease,      \* the account_refresh_leases row
  evidence,   \* the central_token_evidence row
  blocked,    \* a login journal or a reset in progress fences the account
  handles,    \* every Lease value a caller holds in memory
  committed,  \* history: the credential each revision was committed with
  lastEpoch,  \* history: the epoch of the last fenced publication
  acked       \* history: the <<revision, vault>> publications answered true

vars == <<account, lease, evidence, blocked, handles, committed, lastEpoch,
          acked>>

Statuses == {"missing", "active", "removed"}
Revisions == 0..MaxRevision
Epochs == 0..MaxEpoch
Accounts == [status : Statuses, revision : Revisions, vault : Vaults \cup {NoVault}]
LeaseRows == [holder : Holders \cup {NoHolder}, epoch : Epochs,
              live : BOOLEAN, released : BOOLEAN]
Leases == [holder : Holders, epoch : Epochs]
\* What a credential check was observed on: revision and content.
Subjects == [revision : Revisions, vault : Vaults]
NoSubject == [revision |-> 0, vault |-> NoVault]
EvidenceRows == [active : BOOLEAN, routing : Subjects \cup {NoSubject},
                 billing : Subjects \cup {NoSubject}]

TypeOK ==
  /\ account \in Accounts
  /\ lease \in LeaseRows
  /\ evidence \in EvidenceRows
  /\ blocked \in BOOLEAN
  /\ handles \in SUBSET Leases
  /\ committed \in [Revisions -> Vaults \cup {NoVault}]
  /\ lastEpoch \in Epochs
  /\ acked \in SUBSET Subjects

Init ==
  /\ account = [status |-> "missing", revision |-> 0, vault |-> NoVault]
  /\ lease = [holder |-> NoHolder, epoch |-> 0, live |-> FALSE, released |-> TRUE]
  /\ evidence = [active |-> FALSE, routing |-> NoSubject, billing |-> NoSubject]
  /\ blocked = FALSE
  /\ handles = {}
  /\ committed = [r \in Revisions |-> NoVault]
  /\ lastEpoch = 0
  /\ acked = {}

---------------------------------------------------------------------------
\* Mutated form: the fence compares the holder and forgets the epoch.
LeaseValidByHolder(l) == lease.holder = l.holder /\ lease.live

\* The row holds this very grant and it has not run out.
LeaseValid(l) ==
  /\ lease.holder = l.holder
  /\ lease.epoch = l.epoch
  /\ lease.live

\* The conflict clause of the claim: an expired row or the caller's own.
LeaseClaimable(h) == ~lease.live \/ lease.holder = h

\* acquire_login_lease without a login: a new epoch, also for a holder that
\* already holds the row.
AcquireLease(h) ==
  /\ account.status = "active"
  /\ ~blocked
  /\ LeaseClaimable(h)
  /\ lease.epoch < MaxEpoch
  /\ lease' = [holder |-> h, epoch |-> lease.epoch + 1,
               live |-> TRUE, released |-> FALSE]
  /\ handles' = handles \cup {[holder |-> h, epoch |-> lease.epoch + 1]}
  /\ UNCHANGED <<account, evidence, blocked, committed, lastEpoch, acked>>

\* renew: extends a live lease of an account that is not removed.  A live
\* lease stays live, so a successful renewal changes no row here.
Renewable(l) == LeaseValid(l) /\ account.status # "removed"

\* Time passes the row's expires_at.
Expire ==
  /\ lease.live
  /\ lease' = [lease EXCEPT !.live = FALSE]
  /\ UNCHANGED <<account, evidence, blocked, handles, committed, lastEpoch, acked>>

\* release_lease: matches holder and epoch, whether or not the lease is live.
ReleaseLease(l) ==
  /\ lease.holder = l.holder
  /\ lease.epoch = l.epoch
  /\ lease' = [lease EXCEPT !.live = FALSE, !.released = TRUE]
  /\ UNCHANGED <<account, evidence, blocked, handles, committed, lastEpoch, acked>>

---------------------------------------------------------------------------
\* Mutated form: billing columns survive a new credential.
KeptBillingAlways(s) == evidence.billing

\* record_observation: an observation without billing keeps the billing
\* columns of an active row about the same revisions and clears any other.
KeptBilling(s) ==
  IF evidence.active /\ evidence.routing = s THEN evidence.billing ELSE NoSubject

RecordObservation(s, withBilling) ==
  evidence' = [active |-> TRUE, routing |-> s,
               billing |-> IF withBilling THEN s ELSE KeptBilling(s)]

Observations == {"none", "routing", "billing"}

Observe(obs, s) ==
  IF obs = "none" THEN UNCHANGED evidence ELSE RecordObservation(s, obs = "billing")

\* Whether the caller of a publication receives the answer.
Answered(reply, s) == acked' = IF reply THEN acked \cup {s} ELSE acked

\* Mutated form: a publication may reuse the row's revision.
PublishableSameRevision(l, r) ==
  /\ account.status = "active"
  /\ LeaseValid(l)
  /\ account.revision <= r

\* fenced_write_observed, first branch: publish a newer revision under a
\* valid lease, and the observation with it.
PublishableUnder(l, r) ==
  /\ account.status = "active"
  /\ LeaseValid(l)
  /\ account.revision < r

FencedWrite(l, r, v, obs, reply) ==
  /\ PublishableUnder(l, r)
  /\ account' = [account EXCEPT !.revision = r, !.vault = v]
  /\ committed' = [committed EXCEPT ![r] = v]
  /\ lastEpoch' = l.epoch
  /\ Observe(obs, [revision |-> r, vault |-> v])
  /\ Answered(reply, [revision |-> r, vault |-> v])
  /\ UNCHANGED <<lease, blocked, handles>>

\* Mutated form: the repeated record is recognised by its revision alone.
UnchangedByRevision(l, r, v) ==
  /\ account.status = "active"
  /\ LeaseValid(l)
  /\ account.revision = r

\* fenced_write_observed, second branch: the same record again, after an
\* answer was lost, is true without a second publication.
UnchangedUnder(l, r, v) ==
  /\ account.status = "active"
  /\ LeaseValid(l)
  /\ account.revision = r
  /\ account.vault = v

FencedRewrite(l, r, v, obs, reply) ==
  /\ UnchangedUnder(l, r, v)
  /\ Observe(obs, [revision |-> r, vault |-> v])
  /\ Answered(reply, [revision |-> r, vault |-> v])
  /\ UNCHANGED <<account, lease, blocked, handles, committed, lastEpoch>>

\* Mutated form: the upsert forgets deleted_at IS NULL.
SavableOverTombstone(r) == account.status = "missing" \/ account.revision < r

\* save_account: without a lease, ordered by revision alone.
Savable(r) ==
  \/ account.status = "missing"
  \/ account.status = "active" /\ account.revision < r

SaveAccount(r, v, reply) ==
  /\ Savable(r)
  /\ account' = [status |-> "active", revision |-> r, vault |-> v]
  /\ committed' = [committed EXCEPT ![r] = v]
  /\ Answered(reply, [revision |-> r, vault |-> v])
  /\ UNCHANGED <<lease, evidence, blocked, handles, lastEpoch>>

\* Mutated form: any save the upsert did not take counts as a repeated one.
SavedAlreadyByRevision(r, v) == account.status = "active" /\ account.revision >= r

\* save_account changed nothing, and the stored vault decrypts to the bytes
\* sent.  The vault carries the revision of its row, so equal bytes are the
\* same record.
SavedAlready(r, v) ==
  /\ account.status = "active"
  /\ account.revision = r
  /\ account.vault = v

\* A save repeated after its answer was lost is acknowledged; any other that
\* is not Savable is an error.
ResaveAccount(r, v, reply) ==
  /\ SavedAlready(r, v)
  /\ Answered(reply, [revision |-> r, vault |-> v])
  /\ UNCHANGED <<account, lease, evidence, blocked, handles, committed, lastEpoch>>

\* clear_token_evidence needs no lease.
ClearTokenEvidence ==
  /\ evidence.active
  /\ evidence' = [evidence EXCEPT !.active = FALSE]
  /\ UNCHANGED <<account, lease, blocked, handles, committed, lastEpoch, acked>>

---------------------------------------------------------------------------
\* remove_account: the tombstone.  A foreign lease must have been released;
\* its expiry alone does not prove that the foreign refresh child stopped.
RemovableBy(h) ==
  /\ account.status = "active"
  /\ ~blocked
  /\ lease.released \/ lease.holder = h

RemoveAccount(h) ==
  /\ RemovableBy(h)
  /\ account.revision < MaxRevision
  /\ account' = [account EXCEPT !.status = "removed", !.revision = @ + 1]
  /\ lease' = IF lease.holder = h
              THEN [lease EXCEPT !.released = TRUE, !.live = FALSE]
              ELSE lease
  /\ UNCHANGED <<evidence, blocked, handles, committed, lastEpoch, acked>>

\* A login journal or a reset redemption starts or stops fencing the account.
SetBlocked ==
  /\ blocked' = ~blocked
  /\ UNCHANGED <<account, lease, evidence, handles, committed, lastEpoch, acked>>

Next ==
  \/ \E h \in Holders : AcquireLease(h)
  \/ Expire
  \/ \E l \in handles : ReleaseLease(l)
  \/ \E l \in handles, r \in Revisions \ {0}, v \in Vaults,
        obs \in Observations, reply \in BOOLEAN :
       \/ FencedWrite(l, r, v, obs, reply)
       \/ FencedRewrite(l, r, v, obs, reply)
  \/ \E r \in Revisions \ {0}, v \in Vaults, reply \in BOOLEAN :
       \/ SaveAccount(r, v, reply)
       \/ ResaveAccount(r, v, reply)
  \/ ClearTokenEvidence
  \/ \E h \in Holders : RemoveAccount(h)
  \/ SetBlocked

Spec == Init /\ [][Next]_vars

---------------------------------------------------------------------------
(* Parts of the inductive invariant. *)

\* Every grant in memory is some epoch of the row, and the row's own epoch
\* was granted to the row's holder.
GrantsOrdered ==
  /\ \A l \in handles : l.epoch <= lease.epoch
  /\ \A l \in handles : l.epoch = lease.epoch => l.holder = lease.holder
  /\ lastEpoch <= lease.epoch

\* A lease given back is never live again, under whatever late call.
ReleasedNotLive == lease.released => ~lease.live

\* Nothing was committed above the row's revision, and the row holds what was
\* committed at its revision.
RowCommitted ==
  /\ \A r \in Revisions : r > account.revision => committed[r] = NoVault
  /\ account.status = "active" => committed[account.revision] = account.vault
  /\ account.status = "missing" => acked = {} /\ account.revision = 0

(* The properties. *)

\* A removed account has no live refresh lease: a removal that finds the
\* caller's own lease ends it, and no later claim, renewal or publication
\* revives it.
RemovedUnleased == account.status = "removed" => ~lease.live

\* A publication the store answered with true was committed, with that
\* content, under that revision: also when the first answer was lost, the
\* lease changed hands and the same or another holder tried the revision.
AckedCommitted == \A s \in acked : committed[s.revision] = s.vault

\* Evidence describes a credential that was committed at its revision, and
\* billing columns were observed on that same credential.
EvidenceTruthful ==
  evidence.active =>
    /\ committed[evidence.routing.revision] = evidence.routing.vault
    /\ evidence.billing \in {NoSubject, evidence.routing}

\* The inductive invariant behind the theorems of CredentialOwnerProofs.
IInv == /\ TypeOK /\ GrantsOrdered /\ ReleasedNotLive /\ RowCommitted
        /\ RemovedUnleased /\ AckedCommitted /\ EvidenceTruthful
        /\ evidence.active => evidence.routing \in Subjects

\* Fencing: after a publication under one epoch, no publication under an
\* earlier epoch succeeds, whoever holds that older lease.
FencingOrder == [][lastEpoch' >= lastEpoch]_vars

\* A revision names one content of the row for ever: every change of the
\* credential, the tombstone included, moves the revision up, which is what
\* wait_for_holder and the evidence check compare.
RevisionNamesContent ==
  [][account' # account =>
       \/ account.status = "missing"
       \/ account'.revision > account.revision]_vars

\* The tombstone is final: no step changes the row of a removed account.
RemovedFinal == [][account.status = "removed" => account' = account]_vars
===========================================================================
