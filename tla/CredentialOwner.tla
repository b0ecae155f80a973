-------------------------- MODULE CredentialOwner --------------------------
(***************************************************************************)
(* One account's refresh owner on every replica, over the rows of          *)
(* LeaseStore: the token handler's lease path, the native refresh child,   *)
(* the deferred settlement of a child that did not stop in time, and the   *)
(* background recovery of a retryable owner                                *)
(* (src/src/central/managed/owner_request.rs, managed.rs, server.rs).      *)
(*                                                                         *)
(* A credential is the generation of its refresh token.  The provider      *)
(* accepts the current generation once and answers with the next; a child  *)
(* that presents an older one is rejected.                                 *)
(*                                                                         *)
(* Time is counted in renewal intervals of 30 s: a lease lasts TTL of them *)
(* and the local lease window gives up with Margin left.  Tick is one      *)
(* interval in which every renewal task fires once.  Two bounds of the     *)
(* code are taken as instantaneous against that interval: the database     *)
(* calls between a claim and the start of its window (2 s each), and the   *)
(* termination of a child once its window is lost (at most 6 s).           *)
(***************************************************************************)
EXTENDS LeaseStore

CONSTANTS
  Replicas,     \* the server processes
  TTL,          \* lease length in renewal intervals (120 s / 30 s)
  Margin,       \* safety margin in renewal intervals (30 s / 30 s)
  MaxBoots,     \* bound: restarts of a replica
  Scopes        \* bounds, of which a behaviour has one: whether background
                \* recovery runs, lease claims, restarts of a replica

ASSUME HoldersAreBoots == Holders = Replicas \X (0..MaxBoots)
ASSUME GenerationsAssumption ==
  Vaults \subseteq Nat \ {0} /\ 1 \in Vaults /\ NoVault = 0 /\ MaxRevision > 0
ASSUME ScopesAssumption == MaxBoots \in Nat /\
  \A s \in Scopes : s.recovery \in BOOLEAN /\ s.epochs \in Nat /\ s.boots \in 0..MaxBoots
ASSUME WindowAssumption == TTL \in Nat /\ Margin \in 1..(TTL - 1)

VARIABLES
  scope,      \* the bounds of this behaviour
  own,        \* the Owner of each replica
  op,         \* the lease operation each replica runs on its owner
  left,       \* intervals until the lease row expires
  reach,      \* whether each replica reaches the database
  boot,       \* restarts of each replica: the boot nonce of its holder id
  provider,   \* the refresh-token generation the provider accepts
  delivered,  \* history: generations whose access token was delivered
  forfeited   \* history: custody of a rotation was given up, never silently

localVars == <<own, op, left, reach, boot, provider, delivered, forfeited>>
allVars == <<scope, vars, localVars>>

Credential == [revision : Revisions, vault : Vaults]
Kinds == {"available", "retryable", "fenced"}
Results == {"none", "ok", "cached", "retryable", "rejected", "unsupported"}
Phases == {"idle", "down", "admitted", "leased", "native", "stopped", "published",
           "settling", "closing", "launching", "probing"}
Owners == [vault : Credential, journal : Vaults, child : Vaults \cup {NoVault},
           available : BOOLEAN, refused : BOOLEAN, retryable : BOOLEAN]
Ops == [pc : Phases, epoch : Epochs, before : Credential, window : 0..TTL,
        guarded : BOOLEAN, lost : BOOLEAN, kind : Kinds, result : Results]

CustodyTypeOK ==
  /\ scope \in Scopes
  /\ own \in [Replicas -> Owners]
  /\ op \in [Replicas -> Ops]
  /\ left \in 0..TTL
  /\ lease.live <=> left > 0
  /\ reach \in [Replicas -> BOOLEAN]
  /\ boot \in [Replicas -> 0..MaxBoots]
  /\ provider \in Vaults
  /\ delivered \subseteq Vaults
  /\ forfeited \in BOOLEAN

First == [revision |-> 1, vault |-> 1]
NoOp == [pc |-> "idle", epoch |-> 0, before |-> First, window |-> 0,
         guarded |-> FALSE, lost |-> FALSE, kind |-> "fenced", result |-> "none"]

\* An account imported once and hydrated by every replica.
CustodyInit ==
  /\ scope \in Scopes
  /\ account = [status |-> "active", revision |-> 1, vault |-> 1]
  /\ lease = [holder |-> NoHolder, epoch |-> 0, live |-> FALSE, released |-> TRUE]
  /\ evidence = [active |-> FALSE, routing |-> NoSubject, billing |-> NoSubject]
  /\ blocked = FALSE
  /\ handles = {}
  /\ committed = [r \in Revisions |-> IF r = 1 THEN 1 ELSE NoVault]
  /\ lastEpoch = 0
  /\ acked = {}
  /\ own = [h \in Replicas |->
              [vault |-> First, journal |-> 1, child |-> NoVault,
               available |-> TRUE, refused |-> FALSE, retryable |-> FALSE]]
  /\ op = [h \in Replicas |-> NoOp]
  /\ left = 0
  /\ reach = [h \in Replicas |-> TRUE]
  /\ boot = [h \in Replicas |-> 0]
  /\ provider = 1
  /\ delivered = {}
  /\ forfeited = FALSE

---------------------------------------------------------------------------
\* instance_holder_id: the host and a nonce of this boot.
Me(h) == <<h, boot[h]>>
MyLease(h) == [holder |-> Me(h), epoch |-> op[h].epoch]

Pc(h) == op[h].pc
Goto(h, pc) == op' = [op EXCEPT ![h].pc = pc]
Finish(h) == op' = [op EXCEPT ![h] = NoOp]
SetOwn(h, o) == own' = [own EXCEPT ![h] = o]

Selectable(o) == o.available /\ ~o.refused

\* fence_background_owner
Fenced(o) == [o EXCEPT !.available = FALSE, !.refused = TRUE]
\* Owner::fence
FencedFor(o, retryable) == [o EXCEPT !.available = FALSE, !.retryable = retryable]
\* stop_removed_owner: the child is killed and reaped
StoppedRemoved(o) == [Fenced(o) EXCEPT !.child = NoVault, !.retryable = FALSE]

\* reconcile_owner_from_central: a newer committed record replaces the vault
\* and the journal, and the old child, which may hold a spent token, stops.
Reconciled(o) ==
  IF account.revision > o.vault.revision
  THEN [o EXCEPT !.vault = [revision |-> account.revision, vault |-> account.vault],
                 !.journal = account.vault, !.child = NoVault]
  ELSE o

\* Mutated form: a changed credential keeps its revision.
SettledSameRevision(o, journal, before) ==
  [o EXCEPT !.child = NoVault, !.journal = journal, !.vault.vault = journal]

\* settled_owner_record and stopped_owner_record: the child is gone, the
\* journal is read back, and a credential that differs from the baseline gets
\* the revision after the baseline's.
Settled(o, journal, before) ==
  LET changed == journal # before.vault
      next == IF o.vault.revision > before.revision
              THEN o.vault.revision ELSE before.revision + 1
  IN  [o EXCEPT !.child = NoVault, !.journal = journal,
                !.vault = [revision |-> IF changed THEN next ELSE o.vault.revision,
                           vault |-> journal]]

\* A revision is left for a rotation (bound).
RevisionLeft(h) == own[h].vault.revision < MaxRevision /\ op[h].before.revision < MaxRevision

\* The rotation the provider made is nowhere in the database, and h is the
\* one that holds it: what giving up custody forfeits.
Uncommitted == \A r \in Revisions : committed[r] # provider
HoldsRotation(h) == provider \in {own[h].child, own[h].journal, own[h].vault.vault}
GivesUp(h) == forfeited' = (forfeited \/ (Uncommitted /\ HoldsRotation(h)))
KillForfeits(h) ==
  forfeited' = (forfeited \/ (own[h].child = provider /\ own[h].journal # provider))

\* Custody that has to be settled later (retain_lease).
KindOf(o) ==
  IF Selectable(o) THEN "available"
  ELSE IF o.retryable /\ ~o.refused THEN "retryable" ELSE "fenced"

Retain(h, o, kind) ==
  /\ op' = [op EXCEPT ![h].pc = "settling", ![h].kind = kind]
  /\ SetOwn(h, Fenced(o))

\* release_lease of the operation's lease: it may not land, nobody retries it.
Released(h, lands) ==
  IF lands /\ reach[h] /\ lease.holder = Me(h) /\ lease.epoch = op[h].epoch
  THEN ReleaseLease(MyLease(h)) /\ left' = 0
  ELSE UNCHANGED <<vars, left>>

---------------------------------------------------------------------------
(* The token handler's lease path. *)

\* Admission, the owner lock and the first reconciliation.  A request that
\* finds the owner fenced is refused after reconciling it; recovery drops the
\* lock while it waits to launch, so such a request may come then too.
TokenAdmit(h) ==
  /\ Pc(h) \in {"idle", "launching"}
  /\ reach[h]
  /\ account.status = "active"
  /\ SetOwn(h, Reconciled(own[h]))
  /\ IF own[h].available /\ Pc(h) = "idle" THEN Goto(h, "admitted") ELSE UNCHANGED op
  /\ UNCHANGED <<vars, left, reach, boot, provider, delivered, forfeited>>

TokenRemoved(h) ==
  /\ Pc(h) = "idle"
  /\ reach[h]
  /\ account.status = "removed"
  /\ SetOwn(h, StoppedRemoved(own[h]))
  /\ UNCHANGED <<vars, op, left, reach, boot, provider, delivered, forfeited>>

\* The claim.  An answer that does not arrive leaves a granted lease behind.
TokenAcquire(h, answered) ==
  /\ Pc(h) = "admitted"
  /\ reach[h]
  /\ lease.epoch < scope.epochs
  /\ AcquireLease(Me(h))
  /\ left' = TTL
  /\ op' = [op EXCEPT ![h] = IF answered
              THEN [NoOp EXCEPT !.pc = "leased", !.epoch = lease.epoch + 1]
              ELSE NoOp]
  /\ UNCHANGED <<own, reach, boot, provider, delivered, forfeited>>

\* Another holder's live lease, a removed account or a failed call.
TokenContended(h) ==
  /\ Pc(h) = "admitted"
  /\ Finish(h)
  /\ SetOwn(h, IF reach[h] /\ account.status = "removed"
               THEN StoppedRemoved(own[h]) ELSE own[h])
  /\ UNCHANGED <<vars, left, reach, boot, provider, delivered, forfeited>>

\* The second reconciliation, under the lease, then the baseline and the
\* window.  A failed read gives the lease back, which fails as well.
TokenBaseline(h) ==
  /\ Pc(h) = "leased"
  /\ reach[h]
  /\ SetOwn(h, Reconciled(own[h]))
  /\ op' = [op EXCEPT ![h].pc = "native", ![h].before = own'[h].vault,
                      ![h].window = TTL, ![h].guarded = TRUE]
  /\ UNCHANGED <<vars, left, reach, boot, provider, delivered, forfeited>>

TokenBaselineFails(h, lands) ==
  /\ Pc(h) = "leased"
  /\ Released(h, lands)
  /\ Finish(h)
  /\ UNCHANGED <<own, reach, boot, provider, delivered, forfeited>>

\* Another holder published while this request waited for its turn: the token
\* is served from the row, and the lease goes back without a child.
TokenServedUnderLease(h, lands) ==
  /\ Pc(h) = "leased"
  /\ reach[h]
  /\ account.status = "active"
  /\ evidence.active
  /\ evidence.routing = [revision |-> account.revision, vault |-> account.vault]
  /\ Released(h, lands)
  /\ SetOwn(h, Reconciled(own[h]))
  /\ delivered' = delivered \cup {account.vault}
  /\ Finish(h)
  /\ UNCHANGED <<reach, boot, provider, forfeited>>

\* ensure_refresh_owner: the child starts from the journal.
EnsureRefreshOwner(h) ==
  /\ Pc(h) = "native"
  /\ own[h].child = NoVault
  /\ Selectable(own[h])
  /\ reach[h]
  /\ ~op[h].lost
  /\ SetOwn(h, [own[h] EXCEPT !.child = own[h].journal])
  /\ UNCHANGED <<vars, op, left, reach, boot, provider, delivered, forfeited>>

\* No child, or one that does not initialize and may have rotated already.
EnsureRefreshOwnerFails(h) ==
  /\ Pc(h) = "native"
  /\ ~op[h].lost
  /\ Retain(h, own[h], KindOf(own[h]))
  /\ UNCHANGED <<vars, left, reach, boot, provider, delivered, forfeited>>

\* What a running child can report (NativeRead::tokens): a read, the cached
\* token after a failed one, an outage, a refused routing policy, or the refusal
\* of a spent grant.
Reported(h, result) ==
  \/ result \in {"ok", "cached", "retryable", "unsupported"}
  \/ result = "rejected" /\ own[h].child < provider
Delivers(result) == result \in {"ok", "cached"}

AfterResult(o, result) ==
  CASE result = "retryable" -> FencedFor(o, TRUE)
    [] result = "rejected" -> FencedFor(o, FALSE)
    [] result = "unsupported" -> [o EXCEPT !.refused = TRUE]
    [] OTHER -> o

\* A read that observed nothing withdraws the evidence, if the database answers.
WithdrawEvidence(h, result) ==
  IF result # "ok" /\ reach[h]
  THEN evidence' = [evidence EXCEPT !.active = FALSE] ELSE UNCHANGED evidence

\* The read completes and the child stops within the foreground deadline.
NativeSettles(h, result) ==
  /\ Pc(h) = "native"
  /\ own[h].child # NoVault
  /\ ~op[h].lost
  /\ Reported(h, result)
  /\ SetOwn(h, Settled(AfterResult(own[h], result), own[h].child, op[h].before))
  /\ op' = [op EXCEPT ![h].pc = "stopped", ![h].result = result]
  /\ WithdrawEvidence(h, result)
  /\ UNCHANGED <<account, lease, blocked, handles, committed, lastEpoch, acked>>
  /\ UNCHANGED <<left, reach, boot, provider, delivered, forfeited>>

\* The child does not stop in time: the lease and the child are retained.
NativeHangs(h, result) ==
  /\ Pc(h) = "native"
  /\ own[h].child # NoVault
  /\ ~op[h].lost
  /\ Reported(h, result)
  /\ Retain(h, AfterResult(own[h], result), KindOf(AfterResult(own[h], result)))
  /\ WithdrawEvidence(h, result)
  /\ UNCHANGED <<account, lease, blocked, handles, committed, lastEpoch, acked>>
  /\ UNCHANGED <<left, reach, boot, provider, delivered, forfeited>>

\* fenced_write_with_evidence under the operation's own lease.
Publishes(h, reply) ==
  LET c == own[h].vault
      obs == IF op[h].result = "ok" THEN "routing" ELSE "none"
  IN  \/ FencedWrite(MyLease(h), c.revision, c.vault, obs, reply)
      \/ FencedRewrite(MyLease(h), c.revision, c.vault, obs, reply)

PublishRefused(h) ==
  LET c == own[h].vault
  IN  /\ ~PublishableUnder(MyLease(h), c.revision)
      /\ ~UnchangedUnder(MyLease(h), c.revision, c.vault)

TokenPublish(h) ==
  /\ Pc(h) = "stopped"
  /\ ~op[h].lost
  /\ reach[h]
  /\ Publishes(h, TRUE)
  /\ Goto(h, "published")
  /\ UNCHANGED <<own, left, reach, boot, provider, delivered, forfeited>>

\* Mutated form: the token goes out although the write had no answer.
TokenDeferredDelivers(h, lands) ==
  /\ Pc(h) = "stopped"
  /\ IF lands THEN reach[h] /\ Publishes(h, FALSE) ELSE UNCHANGED vars
  /\ Goto(h, "published")
  /\ UNCHANGED <<own, left, reach, boot, provider, delivered, forfeited>>

\* No answer after three attempts: committed or not, custody is retained.
TokenPublishDeferred(h, lands) ==
  /\ Pc(h) = "stopped"
  /\ IF lands THEN reach[h] /\ Publishes(h, FALSE) ELSE UNCHANGED vars
  /\ Retain(h, own[h], KindOf(own[h]))
  /\ UNCHANGED <<left, reach, boot, provider, delivered, forfeited>>

\* A definite refusal: a hard fence, unless the account was removed.
TokenPublishRefused(h) ==
  /\ Pc(h) = "stopped"
  /\ reach[h]
  /\ PublishRefused(h)
  /\ IF account.status = "removed"
     THEN /\ SetOwn(h, StoppedRemoved(own[h]))
          /\ op' = [op EXCEPT ![h].pc = "published", ![h].result = "none"]
     ELSE Retain(h, own[h], "fenced")
  /\ UNCHANGED <<vars, left, reach, boot, provider, delivered, forfeited>>

\* Success or a settled failure: the lease goes back, then the token goes out.
TokenDeliver(h, lands) ==
  /\ Pc(h) = "published"
  /\ Released(h, lands)
  /\ delivered' = IF Delivers(op[h].result)
                  THEN delivered \cup {own[h].vault.vault} ELSE delivered
  /\ SetOwn(h, IF op[h].lost THEN Fenced(own[h])
               ELSE IF Delivers(op[h].result) THEN [own[h] EXCEPT !.retryable = FALSE]
               ELSE own[h])
  /\ Finish(h)
  /\ UNCHANGED <<reach, boot, provider, forfeited>>

\* Mutated form: only the request watches the window, settlement does not.
LoseCustodyInRequest(h) ==
  /\ Pc(h) \in {"native", "stopped"}
  /\ op[h].guarded
  /\ op[h].lost
  /\ SetOwn(h, [Fenced(own[h]) EXCEPT !.child = NoVault])
  /\ Finish(h)
  /\ GivesUp(h)
  /\ UNCHANGED <<vars, left, reach, boot, provider, delivered>>

\* terminate_lost_import and abandon_background_recovery: the lease window is
\* over.  The child is terminated first; the lease is not given back, and the
\* journal, perhaps ahead of the database, stays behind on a fenced owner.
LoseCustody(h) ==
  /\ Pc(h) \in {"native", "stopped", "settling"}
  /\ op[h].guarded
  /\ op[h].lost
  /\ SetOwn(h, [Fenced(own[h]) EXCEPT !.child = NoVault])
  /\ Finish(h)
  /\ GivesUp(h)
  /\ UNCHANGED <<vars, left, reach, boot, provider, delivered>>


---------------------------------------------------------------------------
(* The refresh child and the provider. *)

\* The child presents its refresh token: only the current one rotates.
ChildRefresh(h) ==
  /\ own[h].child = provider
  /\ provider + 1 \in Vaults
  /\ RevisionLeft(h)
  /\ provider' = provider + 1
  /\ SetOwn(h, [own[h] EXCEPT !.child = provider + 1])
  /\ UNCHANGED <<vars, op, left, reach, boot, delivered, forfeited>>

\* The child saves what it holds to its auth.json, the journal.
ChildJournal(h) ==
  /\ own[h].child \notin {NoVault, own[h].journal}
  /\ SetOwn(h, [own[h] EXCEPT !.journal = own[h].child])
  /\ UNCHANGED <<vars, op, left, reach, boot, provider, delivered, forfeited>>

---------------------------------------------------------------------------
(* settle_background_recovery. *)

Settling(h) == Pc(h) = "settling" /\ ~(op[h].guarded /\ op[h].lost)

\* The child stops after its last write, within one of three attempts.
SettleStop(h) ==
  /\ Settling(h)
  /\ own[h].child # NoVault
  /\ SetOwn(h, [own[h] EXCEPT !.child = NoVault, !.journal = own[h].child])
  /\ UNCHANGED <<vars, op, left, reach, boot, provider, delivered, forfeited>>

\* After three failed attempts it is killed: what it had not journaled is gone.
SettleKill(h) ==
  /\ Settling(h)
  /\ own[h].child # NoVault
  /\ SetOwn(h, [own[h] EXCEPT !.child = NoVault])
  /\ KillForfeits(h)
  /\ UNCHANGED <<vars, op, left, reach, boot, provider, delivered>>

\* Every later round records the stopped owner again, renews and writes.
Recorded(h) == Settled(own[h], own[h].journal, op[h].before)
SettleRounds(h) ==
  /\ Settling(h)
  /\ own[h].child = NoVault
  /\ reach[h]
  /\ Recorded(h).vault.revision <= MaxRevision
SettleRefused(h) == LET c == Recorded(h).vault IN
  /\ ~PublishableUnder(MyLease(h), c.revision)
  /\ ~UnchangedUnder(MyLease(h), c.revision, c.vault)

\* renew, then fenced_write without an observation.  Without the answer the
\* loop tries again; the renewal does not move the local window.
SettlePublish(h, reply) ==
  LET c == Recorded(h).vault IN
  /\ SettleRounds(h)
  /\ Renewable(MyLease(h))
  /\ \/ FencedWrite(MyLease(h), c.revision, c.vault, "none", reply)
     \/ FencedRewrite(MyLease(h), c.revision, c.vault, "none", reply)
  /\ left' = TTL
  /\ SetOwn(h, Recorded(h))
  /\ IF reply THEN Goto(h, "closing") ELSE UNCHANGED op
  /\ UNCHANGED <<reach, boot, provider, delivered, forfeited>>

\* The write is refused: the lease goes back and the owner stays fenced.
SettleRejected(h, lands) ==
  /\ SettleRounds(h)
  /\ Renewable(MyLease(h))
  /\ SettleRefused(h)
  /\ IF lands THEN ReleaseLease(MyLease(h)) /\ left' = 0
     ELSE UNCHANGED vars /\ left' = TTL
  /\ SetOwn(h, Fenced(Recorded(h)))
  /\ Finish(h)
  /\ UNCHANGED <<reach, boot, provider, delivered, forfeited>>

\* Mutated form: the outcome reopens the owner before it is durable.
UnrenewableReopens(h) ==
  /\ SettleRounds(h)
  /\ account.status # "removed"
  /\ ~Renewable(MyLease(h))
  /\ SetOwn(h, [Recorded(h) EXCEPT !.available = TRUE, !.refused = FALSE])
  /\ Finish(h)
  /\ UNCHANGED <<vars, left, reach, boot, provider, delivered, forfeited>>

\* Mutated form: a lease that is gone is taken for a renewal without an answer.
UnrenewableRetries(h) ==
  /\ SettleRounds(h)
  /\ ~Renewable(MyLease(h))
  /\ UNCHANGED <<vars, localVars>>

\* The lease is gone: stop for good, and give nothing back.
SettleUnrenewable(h) ==
  /\ SettleRounds(h)
  /\ account.status # "removed"
  /\ ~Renewable(MyLease(h))
  /\ SetOwn(h, Fenced(Recorded(h)))
  /\ Finish(h)
  /\ UNCHANGED <<vars, left, reach, boot, provider, delivered, forfeited>>

\* stop_if_removed: a positively stopped child releases custody.
SettleRemoved(h, lands) ==
  /\ Settling(h)
  /\ reach[h]
  /\ account.status = "removed"
  /\ Released(h, lands)
  /\ SetOwn(h, StoppedRemoved(own[h]))
  /\ Finish(h)
  /\ UNCHANGED <<reach, boot, provider, delivered, forfeited>>

\* Durable: release, then reopen as the retained outcome says.
Reopened(o, kind) ==
  CASE kind = "available" -> [o EXCEPT !.available = TRUE, !.refused = FALSE,
                                       !.retryable = FALSE]
    [] kind = "retryable" -> [o EXCEPT !.refused = FALSE]
    [] OTHER -> o

SettleClose(h, lands) ==
  /\ Pc(h) = "closing"
  /\ Released(h, lands)
  /\ SetOwn(h, Reopened(own[h], op[h].kind))
  /\ Finish(h)
  /\ UNCHANGED <<reach, boot, provider, delivered, forfeited>>

---------------------------------------------------------------------------
(* recover_owners: background and on-demand recovery of a retryable owner. *)

Recoverable(o) == ~o.available /\ o.retryable /\ ~o.refused

\* The claim, the reconciliation under it, the baseline, and the old child's
\* end; then the locks are dropped to wait for imports -> Owner order.
RecoverAcquire(h, answered) ==
  /\ scope.recovery
  /\ Pc(h) = "idle"
  /\ Recoverable(own[h])
  /\ reach[h]
  /\ lease.epoch < scope.epochs
  /\ AcquireLease(Me(h))
  /\ left' = TTL
  /\ IF answered
     THEN /\ SetOwn(h, [Reconciled(own[h]) EXCEPT !.child = NoVault])
          /\ op' = [op EXCEPT ![h] = [NoOp EXCEPT !.pc = "launching",
                       !.epoch = lease.epoch + 1, !.before = own'[h].vault]]
     ELSE UNCHANGED <<own, op>>
  /\ UNCHANGED <<reach, boot, provider, delivered, forfeited>>

\* With both locks held again: the owner must still be recoverable and not
\* removed.  The lease is not looked at again.
RecoverLaunch(h) ==
  /\ Pc(h) = "launching"
  /\ reach[h]
  /\ account.status # "removed"
  /\ Recoverable(own[h])
  /\ SetOwn(h, [own[h] EXCEPT !.child = own[h].journal, !.available = TRUE])
  /\ Goto(h, "probing")
  /\ UNCHANGED <<vars, left, reach, boot, provider, delivered, forfeited>>

\* No clearance for the identity (refused for good), no process, or a child
\* that does not initialize.
RecoverLaunchFails(h, refused, child) ==
  /\ Pc(h) = "launching"
  /\ reach[h]
  /\ account.status # "removed"
  /\ Recoverable(own[h])
  /\ refused => child = NoVault
  /\ Retain(h, [own[h] EXCEPT !.child = child],
            IF refused THEN "fenced" ELSE "retryable")
  /\ UNCHANGED <<vars, left, reach, boot, provider, delivered, forfeited>>

RecoverAbort(h, lands) ==
  /\ Pc(h) = "launching"
  /\ ~reach[h] \/ account.status = "removed" \/ ~Recoverable(own[h])
  /\ Released(h, lands)
  /\ SetOwn(h, IF reach[h] /\ account.status = "removed"
               THEN StoppedRemoved(own[h]) ELSE own[h])
  /\ Finish(h)
  /\ UNCHANGED <<reach, boot, provider, delivered, forfeited>>

\* The probe on the new child, then the same settlement as a request's, on
\* the retained lease but without a local window.
RecoverProbe(h, result) ==
  LET o == AfterResult(own[h], result)
      changed == o.journal # op[h].before.vault
      revision == IF changed THEN op[h].before.revision + 1 ELSE o.vault.revision
  IN  /\ Pc(h) = "probing"
      /\ Reported(h, result)
      /\ revision <= MaxRevision
      /\ Retain(h, [o EXCEPT !.vault = [revision |-> revision, vault |-> o.journal]],
                CASE Delivers(result) -> "available"
                  [] result = "retryable" -> "retryable"
                  [] OTHER -> "fenced")
      /\ UNCHANGED <<vars, left, reach, boot, provider, delivered, forfeited>>

---------------------------------------------------------------------------
(* Time, the network, restarts and removal. *)

Renewing(h) == Pc(h) \in {"native", "stopped", "published", "settling",
                          "closing", "launching", "probing"}

\* Mutated form: the window is given up only when the lease has run out.
WindowOverAtExpiry(window) == window = 0

\* The renewal task stops renewing with the safety margin still left.
WindowOver(window) == window <= Margin

\* One renewal interval.  A renewal that fails leaves the local deadline; one
\* that is refused ends the window.
Renewed(h, renewed) ==
  IF ~(Renewing(h) /\ op[h].guarded) THEN op[h]
  ELSE IF h \in renewed THEN [op[h] EXCEPT !.window = TTL]
  ELSE IF reach[h] THEN [op[h] EXCEPT !.lost = TRUE]
  ELSE LET w == IF op[h].window = 0 THEN 0 ELSE op[h].window - 1
       IN  [op[h] EXCEPT !.window = w, !.lost = @ \/ WindowOver(w)]

\* What takes far less than an interval comes first: ending a child whose
\* window is lost, the calls before a window opens, and the bounded life of a
\* recovery child (probe and three attempts to stop it, 40 s of 120 s).
Urgent(h) ==
  \/ op[h].lost /\ Pc(h) \in {"native", "stopped", "settling"}
  \/ Pc(h) = "leased"
  \/ own[h].child # NoVault /\ ~op[h].guarded

Tick ==
  LET renewed == {h \in Replicas : Renewing(h) /\ reach[h] /\ Renewable(MyLease(h))}
  IN  /\ left > 0 \/ \E h \in Replicas : Renewing(h) /\ op[h].guarded
      /\ \A h \in Replicas : ~Urgent(h)
      /\ left' = IF renewed # {} THEN TTL ELSE IF left = 0 THEN 0 ELSE left - 1
      /\ IF left > 0 /\ left' = 0 THEN Expire ELSE UNCHANGED vars
      /\ op' = [h \in Replicas |-> Renewed(h, renewed)]
      /\ UNCHANGED <<own, reach, boot, provider, delivered, forfeited>>

Partition(h) ==
  /\ reach' = [reach EXCEPT ![h] = ~@]
  /\ UNCHANGED <<vars, own, op, left, boot, provider, delivered, forfeited>>

\* The process dies and its child with it; its lease runs on.
Crash(h) ==
  /\ boot[h] < scope.boots
  /\ boot' = [boot EXCEPT ![h] = @ + 1]
  /\ op' = [op EXCEPT ![h] = [NoOp EXCEPT !.pc = "down"]]
  /\ SetOwn(h, [Fenced(own[h]) EXCEPT !.child = NoVault, !.retryable = FALSE])
  /\ GivesUp(h)
  /\ UNCHANGED <<vars, left, reach, provider, delivered>>

\* hydrate_accounts takes a newer committed vault.  prepare_owner then orders
\* vault and journal: a newer journal is adopted, its revision unchanged; an
\* older one is overwritten.
Booted(o) ==
  LET newer == account.revision > o.vault.revision
      vault == IF newer THEN [revision |-> account.revision, vault |-> account.vault]
               ELSE o.vault
      credential == IF o.journal > vault.vault THEN o.journal ELSE vault.vault
  IN  [o EXCEPT !.vault = [vault EXCEPT !.vault = credential],
                !.journal = credential, !.available = TRUE, !.refused = FALSE]

Boot(h) ==
  /\ Pc(h) = "down"
  /\ reach[h]
  /\ SetOwn(h, IF account.status = "active" THEN Booted(own[h]) ELSE own[h])
  /\ Finish(h)
  /\ UNCHANGED <<vars, left, reach, boot, provider, delivered, forfeited>>

\* removal.rs run: the local child is stopped and reaped first, then the
\* tombstone commits; a commit that fails puts the owner's flags back.
RemoveHere(h, commits) ==
  LET stopped == [own[h] EXCEPT !.child = NoVault,
                    !.vault.vault = IF own[h].child = NoVault THEN @ ELSE own[h].journal]
  IN  /\ Pc(h) \in {"idle", "settling", "launching"}
      /\ reach[h]
      /\ RemovableBy(Me(h))
      /\ IF commits
         THEN /\ RemoveAccount(Me(h))
              /\ left' = IF lease'.live THEN left ELSE 0
              /\ SetOwn(h, StoppedRemoved(stopped))
         ELSE UNCHANGED <<vars, left>> /\ SetOwn(h, stopped)
      /\ KillForfeits(h)
      /\ UNCHANGED <<op, reach, boot, provider, delivered>>

---------------------------------------------------------------------------
\* The steps a live process takes by itself once an operation has begun, by its phase.
Progress(h) ==
  \/ /\ Pc(h) \in {"admitted", "leased"}
     /\ \/ \E lands \in BOOLEAN : TokenBaselineFails(h, lands) \/ TokenServedUnderLease(h, lands)
        \/ TokenContended(h)
        \/ TokenBaseline(h)
  \/ /\ Pc(h) = "native"
     /\ \/ EnsureRefreshOwner(h)
        \/ EnsureRefreshOwnerFails(h)
        \/ \E result \in Results : NativeSettles(h, result) \/ NativeHangs(h, result)
  \/ /\ Pc(h) \in {"stopped", "published"}
     /\ \/ TokenPublish(h)
        \/ \E lands \in BOOLEAN : TokenPublishDeferred(h, lands)
        \/ TokenPublishRefused(h)
        \/ \E lands \in BOOLEAN : TokenDeliver(h, lands)
  \/ LoseCustody(h)
  \/ Pc(h) = "settling" /\ (SettleStop(h) \/ SettleKill(h))
  \/ \E lands \in BOOLEAN : SettleClose(h, lands)
  \/ /\ Pc(h) = "launching"
     /\ \/ RecoverLaunch(h)
        \/ \E refused \in BOOLEAN, child \in {NoVault, own[h].journal} :
             RecoverLaunchFails(h, refused, child)
        \/ \E lands \in BOOLEAN : RecoverAbort(h, lands)
  \/ Pc(h) = "probing" /\ \E result \in Results : RecoverProbe(h, result)

\* One answered round of the settlement loop's database calls.
SettleRound(h) ==
  /\ Pc(h) = "settling"
  /\ \/ SettlePublish(h, TRUE)
     \/ \E lands \in BOOLEAN : SettleRejected(h, lands)
     \/ SettleUnrenewable(h)
     \/ \E lands \in BOOLEAN : SettleRemoved(h, lands)

ReplicaStep(h) ==
  \/ TokenAdmit(h)
  \/ TokenRemoved(h)
  \/ \E answered \in BOOLEAN : TokenAcquire(h, answered) \/ RecoverAcquire(h, answered)
  \/ ChildRefresh(h)
  \/ ChildJournal(h)
  \/ SettlePublish(h, FALSE)
  \/ Partition(h)
  \/ Crash(h)
  \/ Boot(h)
  \/ \E commits \in BOOLEAN : RemoveHere(h, commits)

CNext ==
  /\ \/ \E h \in Replicas : Progress(h) \/ SettleRound(h) \/ ReplicaStep(h)
     \/ Tick
  /\ UNCHANGED scope

CSpec == CustodyInit /\ [][CNext]_allVars

\* Fairness: every operation of a live process is bounded by a deadline or a
\* retry loop of its own; the settlement loop retries each second; time passes.
Fairness ==
  /\ \A h \in Replicas : /\ WF_allVars(Progress(h) /\ UNCHANGED scope)
                         /\ SF_allVars(SettleRound(h) /\ UNCHANGED scope)
  /\ WF_allVars(Tick /\ UNCHANGED scope)

FairSpec == CSpec /\ Fairness

---------------------------------------------------------------------------
(* The properties. *)

\* Only the holder of the lease and its fencing epoch runs a refresh child.
ChildHoldsLease ==
  \A h \in Replicas : own[h].child # NoVault => LeaseValid(MyLease(h))

\* So without background recovery, which checks its lease only at its claim.
RequestHoldsLease == ~scope.recovery => ChildHoldsLease

\* The current refresh token is never silently lost: it is committed, or a
\* live operation holds it and its lease, or custody was visibly given up (a
\* crash, a lost window, a killed child), or the account was removed.  Said
\* of requests: a recovery settles on a lease it does not watch.
RotationHeld ==
  \/ scope.recovery
  \/ ~Uncommitted
  \/ forfeited
  \/ account.status = "removed"
  \/ \E h \in Replicas :
       /\ HoldsRotation(h)
       /\ Pc(h) \in {"native", "stopped", "settling", "probing"}
       /\ LeaseValid(MyLease(h))

\* A token goes out only for a credential the database has: whichever replica
\* serves next can serve at least that generation.
DeliveredCommitted ==
  \A g \in delivered : \E r \in Revisions : committed[r] = g

\* An owner open for requests with no operation under way holds a credential
\* that was committed under its revision, unless a crash forfeited a rotation.
ReopenedDurable ==
  \A h \in Replicas :
    Selectable(own[h]) /\ Pc(h) = "idle" /\ ~forfeited =>
      committed[own[h].vault.revision] = own[h].vault.vault

Over(h) == Pc(h) \in {"idle", "down"}

\* A settlement that background recovery left behind: it has no window of its own.
RecoverySettles(h) == Pc(h) = "settling" /\ ~op[h].guarded

\* Every operation of a token request ends, whatever fails and for however long: the owner
\* is reopened, fenced or given up, and a permit of the work pool comes back.  A recovery's
\* settlement has no window to lose: it ends if its replica reaches the database again and
\* again, and may last as long as a partition does.
OperationEnds ==
  \A h \in Replicas :
    /\ ~Over(h) ~> Over(h) \/ RecoverySettles(h)
    /\ []<>reach[h] => (~Over(h) ~> Over(h))

---------------------------------------------------------------------------
(* Parts of the inductive invariant. *)

Known(g) == \E r \in Revisions : committed[r] = g

\* The newest generation a replica has.
Top(h) == IF own[h].child # NoVault THEN own[h].child ELSE own[h].journal

\* The account was imported, and a replica's generations are the provider's earlier ones.
Imported == account.status # "missing" /\ account.vault \in Vaults /\ account.revision > 0
Ordered(h) ==
  /\ own[h].vault.vault <= own[h].journal /\ own[h].journal <= Top(h) /\ Top(h) <= provider
Generations ==
  /\ \A r \in Revisions : committed[r] # NoVault => committed[r] <= provider
  /\ \A h \in Replicas : Ordered(h)

\* A child runs in three phases, an operation holds a lease it was granted, and only
\* recovery works without a window of its own.
Placed(h) ==
  /\ own[h].child # NoVault => Pc(h) \in {"native", "settling", "probing"}
  /\ Pc(h) \notin {"idle", "down", "admitted"} => MyLease(h) \in handles
  /\ Pc(h) \in {"native", "stopped"} => op[h].guarded
  /\ Pc(h) \in {"launching", "probing"} => ~op[h].guarded /\ scope.recovery
  /\ Pc(h) = "settling" => op[h].guarded \/ scope.recovery

\* While a request's operation runs, the lease outlasts the window; only an account removed
\* by the replica itself, its child stopped, has none.
Watched(h) ==
  /\ Pc(h) = "leased" => LeaseValid(MyLease(h)) /\ left = TTL
  /\ Pc(h) \in {"native", "stopped", "settling"} /\ op[h].guarded =>
       \/ /\ LeaseValid(MyLease(h)) /\ op[h].window <= left
          /\ ~op[h].lost => op[h].window > Margin
       \/ Pc(h) = "settling" /\ own[h].child = NoVault /\ account.status = "removed"

\* The credential and the journal of an owner that may work agree; a child that rotated
\* leaves a revision for it.
Usable(o) == o.available \/ Recoverable(o)
Agreeing(h) ==
  /\ Pc(h) \in {"admitted", "leased"} => own[h].available
  /\ Pc(h) = "down" => ~Usable(own[h])
  /\ Pc(h) \in {"idle", "admitted", "leased", "launching"} /\ Usable(own[h]) =>
       own[h].journal = own[h].vault.vault
  /\ Pc(h) = "native" =>
       /\ own[h].vault = op[h].before
       /\ Top(h) # op[h].before.vault => op[h].before.revision < MaxRevision
  /\ Pc(h) \in {"stopped", "published", "closing"} => own[h].journal = own[h].vault.vault

\* What was published, or may be worked with, is committed.
Clean(c) == committed[c.revision] = c.vault
Published(h) ==
  \/ Pc(h) = "closing"
  \/ Pc(h) = "published" /\ (op[h].result # "none" \/ Usable(own[h]))
PublishedClean ==
  \A h \in Replicas : Published(h) => Clean(own[h].vault)
WorkingClean ==
  ~forfeited => \A h \in Replicas :
    /\ Pc(h) \in {"idle", "admitted", "leased", "launching"} /\ Usable(own[h]) =>
         Clean(own[h].vault)
    /\ Pc(h) \in {"native", "stopped", "settling", "launching", "probing"} => Clean(op[h].before)

\* A revision names a later generation than those before it.
RevisionsOrdered ==
  \A q, r \in Revisions : q < r /\ committed[q] # NoVault /\ committed[r] # NoVault =>
    committed[q] < committed[r]

\* A generation nobody committed is the provider's newest, or one on the way to it, on one
\* replica.
OneRotation ==
  /\ \A h \in Replicas :
       ~(Known(own[h].vault.vault) /\ Known(own[h].journal) /\ Known(Top(h))) =>
         Uncommitted /\ Top(h) = provider
  /\ Uncommitted => \A g, h \in Replicas : Top(g) = provider /\ Top(h) = provider => g = h

\* What is behind a newer generation is committed under the revision it is held with,
\* unless the row has moved on.
Tracked(h) ==
  /\ Top(h) # own[h].journal => ~Known(Top(h))
  /\ own[h].journal # own[h].vault.vault => ~Known(own[h].journal)
  /\ Known(own[h].vault.vault) /\ own[h].vault.revision >= account.revision =>
       Clean(own[h].vault)
  /\ Pc(h) \in {"native", "stopped", "settling", "launching", "probing"} =>
       /\ own[h].vault.revision >= op[h].before.revision
       /\ own[h].journal >= op[h].before.vault
  /\ Pc(h) = "down" => Known(own[h].journal)

\* A rotation that is not committed is held by an operation under its lease, and nothing
\* newer than its baseline is on record.
Held ==
  ~scope.recovery =>
    /\ Uncommitted => \E h \in Replicas :
         Top(h) = provider /\ Pc(h) \in {"native", "stopped", "settling"}
    /\ \A h \in Replicas : Pc(h) \in {"native", "stopped", "settling"} =>
         \/ account.revision <= op[h].before.revision
         \/ Pc(h) # "native" /\ own[h].child = NoVault /\ Known(own[h].journal)

\* Types, and what the place of an operation says of its replica.
Typed ==
  /\ IInv /\ CustodyTypeOK /\ Imported
  /\ \A h \in Replicas : Placed(h) /\ Agreeing(h)
\* Custody as a whole: what an owner may work with is committed and one rotation at a time
\* is on its way, under a lease that outlasts the window, as long as no custody was given up.
CustodyIInv ==
  /\ Typed /\ Generations
  /\ \A h \in Replicas : Watched(h)
  /\ PublishedClean /\ WorkingClean /\ DeliveredCommitted
  /\ ~forfeited /\ account.status = "active" =>
       /\ RevisionsOrdered /\ OneRotation /\ Held
       /\ \A h \in Replicas : Tracked(h)
=============================================================================
