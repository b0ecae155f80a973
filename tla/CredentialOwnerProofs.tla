----------------------- MODULE CredentialOwnerProofs -----------------------
(***************************************************************************)
(* Theorems about LeaseStore and about CredentialOwner, which builds on    *)
(* its rows, for every set of replicas and credentials and every bound.    *)
(*                                                                         *)
(* First the store: IInv is inductive, and each property follows from it   *)
(* and one step.  Then the owners: the store's steps are described by what *)
(* they do to the lease and the account; then come the types and the place *)
(* of an operation (Typed), and then the windows: a window starts with the *)
(* lease and never gains on it, a renewal sets both back, so an operation  *)
(* gives up before its lease runs out (Watched).  The last part is about   *)
(* what is committed.                                                      *)
(***************************************************************************)
EXTENDS CredentialOwner, TLAPS

(* The store. *)

USE HoldersAssumption, VaultsAssumption, BoundsAssumption

\* The initial rows satisfy the invariant.
LEMMA InitIInv == Init => IInv
<1>1. SUFFICES ASSUME Init PROVE IInv
  OBVIOUS
<1>2. 0 \in Revisions /\ 0 \in Epochs
  BY DEF Revisions, Epochs
<1>3. TypeOK
  BY <1>1, <1>2 DEF Init, TypeOK, Accounts, LeaseRows, EvidenceRows, Statuses,
     NoSubject, Subjects, Leases
<1>4. GrantsOrdered /\ ReleasedNotLive /\ RowCommitted
  BY <1>1 DEF Init, GrantsOrdered, ReleasedNotLive, RowCommitted
<1>5. RemovedUnleased /\ AckedCommitted /\ EvidenceTruthful
  BY <1>1 DEF Init, RemovedUnleased, AckedCommitted, EvidenceTruthful
<1>6. ~evidence.active
  BY <1>1 DEF Init
<1> QED
  BY <1>3, <1>4, <1>5, <1>6 DEF IInv

\* A fresh grant keeps the invariant: its epoch is above every other.
LEMMA AcquireIInv ==
  ASSUME IInv, NEW h \in Holders, AcquireLease(h) PROVE IInv'
<1> USE DEF AcquireLease
<1>1. lease.epoch + 1 \in Epochs /\ lease.epoch \in Int
  BY DEF IInv, TypeOK, LeaseRows, Epochs
<1>2. TypeOK'
  BY <1>1 DEF IInv, TypeOK, LeaseRows, Leases
<1>3. \A l \in handles : l.epoch < lease.epoch + 1
  BY <1>1 DEF IInv, TypeOK, GrantsOrdered, Leases, Epochs
<1>4. lastEpoch < lease.epoch + 1
  BY <1>1 DEF IInv, TypeOK, GrantsOrdered, Epochs
<1>5. GrantsOrdered'
  BY <1>1, <1>3, <1>4 DEF IInv, TypeOK, GrantsOrdered, Leases, Epochs
<1>6. ReleasedNotLive' /\ RemovedUnleased'
  BY DEF ReleasedNotLive, RemovedUnleased
<1>7. /\ RowCommitted' /\ AckedCommitted' /\ EvidenceTruthful'
      /\ (evidence.active => evidence.routing \in Subjects)'
  BY DEF IInv, RowCommitted, AckedCommitted, EvidenceTruthful
<1> QED
  BY <1>2, <1>5, <1>6, <1>7 DEF IInv

\* Expiry and release only turn a lease off.
LEMMA LapseIInv ==
  ASSUME IInv, Expire \/ \E l \in handles : ReleaseLease(l) PROVE IInv'
<1> USE DEF Expire, ReleaseLease
<1>1. /\ lease' \in LeaseRows /\ lease'.epoch = lease.epoch
      /\ lease'.holder = lease.holder /\ ~lease'.live
  BY DEF IInv, TypeOK, LeaseRows
<1>2. TypeOK' /\ GrantsOrdered'
  BY <1>1 DEF IInv, TypeOK, GrantsOrdered
<1>3. ReleasedNotLive' /\ RemovedUnleased'
  BY <1>1 DEF ReleasedNotLive, RemovedUnleased
<1>4. /\ RowCommitted' /\ AckedCommitted' /\ EvidenceTruthful'
      /\ (evidence.active => evidence.routing \in Subjects)'
  BY DEF IInv, RowCommitted, AckedCommitted, EvidenceTruthful
<1> QED
  BY <1>2, <1>3, <1>4 DEF IInv

\* A recorded observation is about the subject it is recorded for.
LEMMA ObserveEvidence ==
  ASSUME IInv, NEW s \in Subjects, NEW obs \in Observations, Observe(obs, s)
  PROVE  /\ evidence' \in EvidenceRows
         /\ \/ evidence' = evidence
            \/ /\ evidence'.routing = s
               /\ evidence'.billing \in {NoSubject, s}
<1>1. CASE obs = "none"
  BY <1>1 DEF Observe, IInv, TypeOK
<1>2. CASE obs # "none"
  <2>1. RecordObservation(s, obs = "billing")
    BY <1>2 DEF Observe
  <2>2. KeptBilling(s) \in {NoSubject, s}
    BY DEF KeptBilling, IInv, EvidenceTruthful
  <2>3. evidence' = [active |-> TRUE, routing |-> s,
                     billing |-> IF obs = "billing" THEN s ELSE KeptBilling(s)]
    BY <2>1 DEF RecordObservation
  <2> QED
    BY <2>2, <2>3 DEF EvidenceRows
<1> QED
  BY <1>1, <1>2

\* Writing a revision above the row's, in any way that answers for that
\* content alone, keeps the history consistent.
LEMMA NewerRevision ==
  ASSUME IInv, NEW r \in Revisions, NEW v \in Vaults,
         account.revision < r,
         account' = [status |-> "active", revision |-> r, vault |-> v],
         committed' = [committed EXCEPT ![r] = v],
         acked' \in {acked, acked \cup {[revision |-> r, vault |-> v]}}
  PROVE  /\ account' \in Accounts
         /\ committed' \in [Revisions -> Vaults \cup {NoVault}]
         /\ acked' \in SUBSET Subjects
         /\ RowCommitted' /\ AckedCommitted'
         /\ \A s \in Subjects : committed[s.revision] = s.vault
                                  => committed'[s.revision] = s.vault
<1>1. /\ committed \in [Revisions -> Vaults \cup {NoVault}]
      /\ acked \in SUBSET Subjects /\ account \in Accounts
  BY DEF IInv, TypeOK
<1>2. /\ account' \in Accounts
      /\ committed' \in [Revisions -> Vaults \cup {NoVault}]
      /\ acked' \in SUBSET Subjects
  BY <1>1 DEF Accounts, Statuses, Subjects
<1>3. /\ account'.revision = r /\ account'.vault = v /\ account'.status = "active"
      /\ committed'[r] = v
      /\ \A q \in Revisions : q # r => committed'[q] = committed[q]
  BY <1>1
<1>4. \A q \in Revisions : q > r => q > account.revision
  BY <1>1 DEF Accounts, Revisions
<1>5. committed[r] = NoVault
  BY <1>1 DEF IInv, RowCommitted, Accounts, Revisions
<1>6. RowCommitted'
  BY <1>3, <1>4 DEF IInv, RowCommitted, Revisions
<1>7. \A s \in Subjects : s.vault # NoVault /\ s.revision \in Revisions
  BY DEF Subjects
<1>8. \A s \in Subjects : committed[s.revision] = s.vault
                             => committed'[s.revision] = s.vault
  BY <1>3, <1>5, <1>7
<1>9. AckedCommitted'
  BY <1>1, <1>3, <1>8 DEF IInv, AckedCommitted
<1> QED
  BY <1>2, <1>6, <1>8, <1>9

\* A fenced publication keeps the invariant.
LEMMA FencedWriteIInv ==
  ASSUME IInv, NEW l \in handles, NEW r \in Revisions \ {0}, NEW v \in Vaults,
         NEW obs \in Observations, NEW reply \in BOOLEAN,
         FencedWrite(l, r, v, obs, reply)
  PROVE  IInv'
<1> DEFINE s == [revision |-> r, vault |-> v]
<1>1. s \in Subjects /\ account.status = "active" /\ account.revision < r
  BY DEF FencedWrite, PublishableUnder, Subjects
<1>2. account \in Accounts /\ lease \in LeaseRows /\ handles \in SUBSET Leases
  BY DEF IInv, TypeOK
<1>3. account' = [status |-> "active", revision |-> r, vault |-> v]
  BY <1>1, <1>2 DEF FencedWrite, Accounts
<1>4. /\ committed' = [committed EXCEPT ![r] = v]
      /\ acked' \in {acked, acked \cup {s}}
      /\ UNCHANGED <<lease, blocked, handles>>
      /\ lastEpoch' = l.epoch
  BY DEF FencedWrite, Answered
<1>5. /\ account' \in Accounts
      /\ committed' \in [Revisions -> Vaults \cup {NoVault}]
      /\ acked' \in SUBSET Subjects
      /\ RowCommitted' /\ AckedCommitted'
      /\ \A q \in Subjects : committed[q.revision] = q.vault
                               => committed'[q.revision] = q.vault
  BY <1>1, <1>3, <1>4, NewerRevision
<1>6. /\ evidence' \in EvidenceRows
      /\ \/ evidence' = evidence
         \/ evidence'.routing = s /\ evidence'.billing \in {NoSubject, s}
  BY <1>1, ObserveEvidence DEF FencedWrite
<1>7. committed'[s.revision] = s.vault
  BY <1>4 DEF IInv, TypeOK
<1>8. EvidenceTruthful' /\ (evidence.active => evidence.routing \in Subjects)'
  <2>1. CASE evidence' = evidence
    BY <2>1, <1>5 DEF IInv, EvidenceTruthful
  <2>2. CASE evidence'.routing = s /\ evidence'.billing \in {NoSubject, s}
    BY <2>2, <1>1, <1>7 DEF EvidenceTruthful
  <2> QED
    BY <1>6, <2>1, <2>2
<1>9. TypeOK'
  BY <1>2, <1>4, <1>5, <1>6 DEF IInv, TypeOK, Leases
<1>10. GrantsOrdered'
  BY <1>2, <1>4 DEF IInv, GrantsOrdered
<1>11. ReleasedNotLive' /\ RemovedUnleased'
  BY <1>3, <1>4 DEF IInv, ReleasedNotLive, RemovedUnleased
<1> QED
  BY <1>5, <1>8, <1>9, <1>10, <1>11 DEF IInv

\* Writing the stored record again changes at most the evidence.
LEMMA FencedRewriteIInv ==
  ASSUME IInv, NEW l \in handles, NEW r \in Revisions \ {0}, NEW v \in Vaults,
         NEW obs \in Observations, NEW reply \in BOOLEAN,
         FencedRewrite(l, r, v, obs, reply)
  PROVE  IInv'
<1> DEFINE s == [revision |-> r, vault |-> v]
<1>1. s \in Subjects /\ committed[s.revision] = s.vault
  BY DEF FencedRewrite, UnchangedUnder, Subjects, IInv, RowCommitted
<1>2. /\ UNCHANGED <<account, lease, blocked, handles, committed, lastEpoch>>
      /\ acked' \in {acked, acked \cup {s}}
  BY DEF FencedRewrite, Answered
<1>3. /\ evidence' \in EvidenceRows
      /\ \/ evidence' = evidence
         \/ evidence'.routing = s /\ evidence'.billing \in {NoSubject, s}
  BY <1>1, ObserveEvidence DEF FencedRewrite
<1>4. TypeOK'
  BY <1>1, <1>2, <1>3 DEF IInv, TypeOK
<1>5. GrantsOrdered' /\ ReleasedNotLive' /\ RemovedUnleased'
  BY <1>2 DEF IInv, GrantsOrdered, ReleasedNotLive, RemovedUnleased
<1>6. account.status = "active"
  BY DEF FencedRewrite, UnchangedUnder
<1>7. RowCommitted' /\ AckedCommitted'
  BY <1>1, <1>2, <1>6 DEF IInv, RowCommitted, AckedCommitted
<1>8. EvidenceTruthful' /\ (evidence.active => evidence.routing \in Subjects)'
  BY <1>1, <1>2, <1>3 DEF IInv, EvidenceTruthful
<1> QED
  BY <1>4, <1>5, <1>7, <1>8 DEF IInv

\* The lease-free save keeps the invariant: it is ordered by revision.
LEMMA SaveAccountIInv ==
  ASSUME IInv, NEW r \in Revisions \ {0}, NEW v \in Vaults,
         NEW reply \in BOOLEAN, SaveAccount(r, v, reply)
  PROVE  IInv'
<1> DEFINE s == [revision |-> r, vault |-> v]
<1>1. account.revision < r
  BY DEF SaveAccount, Savable, IInv, RowCommitted, Revisions
<1>2. /\ account' = [status |-> "active", revision |-> r, vault |-> v]
      /\ committed' = [committed EXCEPT ![r] = v]
      /\ acked' \in {acked, acked \cup {s}}
      /\ UNCHANGED <<lease, evidence, blocked, handles, lastEpoch>>
  BY DEF SaveAccount, Answered
<1>3. /\ account' \in Accounts
      /\ committed' \in [Revisions -> Vaults \cup {NoVault}]
      /\ acked' \in SUBSET Subjects
      /\ RowCommitted' /\ AckedCommitted'
      /\ \A q \in Subjects : committed[q.revision] = q.vault
                               => committed'[q.revision] = q.vault
  BY <1>1, <1>2, NewerRevision
<1>4. TypeOK'
  BY <1>2, <1>3 DEF IInv, TypeOK
<1>5. GrantsOrdered' /\ ReleasedNotLive' /\ RemovedUnleased'
  BY <1>2 DEF IInv, GrantsOrdered, ReleasedNotLive, RemovedUnleased
<1>6. EvidenceTruthful' /\ (evidence.active => evidence.routing \in Subjects)'
  BY <1>2, <1>3 DEF IInv, EvidenceTruthful
<1> QED
  BY <1>3, <1>4, <1>5, <1>6 DEF IInv

\* The acknowledgement of a repeated save is for what the row holds.
LEMMA ResaveAccountIInv ==
  ASSUME IInv, NEW r \in Revisions \ {0}, NEW v \in Vaults,
         NEW reply \in BOOLEAN, ResaveAccount(r, v, reply)
  PROVE  IInv'
<1> DEFINE s == [revision |-> r, vault |-> v]
<1>1. s \in Subjects /\ committed[s.revision] = s.vault /\ account.status = "active"
  BY DEF ResaveAccount, SavedAlready, Subjects, IInv, RowCommitted
<1>2. /\ UNCHANGED <<account, lease, evidence, blocked, handles, committed, lastEpoch>>
      /\ acked' \in {acked, acked \cup {s}}
  BY DEF ResaveAccount, Answered
<1>3. TypeOK'
  BY <1>1, <1>2 DEF IInv, TypeOK
<1>4. GrantsOrdered' /\ ReleasedNotLive' /\ RemovedUnleased'
  BY <1>2 DEF IInv, GrantsOrdered, ReleasedNotLive, RemovedUnleased
<1>5. RowCommitted' /\ AckedCommitted'
  BY <1>1, <1>2 DEF IInv, RowCommitted, AckedCommitted
<1>6. EvidenceTruthful' /\ (evidence.active => evidence.routing \in Subjects)'
  BY <1>2 DEF IInv, EvidenceTruthful
<1> QED
  BY <1>3, <1>4, <1>5, <1>6 DEF IInv

\* The tombstone leaves no live lease behind: a foreign lease was released.
LEMMA RemoveAccountIInv ==
  ASSUME IInv, NEW h \in Holders, RemoveAccount(h) PROVE IInv'
<1>1. account \in Accounts /\ lease \in LeaseRows
  BY DEF IInv, TypeOK
<1>2. /\ account.status = "active" /\ account.revision < MaxRevision
      /\ account' = [account EXCEPT !.status = "removed", !.revision = account.revision + 1]
      /\ UNCHANGED <<evidence, blocked, handles, committed, lastEpoch, acked>>
  BY DEF RemoveAccount, RemovableBy
<1>3. /\ lease' \in LeaseRows /\ ~lease'.live
      /\ lease'.epoch = lease.epoch /\ lease'.holder = lease.holder
  <2>1. CASE lease.holder = h
    <3>1. lease' = [lease EXCEPT !.released = TRUE, !.live = FALSE]
      BY <2>1 DEF RemoveAccount
    <3> QED
      BY <1>1, <3>1 DEF LeaseRows
  <2>2. CASE lease.holder # h
    <3>1. lease' = lease /\ lease.released
      BY <2>2 DEF RemoveAccount, RemovableBy
    <3> QED
      BY <1>1, <3>1 DEF IInv, ReleasedNotLive
  <2> QED
    BY <2>1, <2>2
<1>4. /\ account'.status = "removed" /\ account'.revision = account.revision + 1
      /\ account' \in Accounts
  <2>1. account.revision + 1 \in Revisions
    BY <1>1, <1>2 DEF Accounts, Revisions
  <2>2. account' = [status |-> "removed", revision |-> account.revision + 1,
                    vault |-> account.vault]
    BY <1>1, <1>2 DEF Accounts
  <2> QED
    BY <1>1, <2>1, <2>2 DEF Accounts, Statuses
<1>5. TypeOK' /\ GrantsOrdered'
  BY <1>2, <1>3, <1>4 DEF IInv, TypeOK, GrantsOrdered
<1>6. ReleasedNotLive' /\ RemovedUnleased'
  BY <1>3 DEF ReleasedNotLive, RemovedUnleased
<1>7. RowCommitted'
  BY <1>1, <1>2, <1>4 DEF IInv, RowCommitted, Accounts, Revisions
<1>8. /\ AckedCommitted' /\ EvidenceTruthful'
      /\ (evidence.active => evidence.routing \in Subjects)'
  BY <1>2 DEF IInv, AckedCommitted, EvidenceTruthful
<1> QED
  BY <1>5, <1>6, <1>7, <1>8 DEF IInv

\* Clearing evidence and the fence switch touch nothing else.
LEMMA OtherIInv ==
  ASSUME IInv, ClearTokenEvidence \/ SetBlocked PROVE IInv'
<1>1. /\ UNCHANGED <<account, lease, handles, committed, lastEpoch, acked>>
      /\ evidence' \in EvidenceRows /\ blocked' \in BOOLEAN
      /\ evidence'.active => evidence' = evidence
  BY DEF ClearTokenEvidence, SetBlocked, IInv, TypeOK, EvidenceRows
<1> QED
  BY <1>1 DEF IInv, TypeOK, GrantsOrdered, ReleasedNotLive, RowCommitted,
     RemovedUnleased, AckedCommitted, EvidenceTruthful

\* Every step of the store keeps the invariant.
LEMMA NextIInv == IInv /\ [Next]_vars => IInv'
<1> SUFFICES ASSUME IInv, [Next]_vars PROVE IInv'
  OBVIOUS
<1>1. CASE Next
  BY <1>1, AcquireIInv, LapseIInv, FencedWriteIInv, FencedRewriteIInv,
     SaveAccountIInv, ResaveAccountIInv, RemoveAccountIInv, OtherIInv DEF Next
<1>2. CASE UNCHANGED vars
  BY <1>2 DEF vars, IInv, TypeOK, GrantsOrdered, ReleasedNotLive, RowCommitted,
     RemovedUnleased, AckedCommitted, EvidenceTruthful
<1> QED
  BY <1>1, <1>2

\* The invariant holds in every reachable state of the store.
THEOREM StoreInvariant == Spec => []IInv
  BY InitIInv, NextIInv, PTL DEF Spec

\* A removed account never has a live lease.
THEOREM RemovedUnleasedAlways == Spec => []RemovedUnleased
<1>1. IInv => RemovedUnleased
  BY DEF IInv
<1> QED
  BY <1>1, StoreInvariant, PTL

\* What the store acknowledged it had committed, for ever.
THEOREM AckedCommittedAlways == Spec => []AckedCommitted
<1>1. IInv => AckedCommitted
  BY DEF IInv
<1> QED
  BY <1>1, StoreInvariant, PTL

\* Evidence is always about a credential that was committed.
THEOREM EvidenceTruthfulAlways == Spec => []EvidenceTruthful
<1>1. IInv => EvidenceTruthful
  BY DEF IInv
<1> QED
  BY <1>1, StoreInvariant, PTL

\* A stale lease never publishes after a newer one did.
THEOREM FencingOrderAlways == Spec => FencingOrder
<1>1. IInv /\ [Next]_vars => [lastEpoch' >= lastEpoch]_vars
  <2> SUFFICES ASSUME IInv, Next PROVE lastEpoch' >= lastEpoch
    OBVIOUS
  <2>1. lastEpoch \in Int /\ lastEpoch <= lease.epoch
    BY DEF IInv, TypeOK, GrantsOrdered, Epochs
  <2>2. CASE \E l \in handles, r \in Revisions \ {0}, v \in Vaults,
               obs \in Observations, reply \in BOOLEAN :
               FencedWrite(l, r, v, obs, reply)
    BY <2>1, <2>2 DEF FencedWrite, PublishableUnder, LeaseValid
  <2>3. lastEpoch' = lastEpoch \/ lastEpoch' >= lastEpoch
    BY <2>2 DEF Next, AcquireLease, Expire, ReleaseLease, FencedRewrite,
       SaveAccount, ResaveAccount, ClearTokenEvidence, RemoveAccount, SetBlocked
  <2> QED
    BY <2>1, <2>3
<1> QED
  BY <1>1, StoreInvariant, PTL DEF Spec, FencingOrder

\* Every change of the credential row moves its revision up.
THEOREM RevisionNamesContentAlways == Spec => RevisionNamesContent
<1> DEFINE A == account' # account => \/ account.status = "missing"
                                     \/ account'.revision > account.revision
<1>1. IInv /\ [Next]_vars => [A]_vars
  <2> SUFFICES ASSUME IInv, Next, account' # account, account.status # "missing"
               PROVE  account'.revision > account.revision
    OBVIOUS
  <2>1. account \in Accounts
    BY DEF IInv, TypeOK
  <2>2. CASE \E l \in handles, r \in Revisions \ {0}, v \in Vaults,
               obs \in Observations, reply \in BOOLEAN :
               FencedWrite(l, r, v, obs, reply)
    BY <2>1, <2>2 DEF FencedWrite, PublishableUnder, Accounts
  <2>3. CASE \E r \in Revisions \ {0}, v \in Vaults, reply \in BOOLEAN :
               SaveAccount(r, v, reply)
    BY <2>1, <2>3 DEF SaveAccount, Savable
  <2>4. CASE \E h \in Holders : RemoveAccount(h)
    <3>1. account' = [account EXCEPT !.status = "removed",
                                     !.revision = account.revision + 1]
      BY <2>4 DEF RemoveAccount
    <3> QED
      BY <2>1, <3>1 DEF Accounts, Revisions
  <2> QED
    BY <2>2, <2>3, <2>4 DEF Next, AcquireLease, Expire, ReleaseLease,
       FencedRewrite, ResaveAccount, ClearTokenEvidence, SetBlocked
<1> QED
  BY <1>1, StoreInvariant, PTL DEF Spec, RevisionNamesContent

\* The tombstone is final.
THEOREM RemovedFinalAlways == Spec => RemovedFinal
<1> DEFINE A == account.status = "removed" => account' = account
<1>1. [Next]_vars => [A]_vars
  <2> SUFFICES ASSUME Next, account.status = "removed" PROVE account' = account
    OBVIOUS
  <2>1. CASE \E l \in handles, r \in Revisions \ {0}, v \in Vaults,
               obs \in Observations, reply \in BOOLEAN :
               FencedWrite(l, r, v, obs, reply)
    BY <2>1 DEF FencedWrite, PublishableUnder
  <2>2. CASE \E r \in Revisions \ {0}, v \in Vaults, reply \in BOOLEAN :
               SaveAccount(r, v, reply)
    BY <2>2 DEF SaveAccount, Savable
  <2>3. CASE \E h \in Holders : RemoveAccount(h)
    BY <2>3 DEF RemoveAccount, RemovableBy
  <2> QED
    BY <2>1, <2>2, <2>3 DEF Next, AcquireLease, Expire, ReleaseLease,
       FencedRewrite, ResaveAccount, ClearTokenEvidence, SetBlocked
<1> QED
  BY <1>1, PTL DEF Spec, RemovedFinal

---------------------------------------------------------------------------
(* The owners. *)

USE HoldersAreBoots, GenerationsAssumption, ScopesAssumption, WindowAssumption

\* No operation is an operation.
LEMMA NoOpTyped == NoOp \in Ops /\ First \in Credential
<1>1. First \in Credential
  BY DEF First, Credential, Revisions
<1> QED
  BY <1>1 DEF NoOp, Ops, Phases, Epochs, Kinds, Results

\* Fencing an owner.
LEMMA FencedIs == \A o \in Owners :
  /\ Fenced(o) \in Owners
  /\ Fenced(o).vault = o.vault /\ Fenced(o).journal = o.journal /\ Fenced(o).child = o.child
  /\ ~Usable(Fenced(o)) /\ Fenced(o).refused /\ ~Fenced(o).available
  BY DEF Fenced, Owners, Usable, Recoverable

\* Stopping the owner of a removed account.
LEMMA StoppedIs == \A o \in Owners :
  /\ StoppedRemoved(o) \in Owners
  /\ StoppedRemoved(o).vault = o.vault /\ StoppedRemoved(o).journal = o.journal
  /\ StoppedRemoved(o).child = NoVault
  /\ ~Usable(StoppedRemoved(o)) /\ StoppedRemoved(o).refused
<1> SUFFICES ASSUME NEW o \in Owners
    PROVE  /\ StoppedRemoved(o) \in Owners
           /\ StoppedRemoved(o).vault = o.vault /\ StoppedRemoved(o).journal = o.journal
           /\ StoppedRemoved(o).child = NoVault
           /\ ~Usable(StoppedRemoved(o)) /\ StoppedRemoved(o).refused
  OBVIOUS
<1> DEFINE f == Fenced(o)
<1>1. f \in Owners /\ f.vault = o.vault /\ f.journal = o.journal /\ f.refused /\ ~f.available
  BY DEF Fenced, Owners
<1>2. StoppedRemoved(o) = [f EXCEPT !.child = NoVault, !.retryable = FALSE]
  BY DEF StoppedRemoved
<1> HIDE DEF f
<1> QED
  BY <1>1, <1>2 DEF Owners, Usable, Recoverable

\* Reconciling an owner.
LEMMA ReconciledIs ==
  ASSUME IInv, Imported, NEW o \in Owners
  PROVE  /\ Reconciled(o) \in Owners
         /\ Reconciled(o).available = o.available /\ Reconciled(o).refused = o.refused
         /\ Reconciled(o).retryable = o.retryable
         /\ \/ Reconciled(o) = o /\ account.revision <= o.vault.revision
            \/ /\ account.revision > o.vault.revision
               /\ Reconciled(o).vault = [revision |-> account.revision, vault |-> account.vault]
               /\ Reconciled(o).journal = account.vault /\ Reconciled(o).child = NoVault
<1>1. account \in Accounts /\ account.vault \in Vaults
  BY DEF IInv, TypeOK, Imported
<1> QED
  <2>1. CASE account.revision > o.vault.revision
    <3> DEFINE c == [revision |-> account.revision, vault |-> account.vault]
    <3>1. c \in Credential
      BY <1>1 DEF Credential, Accounts
    <3>2. Reconciled(o) = [o EXCEPT !.vault = c, !.journal = account.vault, !.child = NoVault]
      BY <2>1 DEF Reconciled
    <3> HIDE DEF c
    <3>3. /\ Reconciled(o).vault = c /\ Reconciled(o).journal = account.vault
          /\ Reconciled(o).child = NoVault /\ Reconciled(o) \in Owners
          /\ Reconciled(o).available = o.available /\ Reconciled(o).refused = o.refused
          /\ Reconciled(o).retryable = o.retryable
      BY <1>1, <3>1, <3>2 DEF Owners
    <3> QED
      BY <2>1, <3>3 DEF c
  <2>2. CASE ~(account.revision > o.vault.revision)
    BY <1>1, <2>2 DEF Reconciled, Owners, Credential, Accounts, Revisions
  <2> QED
    BY <2>1, <2>2

\* Settling a stopped child.
LEMMA SettledIs ==
  ASSUME NEW o \in Owners, NEW j \in Vaults, NEW b \in Credential
  PROVE  /\ Settled(o, j, b).vault.vault = j /\ Settled(o, j, b).journal = j
         /\ Settled(o, j, b).child = NoVault
         /\ Settled(o, j, b).available = o.available /\ Settled(o, j, b).refused = o.refused
         /\ Settled(o, j, b).retryable = o.retryable
         /\ Settled(o, j, b).vault.revision =
              IF j = b.vault THEN o.vault.revision
              ELSE IF o.vault.revision > b.revision THEN o.vault.revision
              ELSE b.revision + 1
         /\ Settled(o, j, b).vault.revision \in Revisions => Settled(o, j, b) \in Owners
  BY DEF Settled, Owners, Credential

---------------------------------------------------------------------------
(* The rows of the store. *)

StoreKept == IInv' /\ Imported' /\ handles \subseteq handles'
RowKept == account' = account /\ committed' = committed
LeaseTimed == left' \in 0..TTL /\ (lease'.live <=> left' > 0)

\* A step that leaves the rows alone.
LEMMA QuietStore ==
  ASSUME IInv, Imported, UNCHANGED vars
  PROVE  StoreKept /\ RowKept /\ lease' = lease
<1>1. IInv'
  BY NextIInv
<1> QED
  BY <1>1 DEF vars, StoreKept, RowKept, Imported

\* A replica's identity is a holder, and a lease an operation works under was granted.
LEMMA Identity ==
  ASSUME Typed, NEW h \in Replicas
  PROVE  /\ Me(h) \in Holders
         /\ Pc(h) \notin {"idle", "down", "admitted"} => MyLease(h) \in handles
  BY DEF Typed, CustodyTypeOK, Me, Placed

\* A release, landed or not, changes the lease row only.
LEMMA ReleasedStore ==
  ASSUME Typed, NEW h \in Replicas, NEW lands, Released(h, lands),
         Pc(h) \notin {"idle", "down", "admitted"}
  PROVE  StoreKept /\ RowKept /\ LeaseTimed
<1>1. MyLease(h) \in handles /\ IInv /\ Imported /\ left \in 0..TTL /\ (lease.live <=> left > 0)
  BY Identity DEF Typed, CustodyTypeOK
<1>2. CASE UNCHANGED <<vars, left>>
  BY <1>1, <1>2, QuietStore DEF LeaseTimed
<1>3. CASE ReleaseLease(MyLease(h)) /\ left' = 0
  <2>1. IInv'
    BY <1>1, <1>3, LapseIInv
  <2>2. RowKept /\ handles' = handles /\ ~lease'.live
    BY <1>1, <1>3 DEF ReleaseLease, RowKept, IInv, TypeOK, LeaseRows
  <2> QED
    BY <1>1, <1>3, <2>1, <2>2 DEF StoreKept, RowKept, LeaseTimed, Imported
<1> QED
  BY <1>2, <1>3 DEF Released

\* A claim grants this replica the next epoch.
LEMMA AcquiredStore ==
  ASSUME Typed, NEW h \in Replicas, AcquireLease(Me(h)), left' = TTL
  PROVE  /\ StoreKept /\ RowKept /\ LeaseTimed
         /\ [holder |-> Me(h), epoch |-> lease.epoch + 1] \in handles'
         /\ lease.epoch + 1 \in Epochs
<1>1. IInv /\ Imported /\ Me(h) \in Holders /\ lease.epoch \in Epochs
  BY Identity DEF Typed, IInv, TypeOK, LeaseRows
<1>2. IInv'
  BY <1>1, AcquireIInv
<1>3. /\ RowKept /\ handles \subseteq handles' /\ lease'.live
      /\ [holder |-> Me(h), epoch |-> lease.epoch + 1] \in handles'
      /\ lease.epoch + 1 \in Epochs
  BY <1>1 DEF AcquireLease, RowKept, Epochs
<1> QED
  BY <1>1, <1>2, <1>3 DEF StoreKept, RowKept, LeaseTimed, Imported

\* A publication under a granted lease.
LEMMA PublishedStore ==
  ASSUME Typed, NEW l \in handles, NEW c \in Credential,
         NEW obs \in Observations, NEW reply \in BOOLEAN,
         \/ FencedWrite(l, c.revision, c.vault, obs, reply)
         \/ FencedRewrite(l, c.revision, c.vault, obs, reply)
  PROVE  /\ StoreKept /\ lease' = lease /\ account'.status = "active"
         /\ account.status = "active" /\ LeaseValid(l)
         /\ account'.revision = c.revision /\ account'.vault = c.vault
         /\ committed'[c.revision] = c.vault
         /\ \/ account.revision < c.revision /\ committed' = [committed EXCEPT ![c.revision] = c.vault]
            \/ account.revision = c.revision /\ account.vault = c.vault /\ RowKept
<1>1. IInv /\ Imported /\ account \in Accounts /\ committed \in [Revisions -> Vaults \cup {NoVault}]
  BY DEF Typed, IInv, TypeOK
<1>2. c.revision \in Revisions /\ c.vault \in Vaults
  BY DEF Credential
<1>3. CASE FencedWrite(l, c.revision, c.vault, obs, reply)
  <2>1. c.revision \in Revisions \ {0}
    BY <1>1, <1>2, <1>3 DEF FencedWrite, PublishableUnder, Imported, Revisions, Accounts
  <2>2. IInv'
    <3>1. \A r \in Revisions \ {0}, v \in Vaults : FencedWrite(l, r, v, obs, reply) => IInv'
      BY <1>1, FencedWriteIInv
    <3> QED
      BY <1>2, <1>3, <2>1, <3>1
  <2>3. /\ lease' = lease /\ account'.status = "active" /\ handles' = handles
        /\ account.status = "active" /\ LeaseValid(l) /\ account.revision < c.revision
        /\ account'.revision = c.revision /\ account'.vault = c.vault
        /\ committed' = [committed EXCEPT ![c.revision] = c.vault]
    BY <1>1, <1>3 DEF FencedWrite, PublishableUnder, Accounts
  <2> QED
    BY <1>1, <1>2, <2>1, <2>2, <2>3 DEF StoreKept, Imported, Revisions
<1>4. CASE FencedRewrite(l, c.revision, c.vault, obs, reply)
  <2>1. c.revision \in Revisions \ {0}
    BY <1>1, <1>2, <1>4 DEF FencedRewrite, UnchangedUnder, Imported, Revisions, Accounts
  <2>2. IInv'
    <3>1. \A r \in Revisions \ {0}, v \in Vaults : FencedRewrite(l, r, v, obs, reply) => IInv'
      BY <1>1, FencedRewriteIInv
    <3> QED
      BY <1>2, <1>4, <2>1, <3>1
  <2>3. /\ lease' = lease /\ handles' = handles /\ RowKept
        /\ account.status = "active" /\ LeaseValid(l)
        /\ account.revision = c.revision /\ account.vault = c.vault
    BY <1>4 DEF FencedRewrite, UnchangedUnder, RowKept
  <2> QED
    BY <1>1, <2>2, <2>3 DEF StoreKept, Imported, RowKept, IInv, RowCommitted
<1> QED
  BY <1>3, <1>4

---------------------------------------------------------------------------
(* What each action does to its replica. *)

\* A step of one replica: the others keep their owner and operation.
Moves(h) ==
  /\ scope' = scope /\ own' \in [Replicas -> Owners] /\ op' \in [Replicas -> Ops]
  /\ \A k \in Replicas \ {h} : own'[k] = own[k] /\ op'[k] = op[k]
HistoryKept == UNCHANGED <<reach, boot, provider, delivered, forfeited>>
Quiet == UNCHANGED vars /\ left' = left
SameWork(p, q) ==
  /\ p.epoch = q.epoch /\ p.before = q.before /\ p.guarded = q.guarded
  /\ p.lost = q.lost /\ p.window = q.window
SameCredential(o, q) == o.vault = q.vault /\ o.journal = q.journal

\* A step given by the new owner and the new operation of one replica.
LEMMA Stepped ==
  ASSUME Typed, NEW h \in Replicas, NEW o \in Owners, NEW p \in Ops, scope' = scope,
         own' = [own EXCEPT ![h] = o], op' = [op EXCEPT ![h] = p]
  PROVE  Moves(h) /\ own'[h] = o /\ op'[h] = p
  BY DEF Typed, CustodyTypeOK, Moves

\* An owner and an operation of a typed state.
LEMMA Present ==
  ASSUME Typed, NEW h \in Replicas
  PROVE  /\ own[h] \in Owners /\ op[h] \in Ops /\ Me(h) \in Holders
         /\ IInv /\ Imported /\ Placed(h) /\ Agreeing(h)
         /\ left \in 0..TTL /\ (lease.live <=> left > 0)
         /\ own = [own EXCEPT ![h] = own[h]] /\ op = [op EXCEPT ![h] = op[h]]
  BY DEF Typed, CustodyTypeOK, Me

\* An operation that moves to another phase.
LEMMA Moved ==
  ASSUME NEW p \in Ops, NEW pc \in Phases
  PROVE  /\ [p EXCEPT !.pc = pc] \in Ops /\ [p EXCEPT !.pc = pc].pc = pc
         /\ SameWork([p EXCEPT !.pc = pc], p) /\ [p EXCEPT !.pc = pc].result = p.result
  BY DEF Ops, SameWork

\* An operation that retains its custody, and one that settles with a result.
LEMMA Retained ==
  ASSUME NEW p \in Ops, NEW kind \in Kinds
  PROVE  /\ [p EXCEPT !.pc = "settling", !.kind = kind] \in Ops
         /\ [p EXCEPT !.pc = "settling", !.kind = kind].pc = "settling"
         /\ SameWork([p EXCEPT !.pc = "settling", !.kind = kind], p)
<1> DEFINE q == [p EXCEPT !.pc = "settling"]
<1>1. q \in Ops /\ q.pc = "settling" /\ SameWork(q, p)
  BY Moved DEF Phases
<1>2. [p EXCEPT !.pc = "settling", !.kind = kind] = [q EXCEPT !.kind = kind]
  OBVIOUS
<1> HIDE DEF q
<1> QED
  BY <1>1, <1>2 DEF Ops, SameWork

\* An operation that ends a phase with a result.
LEMMA Concluded ==
  ASSUME NEW p \in Ops, NEW pc \in Phases, NEW result \in Results
  PROVE  /\ [p EXCEPT !.pc = pc, !.result = result] \in Ops
         /\ [p EXCEPT !.pc = pc, !.result = result].pc = pc
         /\ [p EXCEPT !.pc = pc, !.result = result].result = result
         /\ SameWork([p EXCEPT !.pc = pc, !.result = result], p)
<1> DEFINE q == [p EXCEPT !.pc = pc]
<1>1. q \in Ops /\ q.pc = pc /\ SameWork(q, p)
  BY Moved
<1>2. [p EXCEPT !.pc = pc, !.result = result] = [q EXCEPT !.result = result]
  OBVIOUS
<1> HIDE DEF q
<1> QED
  BY <1>1, <1>2 DEF Ops, SameWork

\* An owner whose child changes.
LEMMA ChildIs == \A o \in Owners, c \in Vaults \cup {NoVault} :
  /\ [o EXCEPT !.child = c] \in Owners /\ [o EXCEPT !.child = c].child = c
  /\ SameCredential([o EXCEPT !.child = c], o)
  /\ Usable([o EXCEPT !.child = c]) = Usable(o)
  BY DEF Owners, SameCredential, Usable, Recoverable

\* What a reported result leaves of the owner.
LEMMA AfterResultIs == \A o \in Owners : \A result :
  /\ AfterResult(o, result) \in Owners
  /\ SameCredential(AfterResult(o, result), o) /\ AfterResult(o, result).child = o.child
<1> SUFFICES ASSUME NEW o \in Owners, NEW result
             PROVE  /\ AfterResult(o, result) \in Owners
                    /\ SameCredential(AfterResult(o, result), o)
                    /\ AfterResult(o, result).child = o.child
  OBVIOUS
<1>1. ASSUME NEW b \in BOOLEAN
      PROVE  /\ FencedFor(o, b) \in Owners /\ SameCredential(FencedFor(o, b), o)
             /\ FencedFor(o, b).child = o.child
  BY DEF FencedFor, Owners, SameCredential
<1>2. PICK x : x = [o EXCEPT !.refused = TRUE]
  OBVIOUS
<1>3. x \in Owners /\ SameCredential(x, o) /\ x.child = o.child
  BY <1>2 DEF Owners, SameCredential
<1>4. SameCredential(o, o)
  BY DEF SameCredential
<1>5. AfterResult(o, result) \in {FencedFor(o, TRUE), FencedFor(o, FALSE), x, o}
  BY <1>2 DEF AfterResult
<1>6. /\ FencedFor(o, TRUE) \in Owners /\ SameCredential(FencedFor(o, TRUE), o)
      /\ FencedFor(o, TRUE).child = o.child
  BY <1>1
<1>7. /\ FencedFor(o, FALSE) \in Owners /\ SameCredential(FencedFor(o, FALSE), o)
      /\ FencedFor(o, FALSE).child = o.child
  BY <1>1
<1> QED
  BY <1>3, <1>4, <1>5, <1>6, <1>7

\* Custody is retained: the owner is fenced, the operation settles.
LEMMA RetainIs ==
  ASSUME Typed, NEW h \in Replicas, NEW o \in Owners, NEW kind \in Kinds, scope' = scope,
         Retain(h, o, kind)
  PROVE  /\ Moves(h) /\ op'[h].pc = "settling" /\ SameWork(op'[h], op[h])
         /\ SameCredential(own'[h], o) /\ own'[h].child = o.child /\ ~Usable(own'[h])
<1> DEFINE p == [op[h] EXCEPT !.pc = "settling", !.kind = kind]
<1>1. own[h] \in Owners /\ op[h] \in Ops
  BY Present
<1>2. p \in Ops /\ p.pc = "settling" /\ SameWork(p, op[h])
  BY <1>1, Retained
<1>3. op' = [op EXCEPT ![h] = p] /\ own' = [own EXCEPT ![h] = Fenced(o)]
  <2>1. op \in [Replicas -> Ops]
    BY DEF Typed, CustodyTypeOK
  <2>2. op' = [op EXCEPT ![h].pc = "settling", ![h].kind = kind]
    BY DEF Retain
  <2>3. op' = [op EXCEPT ![h] = p]
    BY <2>1, <2>2
  <2>4. own' = [own EXCEPT ![h] = Fenced(o)]
    BY DEF Retain, SetOwn
  <2> QED
    BY <2>3, <2>4
<1> HIDE DEF p
<1>4. PICK f \in Owners : /\ f = Fenced(o) /\ f.vault = o.vault /\ f.journal = o.journal
                          /\ f.child = o.child /\ ~Usable(f)
  BY FencedIs
<1>5. PICK x \in Ops : x = p
  BY <1>2
<1>6. own' = [own EXCEPT ![h] = f] /\ op' = [op EXCEPT ![h] = x]
  BY <1>3, <1>4, <1>5
<1>7. Moves(h) /\ own'[h] = f /\ op'[h] = x
  BY <1>6, Stepped
<1> QED
  BY <1>2, <1>4, <1>5, <1>7 DEF SameCredential

\* An operation that is over.
LEMMA FinishIs ==
  ASSUME Typed, NEW h \in Replicas, NEW o \in Owners, scope' = scope,
         own' = [own EXCEPT ![h] = o], Finish(h)
  PROVE  Moves(h) /\ own'[h] = o /\ op'[h] = NoOp /\ op'[h].pc = "idle"
<1>1. Moves(h) /\ own'[h] = o /\ op'[h] = NoOp
  BY Stepped, NoOpTyped DEF Finish
<1> QED
  BY <1>1 DEF NoOp

\* The kind of custody a request leaves.
LEMMA KindTyped == \A o : KindOf(o) \in Kinds
  BY DEF KindOf, Kinds

\* An owner that is stopped, and fenced for good.
Shut(o, q) == SameCredential(o, q) /\ o.child = NoVault /\ ~Usable(o)

\* Admission reconciles the owner.
LEMMA TokenAdmitIs ==
  ASSUME Typed, NEW h \in Replicas, TokenAdmit(h), UNCHANGED scope
  PROVE  /\ Moves(h) /\ Quiet /\ HistoryKept
         /\ account.status = "active" /\ op[h].pc \in {"idle", "launching"}
         /\ own'[h] = Reconciled(own[h]) /\ SameWork(op'[h], op[h])
         /\ \/ op'[h].pc = op[h].pc
            \/ op[h].pc = "idle" /\ op'[h].pc = "admitted" /\ own[h].available
<1> DEFINE o == Reconciled(own[h])
           p == IF own[h].available /\ Pc(h) = "idle" THEN [op[h] EXCEPT !.pc = "admitted"]
                ELSE op[h]
<1>1. own[h] \in Owners /\ op[h] \in Ops /\ IInv /\ Imported
  BY Present
<1>2. /\ p \in Ops /\ SameWork(p, op[h])
      /\ \/ p.pc = op[h].pc
         \/ op[h].pc = "idle" /\ p.pc = "admitted" /\ own[h].available
  <2>1. CASE own[h].available /\ Pc(h) = "idle"
    <3>1. p = [op[h] EXCEPT !.pc = "admitted"]
      BY <2>1
    <3>2. "admitted" \in Phases /\ op[h].pc = "idle"
      BY <2>1 DEF Phases, Pc
    <3> HIDE DEF p
    <3>3. p \in Ops /\ SameWork(p, op[h]) /\ p.pc = "admitted"
      BY <1>1, <3>1, <3>2, Moved
    <3> QED
      BY <2>1, <3>2, <3>3
  <2>2. CASE ~(own[h].available /\ Pc(h) = "idle")
    <3>1. p = op[h]
      BY <2>2
    <3> QED
      BY <1>1, <3>1 DEF SameWork
  <2> QED
    BY <2>1, <2>2
<1>3. own' = [own EXCEPT ![h] = o] /\ op' = [op EXCEPT ![h] = p]
  <2>1. own' = [own EXCEPT ![h] = o]
    BY DEF TokenAdmit, SetOwn
  <2>2. CASE own[h].available /\ Pc(h) = "idle"
    <3>1. op' = [op EXCEPT ![h].pc = "admitted"]
      BY <2>2 DEF TokenAdmit, Goto
    <3> QED
      BY <2>1, <2>2, <3>1
  <2>3. CASE ~(own[h].available /\ Pc(h) = "idle")
    <3>1. op' = op
      BY <2>3 DEF TokenAdmit
    <3>2. p = op[h]
      BY <2>3
    <3> QED
      BY <1>1, <2>1, <3>1, <3>2, Present
  <2> QED
    BY <2>2, <2>3
<1>4. o \in Owners
  BY <1>1, ReconciledIs
<1> HIDE DEF p, o
<1>5. Moves(h) /\ own'[h] = o /\ op'[h] = p
  BY <1>2, <1>3, <1>4, Stepped
<1> QED
  BY <1>2, <1>5 DEF TokenAdmit, Quiet, HistoryKept, Pc, o

\* A request that finds the account removed stops the owner.
LEMMA TokenRemovedIs ==
  ASSUME Typed, NEW h \in Replicas, TokenRemoved(h), UNCHANGED scope
  PROVE  /\ Moves(h) /\ Quiet /\ HistoryKept /\ op' = op
         /\ account.status = "removed" /\ op[h].pc = "idle"
         /\ Shut(own'[h], own[h])
<1>1. own[h] \in Owners /\ op[h] \in Ops /\ op = [op EXCEPT ![h] = op[h]]
  BY Present
<1>2. StoppedRemoved(own[h]) \in Owners
  BY <1>1, StoppedIs
<1>3. own' = [own EXCEPT ![h] = StoppedRemoved(own[h])] /\ op' = [op EXCEPT ![h] = op[h]]
  BY <1>1 DEF TokenRemoved, SetOwn
<1>4. Moves(h) /\ own'[h] = StoppedRemoved(own[h])
  BY <1>1, <1>2, <1>3, Stepped
<1> QED
  BY <1>1, <1>4, StoppedIs DEF TokenRemoved, Quiet, HistoryKept, Pc, Shut, SameCredential

\* The claim of a request.
LEMMA TokenAcquireIs ==
  ASSUME Typed, NEW h \in Replicas, NEW answered \in BOOLEAN, TokenAcquire(h, answered),
         UNCHANGED scope
  PROVE  /\ Moves(h) /\ AcquireLease(Me(h)) /\ left' = TTL /\ HistoryKept
         /\ op[h].pc = "admitted" /\ own' = own
         /\ \/ op'[h].pc = "idle"
            \/ op'[h].pc = "leased" /\ op'[h].epoch = lease.epoch + 1
<1> DEFINE p == [NoOp EXCEPT !.pc = "leased", !.epoch = lease.epoch + 1]
           q == IF answered THEN p ELSE NoOp
<1>1. own[h] \in Owners /\ own = [own EXCEPT ![h] = own[h]]
  BY Present
<1>2. lease.epoch + 1 \in Epochs
  BY DEF TokenAcquire, AcquireLease, Typed, IInv, TypeOK, LeaseRows, Epochs
<1>3. p \in Ops /\ p.pc = "leased" /\ p.epoch = lease.epoch + 1
  <2> DEFINE r == [NoOp EXCEPT !.pc = "leased"]
  <2>1. r \in Ops /\ r.pc = "leased"
    BY NoOpTyped, Moved DEF Phases
  <2>2. p = [r EXCEPT !.epoch = lease.epoch + 1]
    OBVIOUS
  <2> HIDE DEF r
  <2> QED
    BY <1>2, <2>1, <2>2 DEF Ops
<1>4. op' = [op EXCEPT ![h] = q]
  BY DEF TokenAcquire
<1> HIDE DEF p
<1>5. /\ q \in Ops
      /\ \/ q.pc = "idle"
         \/ q.pc = "leased" /\ q.epoch = lease.epoch + 1
  BY <1>3, NoOpTyped DEF NoOp
<1> HIDE DEF q
<1>6. own' = [own EXCEPT ![h] = own[h]] /\ scope' = scope
  BY <1>1 DEF TokenAcquire
<1>7. Moves(h) /\ op'[h] = q
  BY <1>1, <1>4, <1>5, <1>6, Stepped
<1> QED
  BY <1>5, <1>7 DEF TokenAcquire, HistoryKept, Pc

\* A claim that was not granted.
LEMMA TokenContendedIs ==
  ASSUME Typed, NEW h \in Replicas, TokenContended(h), UNCHANGED scope
  PROVE  /\ Moves(h) /\ Quiet /\ HistoryKept
         /\ op[h].pc = "admitted" /\ op'[h].pc = "idle"
         /\ \/ own'[h] = own[h]
            \/ Shut(own'[h], own[h])
<1> DEFINE o == IF reach[h] /\ account.status = "removed"
                THEN StoppedRemoved(own[h]) ELSE own[h]
<1>1. own[h] \in Owners
  BY Present
<1>2. o \in Owners /\ (o = own[h] \/ Shut(o, own[h]))
  BY <1>1, StoppedIs DEF Shut, SameCredential
<1>3. own' = [own EXCEPT ![h] = o]
  BY DEF TokenContended, SetOwn
<1> HIDE DEF o
<1>4. Moves(h) /\ own'[h] = o /\ op'[h].pc = "idle"
  BY <1>2, <1>3, FinishIs DEF TokenContended
<1> QED
  BY <1>2, <1>4 DEF TokenContended, Quiet, HistoryKept, Pc

\* The baseline is taken from the reconciled owner, and the window opens.
LEMMA TokenBaselineIs ==
  ASSUME Typed, NEW h \in Replicas, TokenBaseline(h), UNCHANGED scope
  PROVE  /\ Moves(h) /\ Quiet /\ HistoryKept
         /\ op[h].pc = "leased" /\ own'[h] = Reconciled(own[h])
         /\ op'[h].pc = "native" /\ op'[h].before = own'[h].vault
         /\ op'[h].epoch = op[h].epoch /\ op'[h].guarded /\ op'[h].window = TTL
<1> DEFINE o == Reconciled(own[h])
           p == [op[h] EXCEPT !.pc = "native"]
           q == [p EXCEPT !.before = o.vault]
           r == [q EXCEPT !.window = TTL]
           s == [r EXCEPT !.guarded = TRUE]
<1>1. own[h] \in Owners /\ op[h] \in Ops /\ IInv /\ Imported
  BY Present
<1>2. o \in Owners /\ o.vault \in Credential
  BY <1>1, ReconciledIs DEF Owners
<1>3. p \in Ops /\ p.pc = "native" /\ p.epoch = op[h].epoch
  BY <1>1, Moved DEF Phases, SameWork
<1>4. own'[h] = o
  BY <1>1 DEF TokenBaseline, SetOwn, Typed, CustodyTypeOK
<1>5. op' = [op EXCEPT ![h] = s] /\ own' = [own EXCEPT ![h] = o]
  <2>1. op' = [op EXCEPT ![h] = [op[h] EXCEPT !.pc = "native", !.before = own'[h].vault,
                                              !.window = TTL, !.guarded = TRUE]]
    BY DEF TokenBaseline
  <2>2. op' = [op EXCEPT ![h] = [op[h] EXCEPT !.pc = "native", !.before = o.vault,
                                              !.window = TTL, !.guarded = TRUE]]
    BY <1>4, <2>1
  <2> QED
    BY <2>2 DEF TokenBaseline, SetOwn
<1> HIDE DEF o, p
<1>6. q \in Ops /\ q.pc = "native" /\ q.epoch = op[h].epoch /\ q.before = o.vault
  BY <1>2, <1>3 DEF Ops
<1> HIDE DEF q
<1>7. r \in Ops /\ r.pc = "native" /\ r.epoch = op[h].epoch /\ r.before = o.vault /\ r.window = TTL
  BY <1>6 DEF Ops
<1> HIDE DEF r
<1>8. /\ s \in Ops /\ s.pc = "native" /\ s.epoch = op[h].epoch /\ s.before = o.vault
      /\ s.window = TTL /\ s.guarded
  BY <1>7 DEF Ops
<1> HIDE DEF s
<1>9. Moves(h) /\ own'[h] = o /\ op'[h] = s
  BY <1>2, <1>5, <1>8, Stepped
<1> QED
  BY <1>8, <1>9 DEF TokenBaseline, Quiet, HistoryKept, Pc, o

\* A baseline that cannot be read.
LEMMA TokenBaselineFailsIs ==
  ASSUME Typed, NEW h \in Replicas, NEW lands \in BOOLEAN, TokenBaselineFails(h, lands),
         UNCHANGED scope
  PROVE  /\ Moves(h) /\ Released(h, lands) /\ HistoryKept
         /\ op[h].pc = "leased" /\ own' = own /\ op'[h].pc = "idle"
<1>1. own[h] \in Owners /\ own = [own EXCEPT ![h] = own[h]]
  BY Present
<1> QED
  BY <1>1, FinishIs DEF TokenBaselineFails, HistoryKept, Pc

\* A request served from the row under its lease.
LEMMA TokenServedUnderLeaseIs ==
  ASSUME Typed, NEW h \in Replicas, NEW lands \in BOOLEAN, TokenServedUnderLease(h, lands),
         UNCHANGED scope
  PROVE  /\ Moves(h) /\ Released(h, lands) /\ UNCHANGED <<reach, boot, provider, forfeited>>
         /\ op[h].pc = "leased" /\ account.status = "active" /\ op'[h].pc = "idle"
         /\ own'[h] = Reconciled(own[h]) /\ delivered' = delivered \cup {account.vault}
<1>1. Reconciled(own[h]) \in Owners
  BY Present, ReconciledIs
<1>2. own' = [own EXCEPT ![h] = Reconciled(own[h])]
  BY DEF TokenServedUnderLease, SetOwn
<1> QED
  BY <1>1, <1>2, FinishIs DEF TokenServedUnderLease, Pc

\* An evidence row withdrawn leaves the other rows.
EvidenceOnly == UNCHANGED <<account, lease, blocked, handles, committed, lastEpoch, acked>>

\* The child starts from the journal.
LEMMA EnsureRefreshOwnerIs ==
  ASSUME Typed, NEW h \in Replicas, EnsureRefreshOwner(h), UNCHANGED scope
  PROVE  /\ Moves(h) /\ Quiet /\ HistoryKept /\ op' = op
         /\ op[h].pc = "native" /\ own[h].child = NoVault
         /\ SameCredential(own'[h], own[h]) /\ own'[h].child = own[h].journal
<1> DEFINE o == [own[h] EXCEPT !.child = own[h].journal]
<1>1. own[h] \in Owners /\ own[h].journal \in Vaults /\ op[h] \in Ops
  BY Present DEF Owners
<1>2. o \in Owners /\ SameCredential(o, own[h]) /\ o.child = own[h].journal
  BY <1>1, ChildIs
<1>3. own' = [own EXCEPT ![h] = o] /\ op' = [op EXCEPT ![h] = op[h]]
  BY Present DEF EnsureRefreshOwner, SetOwn
<1> HIDE DEF o
<1>4. Moves(h) /\ own'[h] = o
  BY <1>1, <1>2, <1>3, Stepped
<1> QED
  BY <1>2, <1>4 DEF EnsureRefreshOwner, Quiet, HistoryKept, Pc

\* Custody retained with the credential and the child as they are.
Retires(h) ==
  /\ Moves(h) /\ op'[h].pc = "settling" /\ SameWork(op'[h], op[h])
  /\ SameCredential(own'[h], own[h]) /\ own'[h].child = own[h].child /\ ~Usable(own'[h])

\* A child that could not be started.
LEMMA EnsureRefreshOwnerFailsIs ==
  ASSUME Typed, NEW h \in Replicas, EnsureRefreshOwnerFails(h), UNCHANGED scope
  PROVE  Retires(h) /\ Quiet /\ HistoryKept /\ op[h].pc = "native"
<1>1. own[h] \in Owners /\ KindOf(own[h]) \in Kinds
  BY Present, KindTyped
<1>2. Retires(h)
  BY <1>1, RetainIs DEF EnsureRefreshOwnerFails, Retires
<1> QED
  BY <1>2 DEF EnsureRefreshOwnerFails, Quiet, HistoryKept, Pc

\* A child that does not stop in time.
LEMMA NativeHangsIs ==
  ASSUME Typed, NEW h \in Replicas, NEW result \in Results, NativeHangs(h, result),
         UNCHANGED scope
  PROVE  /\ Retires(h) /\ EvidenceOnly /\ left' = left /\ HistoryKept /\ op[h].pc = "native"
         /\ WithdrawEvidence(h, result)
<1> DEFINE o == AfterResult(own[h], result)
<1>1. /\ o \in Owners /\ KindOf(o) \in Kinds
      /\ SameCredential(o, own[h]) /\ o.child = own[h].child
  BY Present, KindTyped, AfterResultIs
<1> HIDE DEF o
<1>2. Retain(h, o, KindOf(o)) /\ scope' = scope
  BY DEF NativeHangs, o
<1>3. Retires(h)
  BY <1>1, <1>2, RetainIs DEF Retires, SameCredential
<1> QED
  BY <1>3 DEF NativeHangs, EvidenceOnly, HistoryKept, Pc

\* The record of a stopped child of owner q, whose journal is j, after baseline b.
Told(o, q, j, b) ==
  /\ o.vault.vault = j /\ o.journal = j /\ o.child = NoVault
  /\ o.vault.revision = IF j = b.vault THEN q.vault.revision
                        ELSE IF q.vault.revision > b.revision THEN q.vault.revision
                        ELSE b.revision + 1

\* The child stops in time.
LEMMA NativeSettlesIs ==
  ASSUME Typed, NEW h \in Replicas, NEW result \in Results, NativeSettles(h, result),
         UNCHANGED scope
  PROVE  /\ Moves(h) /\ EvidenceOnly /\ left' = left /\ HistoryKept
         /\ WithdrawEvidence(h, result)
         /\ op[h].pc = "native" /\ own[h].child # NoVault
         /\ op'[h].pc = "stopped" /\ SameWork(op'[h], op[h])
         /\ Told(own'[h], own[h], own[h].child, op[h].before)
<1> DEFINE a == AfterResult(own[h], result)
           o == Settled(a, own[h].child, op[h].before)
           p == [op[h] EXCEPT !.pc = "stopped", !.result = result]
<1>1. /\ own[h] \in Owners /\ op[h] \in Ops /\ own[h].child # NoVault /\ own[h].child \in Vaults
      /\ op[h].before \in Credential /\ own[h].vault \in Credential
  BY Present DEF Owners, Ops, NativeSettles
<1>2. a \in Owners /\ a.vault = own[h].vault
  BY <1>1, AfterResultIs DEF SameCredential
<1>3. p \in Ops /\ p.pc = "stopped" /\ SameWork(p, op[h])
  <2>1. "stopped" \in Phases
    BY DEF Phases
  <2> DEFINE w == op[h]
  <2>2. w \in Ops
    BY <1>1
  <2> HIDE DEF w
  <2>3. PICK x : x = [w EXCEPT !.pc = "stopped", !.result = result]
    OBVIOUS
  <2>4. x \in Ops
    BY <2>1, <2>2, <2>3 DEF Ops
  <2>5. x.pc = "stopped" /\ SameWork(x, w)
    BY <2>2, <2>3 DEF Ops, SameWork
  <2> QED
    BY <2>3, <2>4, <2>5 DEF w
<1> HIDE DEF a, p
<1>4. Told(o, own[h], own[h].child, op[h].before)
  <2> DEFINE b == op[h].before
             j == own[h].child
  <2>1. b \in Credential /\ j \in Vaults
    BY <1>1
  <2> HIDE DEF b, j
  <2>2. /\ Settled(a, j, b).vault.vault = j /\ Settled(a, j, b).journal = j
        /\ Settled(a, j, b).child = NoVault
        /\ Settled(a, j, b).vault.revision =
              IF j = b.vault THEN a.vault.revision
              ELSE IF a.vault.revision > b.revision THEN a.vault.revision
              ELSE b.revision + 1
    BY <1>2, <2>1, SettledIs
  <2> QED
    BY <1>2, <2>2 DEF Told, b, j
<1>5. op[h].pc = "native" /\ Agreeing(h)
  BY Present DEF NativeSettles, Pc
<1>6. o.vault.revision \in Revisions
  BY <1>1, <1>4, <1>5 DEF Told, Agreeing, Pc, Top, Credential, Revisions
<1>7. o \in Owners
  BY <1>1, <1>2, <1>6, SettledIs
<1> HIDE DEF o
<1>8. own' = [own EXCEPT ![h] = o] /\ op' = [op EXCEPT ![h] = p]
  BY DEF NativeSettles, SetOwn, o, p, a
<1>9. Moves(h) /\ own'[h] = o /\ op'[h] = p
  BY <1>3, <1>7, <1>8, Stepped
<1> QED
  BY <1>1, <1>3, <1>4, <1>5, <1>9 DEF NativeSettles, EvidenceOnly, HistoryKept

\* The publication of a request.
LEMMA TokenPublishIs ==
  ASSUME Typed, NEW h \in Replicas, TokenPublish(h), UNCHANGED scope
  PROVE  /\ Moves(h) /\ Publishes(h, TRUE) /\ left' = left /\ HistoryKept
         /\ op[h].pc = "stopped" /\ own' = own
         /\ op'[h].pc = "published" /\ SameWork(op'[h], op[h])
<1> DEFINE p == [op[h] EXCEPT !.pc = "published"]
<1>1. own[h] \in Owners /\ op[h] \in Ops
  BY Present
<1>2. p \in Ops /\ p.pc = "published" /\ SameWork(p, op[h])
  BY <1>1, Moved DEF Phases
<1>3. op' = [op EXCEPT ![h] = p] /\ own' = [own EXCEPT ![h] = own[h]]
  BY Present DEF TokenPublish, Goto
<1> HIDE DEF p
<1>4. Moves(h) /\ op'[h] = p
  BY <1>1, <1>2, <1>3, Stepped
<1> QED
  BY <1>2, <1>4 DEF TokenPublish, HistoryKept, Pc

\* A publication without its answer.
LEMMA TokenPublishDeferredIs ==
  ASSUME Typed, NEW h \in Replicas, NEW lands \in BOOLEAN, TokenPublishDeferred(h, lands),
         UNCHANGED scope
  PROVE  /\ Retires(h) /\ left' = left /\ HistoryKept /\ op[h].pc = "stopped"
         /\ \/ Publishes(h, FALSE)
            \/ UNCHANGED vars
<1>1. own[h] \in Owners /\ KindOf(own[h]) \in Kinds
  BY Present, KindTyped
<1>2. Retires(h)
  BY <1>1, RetainIs DEF TokenPublishDeferred, Retires
<1> QED
  BY <1>2 DEF TokenPublishDeferred, HistoryKept, Pc

\* A publication that was refused.
LEMMA TokenPublishRefusedIs ==
  ASSUME Typed, NEW h \in Replicas, TokenPublishRefused(h), UNCHANGED scope
  PROVE  /\ Quiet /\ HistoryKept /\ op[h].pc = "stopped" /\ Moves(h) /\ PublishRefused(h)
         /\ \/ /\ account.status = "removed" /\ op'[h].pc = "published"
               /\ op'[h].result = "none" /\ Shut(own'[h], own[h])
            \/ account.status # "removed" /\ Retires(h)
<1>1. own[h] \in Owners /\ op[h] \in Ops
  BY Present
<1>2. Quiet /\ HistoryKept /\ op[h].pc = "stopped" /\ PublishRefused(h)
  BY DEF TokenPublishRefused, Quiet, HistoryKept, Pc
<1>3. CASE account.status = "removed"
  <2> DEFINE p == [op[h] EXCEPT !.pc = "published", !.result = "none"]
             o == StoppedRemoved(own[h])
  <2>0. "published" \in Phases /\ "none" \in Results
    BY DEF Phases, Results
  <2>1. p \in Ops /\ p.pc = "published" /\ p.result = "none"
    <3> DEFINE q == [op[h] EXCEPT !.pc = "published"]
    <3>1. q \in Ops /\ q.pc = "published" /\ p = [q EXCEPT !.result = "none"]
      BY <1>1, <2>0, Moved
    <3> HIDE DEF q, p
    <3> QED
      BY <2>0, <3>1 DEF Ops
  <2>2. o \in Owners /\ Shut(o, own[h])
    BY <1>1, StoppedIs DEF Shut, SameCredential
  <2>3. op' = [op EXCEPT ![h] = p] /\ own' = [own EXCEPT ![h] = o]
    BY <1>3 DEF TokenPublishRefused, SetOwn
  <2> HIDE DEF p, o
  <2>4. Moves(h) /\ op'[h] = p /\ own'[h] = o
    BY <2>1, <2>2, <2>3, Stepped
  <2> QED
    BY <1>2, <1>3, <2>1, <2>2, <2>4
<1>4. CASE account.status # "removed"
  <2>1. Retain(h, own[h], "fenced")
    BY <1>4 DEF TokenPublishRefused
  <2>2. Retires(h)
    BY <1>1, <2>1, RetainIs DEF Retires, Kinds
  <2> QED
    BY <1>2, <1>4, <2>2 DEF Retires
<1> QED
  BY <1>3, <1>4

\* The answer goes out and the lease goes back.
LEMMA TokenDeliverIs ==
  ASSUME Typed, NEW h \in Replicas, NEW lands \in BOOLEAN, TokenDeliver(h, lands),
         UNCHANGED scope
  PROVE  /\ Moves(h) /\ Released(h, lands) /\ UNCHANGED <<reach, boot, provider, forfeited>>
         /\ op[h].pc = "published" /\ op'[h].pc = "idle"
         /\ SameCredential(own'[h], own[h]) /\ own'[h].child = own[h].child
         /\ Usable(own'[h]) => Usable(own[h])
         /\ \/ delivered' = delivered
            \/ Delivers(op[h].result) /\ delivered' = delivered \cup {own[h].vault.vault}
<1> DEFINE o == IF op[h].lost THEN Fenced(own[h])
                ELSE IF Delivers(op[h].result) THEN [own[h] EXCEPT !.retryable = FALSE]
                ELSE own[h]
<1>1. own[h] \in Owners
  BY Present
<1>2. [own[h] EXCEPT !.retryable = FALSE] \in Owners
  BY <1>1 DEF Owners
<1>3. /\ SameCredential([own[h] EXCEPT !.retryable = FALSE], own[h])
      /\ [own[h] EXCEPT !.retryable = FALSE].child = own[h].child
      /\ Usable([own[h] EXCEPT !.retryable = FALSE]) => Usable(own[h])
  BY <1>1 DEF Owners, SameCredential, Usable, Recoverable
<1>4. /\ o \in Owners /\ SameCredential(o, own[h]) /\ o.child = own[h].child
      /\ Usable(o) => Usable(own[h])
  BY <1>1, <1>2, <1>3, FencedIs DEF SameCredential
<1>5. own' = [own EXCEPT ![h] = o]
  BY DEF TokenDeliver, SetOwn
<1> HIDE DEF o
<1>6. Moves(h) /\ own'[h] = o /\ op'[h].pc = "idle"
  BY <1>4, <1>5, FinishIs DEF TokenDeliver
<1> QED
  BY <1>4, <1>6 DEF TokenDeliver, Pc

\* Custody given up when the window is lost.
LEMMA LoseCustodyIs ==
  ASSUME Typed, NEW h \in Replicas, LoseCustody(h), UNCHANGED scope
  PROVE  /\ Moves(h) /\ Quiet /\ UNCHANGED <<reach, boot, provider, delivered>>
         /\ GivesUp(h) /\ op[h].pc \in {"native", "stopped", "settling"}
         /\ op'[h].pc = "idle" /\ Shut(own'[h], own[h])
<1> DEFINE f == Fenced(own[h])
           o == [f EXCEPT !.child = NoVault]
<1>1. f \in Owners /\ SameCredential(f, own[h]) /\ ~Usable(f)
  BY Present, FencedIs DEF SameCredential
<1> HIDE DEF f
<1>2. o \in Owners /\ Shut(o, own[h])
  BY <1>1, ChildIs DEF Shut, SameCredential
<1>3. own' = [own EXCEPT ![h] = o]
  BY DEF LoseCustody, SetOwn, f
<1> HIDE DEF o
<1>4. Moves(h) /\ own'[h] = o /\ op'[h].pc = "idle"
  BY <1>2, <1>3, FinishIs DEF LoseCustody
<1> QED
  BY <1>2, <1>4 DEF LoseCustody, Quiet, Pc

\* The provider answers the child with the next generation.
LEMMA ChildRefreshIs ==
  ASSUME Typed, NEW h \in Replicas, ChildRefresh(h), UNCHANGED scope
  PROVE  /\ Moves(h) /\ Quiet /\ UNCHANGED <<reach, boot, delivered, forfeited>> /\ op' = op
         /\ own[h].child = provider /\ own[h].child # NoVault
         /\ provider' = provider + 1 /\ provider + 1 \in Vaults /\ RevisionLeft(h)
         /\ SameCredential(own'[h], own[h]) /\ own'[h].child = provider + 1
<1> DEFINE o == [own[h] EXCEPT !.child = provider + 1]
<1>1. own[h] \in Owners /\ op[h] \in Ops /\ provider \in Vaults
  BY Present DEF Typed, CustodyTypeOK
<1>2. provider + 1 \in Vaults /\ own[h].child = provider
  BY DEF ChildRefresh
<1>3. o \in Owners /\ SameCredential(o, own[h]) /\ o.child = provider + 1
  BY <1>1, <1>2, ChildIs
<1>4. own' = [own EXCEPT ![h] = o] /\ op' = [op EXCEPT ![h] = op[h]]
  BY Present DEF ChildRefresh, SetOwn
<1> HIDE DEF o
<1>5. Moves(h) /\ own'[h] = o
  BY <1>1, <1>3, <1>4, Stepped
<1> QED
  BY <1>1, <1>2, <1>3, <1>5 DEF ChildRefresh, Quiet

\* The child writes its journal, or stops after its last write.
LEMMA ChildJournalIs ==
  ASSUME Typed, NEW h \in Replicas, ChildJournal(h) \/ SettleStop(h), UNCHANGED scope
  PROVE  /\ Moves(h) /\ Quiet /\ HistoryKept /\ op' = op
         /\ own[h].child # NoVault
         /\ own'[h].vault = own[h].vault /\ own'[h].journal = own[h].child
         /\ \/ own'[h].child = own[h].child
            \/ own'[h].child = NoVault /\ op[h].pc = "settling"
<1> DEFINE o == [own[h] EXCEPT !.journal = own[h].child]
           q == [o EXCEPT !.child = NoVault]
<1>1. own[h] \in Owners /\ op[h] \in Ops /\ own[h].child # NoVault /\ own[h].child \in Vaults
  BY Present DEF ChildJournal, SettleStop, Owners
<1>2. /\ o \in Owners /\ o.vault = own[h].vault /\ o.journal = own[h].child
      /\ o.child = own[h].child
  BY <1>1 DEF Owners
<1> HIDE DEF o
<1>3. /\ q \in Owners /\ q.vault = own[h].vault /\ q.journal = own[h].child
      /\ q.child = NoVault
  BY <1>2, ChildIs DEF SameCredential
<1> HIDE DEF q
<1>4. op' = [op EXCEPT ![h] = op[h]]
  BY Present DEF ChildJournal, SettleStop
<1>7. Quiet /\ HistoryKept /\ op' = op
  BY DEF ChildJournal, SettleStop, Quiet, HistoryKept
<1>5. CASE ChildJournal(h)
  <2>1. own' = [own EXCEPT ![h] = o]
    BY <1>5 DEF ChildJournal, SetOwn, o
  <2>2. Moves(h) /\ own'[h] = o
    BY <1>1, <1>2, <1>4, <2>1, Stepped
  <2> QED
    BY <1>1, <1>2, <1>7, <2>2
<1>6. CASE SettleStop(h)
  <2>1. own' = [own EXCEPT ![h] = q]
    <3>1. own' = [own EXCEPT ![h] = [own[h] EXCEPT !.child = NoVault, !.journal = own[h].child]]
      BY <1>6 DEF SettleStop, SetOwn
    <3>2. [own[h] EXCEPT !.child = NoVault, !.journal = own[h].child] = q
      BY <1>1 DEF Owners, q, o
    <3> QED
      BY <3>1, <3>2
  <2>2. Moves(h) /\ own'[h] = q
    BY <1>1, <1>3, <1>4, <2>1, Stepped
  <2> QED
    BY <1>1, <1>3, <1>7, <1>6, <2>2 DEF SettleStop, Settling, Pc
<1> QED
  BY <1>5, <1>6

\* A child that has to be killed.
LEMMA SettleKillIs ==
  ASSUME Typed, NEW h \in Replicas, SettleKill(h), UNCHANGED scope
  PROVE  /\ Moves(h) /\ Quiet /\ UNCHANGED <<reach, boot, provider, delivered>> /\ op' = op
         /\ KillForfeits(h) /\ op[h].pc = "settling" /\ own[h].child # NoVault
         /\ SameCredential(own'[h], own[h]) /\ own'[h].child = NoVault
<1> DEFINE o == [own[h] EXCEPT !.child = NoVault]
<1>1. own[h] \in Owners /\ op[h] \in Ops
  BY Present
<1>2. o \in Owners /\ SameCredential(o, own[h]) /\ o.child = NoVault
  BY <1>1, ChildIs
<1>3. own' = [own EXCEPT ![h] = o] /\ op' = [op EXCEPT ![h] = op[h]]
  BY Present DEF SettleKill, SetOwn
<1> HIDE DEF o
<1>4. Moves(h) /\ own'[h] = o
  BY <1>1, <1>2, <1>3, Stepped
<1> QED
  BY <1>2, <1>4 DEF SettleKill, Quiet, Settling, Pc

\* The record of a settling owner.
LEMMA RecordedIs ==
  ASSUME Typed, NEW h \in Replicas, SettleRounds(h)
  PROVE  /\ Recorded(h) \in Owners /\ op[h].pc = "settling" /\ own[h].child = NoVault
         /\ ~(op[h].guarded /\ op[h].lost)
         /\ Told(Recorded(h), own[h], own[h].journal, op[h].before)
<1> DEFINE b == op[h].before
           j == own[h].journal
           o == own[h]
<1>1. o \in Owners /\ j \in Vaults /\ b \in Credential /\ o.vault \in Credential
  BY Present DEF Owners, Ops
<1>2. Recorded(h) = Settled(o, j, b)
  BY DEF Recorded
<1> HIDE DEF b, j, o
<1>3. /\ Settled(o, j, b).vault.vault = j /\ Settled(o, j, b).journal = j
      /\ Settled(o, j, b).child = NoVault
      /\ Settled(o, j, b).vault.revision =
            IF j = b.vault THEN o.vault.revision
            ELSE IF o.vault.revision > b.revision THEN o.vault.revision
            ELSE b.revision + 1
      /\ Settled(o, j, b).vault.revision \in Revisions => Settled(o, j, b) \in Owners
  BY <1>1, SettledIs
<1>4. Recorded(h).vault.revision <= MaxRevision
  BY DEF SettleRounds
<1>5. Settled(o, j, b).vault.revision \in Revisions
  BY <1>1, <1>2, <1>3, <1>4 DEF Credential, Revisions
<1>6. op[h].pc = "settling" /\ own[h].child = NoVault /\ ~(op[h].guarded /\ op[h].lost)
  BY DEF SettleRounds, Settling, Pc
<1> QED
  BY <1>2, <1>3, <1>5, <1>6 DEF Told, b, j, o

\* The settlement's publication.
LEMMA SettlePublishIs ==
  ASSUME Typed, NEW h \in Replicas, NEW reply \in BOOLEAN, SettlePublish(h, reply),
         UNCHANGED scope
  PROVE  /\ Moves(h) /\ left' = TTL /\ HistoryKept /\ Renewable(MyLease(h))
         /\ op[h].pc = "settling" /\ own[h].child = NoVault
         /\ own'[h] = Recorded(h) /\ Told(own'[h], own[h], own[h].journal, op[h].before)
         /\ \/ FencedWrite(MyLease(h), own'[h].vault.revision, own'[h].vault.vault, "none", reply)
            \/ FencedRewrite(MyLease(h), own'[h].vault.revision, own'[h].vault.vault, "none", reply)
         /\ op'[h].pc \in {"settling", "closing"} /\ SameWork(op'[h], op[h])
<1> DEFINE o == Recorded(h)
           p == IF reply THEN [op[h] EXCEPT !.pc = "closing"] ELSE op[h]
<1>1. op[h] \in Ops
  BY Present
<1>2. /\ o \in Owners /\ op[h].pc = "settling" /\ own[h].child = NoVault
      /\ Told(o, own[h], own[h].journal, op[h].before)
  BY RecordedIs DEF SettlePublish
<1>3. p \in Ops /\ p.pc \in {"settling", "closing"} /\ SameWork(p, op[h])
  BY <1>1, <1>2, Moved DEF Phases, SameWork
<1>4. own' = [own EXCEPT ![h] = o] /\ op' = [op EXCEPT ![h] = p]
  BY Present DEF SettlePublish, SetOwn, Goto
<1>5. \/ FencedWrite(MyLease(h), o.vault.revision, o.vault.vault, "none", reply)
      \/ FencedRewrite(MyLease(h), o.vault.revision, o.vault.vault, "none", reply)
  BY DEF SettlePublish
<1>6. left' = TTL /\ HistoryKept /\ Renewable(MyLease(h))
  BY DEF SettlePublish, HistoryKept
<1> HIDE DEF o, p
<1>7. Moves(h) /\ own'[h] = o /\ op'[h] = p
  BY <1>2, <1>3, <1>4, Stepped
<1> QED
  BY <1>2, <1>3, <1>5, <1>6, <1>7 DEF o

\* The settlement's write is refused, or its lease is gone.
LEMMA SettleOverIs ==
  ASSUME Typed, NEW h \in Replicas, UNCHANGED scope,
         (\E lands \in BOOLEAN : SettleRejected(h, lands)) \/ SettleUnrenewable(h)
  PROVE  /\ Moves(h) /\ HistoryKept /\ SettleRounds(h)
         /\ op[h].pc = "settling" /\ own[h].child = NoVault
         /\ ~(op[h].guarded /\ op[h].lost)
         /\ Told(own'[h], own[h], own[h].journal, op[h].before) /\ ~Usable(own'[h])
         /\ op'[h].pc = "idle"
         /\ \/ /\ Renewable(MyLease(h)) /\ SettleRefused(h)
               /\ \/ ReleaseLease(MyLease(h)) /\ left' = 0
                  \/ UNCHANGED vars /\ left' = TTL
            \/ ~Renewable(MyLease(h)) /\ account.status # "removed" /\ Quiet
<1>1. SettleRounds(h) /\ HistoryKept /\ Finish(h) /\ SetOwn(h, Fenced(Recorded(h)))
  BY DEF SettleRejected, SettleUnrenewable, HistoryKept
<1>2. /\ Recorded(h) \in Owners /\ op[h].pc = "settling" /\ own[h].child = NoVault
      /\ ~(op[h].guarded /\ op[h].lost)
      /\ Told(Recorded(h), own[h], own[h].journal, op[h].before)
  BY <1>1, RecordedIs
<1> DEFINE r == Recorded(h)
           o == Fenced(r)
<1>3. r \in Owners /\ Told(r, own[h], own[h].journal, op[h].before)
  BY <1>2
<1> HIDE DEF r
<1>4. o \in Owners /\ Told(o, own[h], own[h].journal, op[h].before) /\ ~Usable(o)
  BY <1>3, FencedIs DEF Told
<1>5. own' = [own EXCEPT ![h] = o]
  BY <1>1 DEF SetOwn, r
<1> HIDE DEF o
<1>6. Moves(h) /\ own'[h] = o /\ op'[h].pc = "idle"
  BY <1>1, <1>4, <1>5, FinishIs
<1>7. \/ /\ Renewable(MyLease(h)) /\ SettleRefused(h)
         /\ \/ ReleaseLease(MyLease(h)) /\ left' = 0
            \/ UNCHANGED vars /\ left' = TTL
      \/ ~Renewable(MyLease(h)) /\ account.status # "removed" /\ Quiet
  BY DEF SettleRejected, SettleUnrenewable, Quiet
<1> QED
  BY <1>1, <1>2, <1>4, <1>6, <1>7

\* Custody released on a removed account.
LEMMA SettleRemovedIs ==
  ASSUME Typed, NEW h \in Replicas, NEW lands \in BOOLEAN, SettleRemoved(h, lands),
         UNCHANGED scope
  PROVE  /\ Moves(h) /\ Released(h, lands) /\ HistoryKept
         /\ op[h].pc = "settling" /\ op'[h].pc = "idle" /\ account.status = "removed"
         /\ Shut(own'[h], own[h])
<1> DEFINE o == StoppedRemoved(own[h])
<1>1. o \in Owners /\ Shut(o, own[h])
  BY Present, StoppedIs DEF Shut, SameCredential
<1>2. own' = [own EXCEPT ![h] = o]
  BY DEF SettleRemoved, SetOwn
<1> HIDE DEF o
<1>3. Moves(h) /\ own'[h] = o /\ op'[h].pc = "idle"
  BY <1>1, <1>2, FinishIs DEF SettleRemoved
<1> QED
  BY <1>1, <1>3 DEF SettleRemoved, HistoryKept, Settling, Pc

\* The settled owner is reopened as its outcome says.
LEMMA SettleCloseIs ==
  ASSUME Typed, NEW h \in Replicas, NEW lands \in BOOLEAN, SettleClose(h, lands),
         UNCHANGED scope
  PROVE  /\ Moves(h) /\ Released(h, lands) /\ HistoryKept
         /\ op[h].pc = "closing" /\ op'[h].pc = "idle"
         /\ SameCredential(own'[h], own[h]) /\ own'[h].child = own[h].child
<1> DEFINE o == Reopened(own[h], op[h].kind)
<1>1. own[h] \in Owners
  BY Present
<1>2. /\ o \in Owners /\ SameCredential(o, own[h]) /\ o.child = own[h].child
  BY <1>1 DEF Reopened, Owners, SameCredential
<1>3. own' = [own EXCEPT ![h] = o]
  BY DEF SettleClose, SetOwn
<1> HIDE DEF o
<1>4. Moves(h) /\ own'[h] = o /\ op'[h].pc = "idle"
  BY <1>2, <1>3, FinishIs DEF SettleClose
<1> QED
  BY <1>2, <1>4 DEF SettleClose, HistoryKept, Pc

\* The claim of a recovery.
LEMMA RecoverAcquireIs ==
  ASSUME Typed, NEW h \in Replicas, NEW answered \in BOOLEAN, RecoverAcquire(h, answered),
         UNCHANGED scope
  PROVE  /\ Moves(h) /\ AcquireLease(Me(h)) /\ left' = TTL /\ HistoryKept
         /\ op[h].pc = "idle" /\ scope.recovery /\ Recoverable(own[h])
         /\ \/ own' = own /\ op' = op
            \/ /\ own'[h].vault = Reconciled(own[h]).vault
               /\ own'[h].journal = Reconciled(own[h]).journal
               /\ own'[h].child = NoVault /\ Recoverable(own'[h])
               /\ op'[h].pc = "launching" /\ op'[h].epoch = lease.epoch + 1
               /\ op'[h].before = own'[h].vault /\ ~op'[h].guarded
<1>1. own[h] \in Owners /\ op[h] \in Ops /\ IInv /\ Imported
  BY Present
<1>2. /\ AcquireLease(Me(h)) /\ left' = TTL /\ HistoryKept
      /\ op[h].pc = "idle" /\ scope.recovery /\ Recoverable(own[h])
  BY DEF RecoverAcquire, HistoryKept, Pc
<1>3. CASE ~answered
  <2>1. own' = own /\ op' = op
    BY <1>3 DEF RecoverAcquire
  <2>2. Moves(h)
    BY <2>1 DEF Moves, Typed, CustodyTypeOK
  <2> QED
    BY <1>2, <2>1, <2>2
<1>4. CASE answered
  <2> DEFINE r == Reconciled(own[h])
             o == [r EXCEPT !.child = NoVault]
             a == [NoOp EXCEPT !.pc = "launching"]
             b == [a EXCEPT !.epoch = lease.epoch + 1]
             p == [b EXCEPT !.before = o.vault]
  <2>1. r \in Owners /\ r.available = own[h].available /\ r.refused = own[h].refused
        /\ r.retryable = own[h].retryable
    BY <1>1, ReconciledIs
  <2>2. own' = [own EXCEPT ![h] = o]
    BY <1>4 DEF RecoverAcquire, SetOwn
  <2>3. own'[h] = o
    BY <2>2 DEF Typed, CustodyTypeOK
  <2>4. op' = [op EXCEPT ![h] = p]
    <3>1. op' = [op EXCEPT ![h] = [NoOp EXCEPT !.pc = "launching", !.epoch = lease.epoch + 1,
                                               !.before = own'[h].vault]]
      BY <1>4 DEF RecoverAcquire
    <3>2. op' = [op EXCEPT ![h] = [NoOp EXCEPT !.pc = "launching", !.epoch = lease.epoch + 1,
                                               !.before = o.vault]]
      BY <2>3, <3>1
    <3> QED
      BY <3>2
  <2> HIDE DEF r
  <2>5. /\ o \in Owners /\ o.vault = r.vault /\ o.journal = r.journal /\ o.child = NoVault
        /\ Recoverable(o)
    BY <1>2, <2>1 DEF Owners, Recoverable
  <2>6. lease.epoch + 1 \in Epochs
    BY DEF RecoverAcquire, AcquireLease, Typed, IInv, TypeOK, LeaseRows, Epochs
  <2>7. a \in Ops /\ a.pc = "launching" /\ ~a.guarded
    BY NoOpTyped, Moved DEF Phases, SameWork, NoOp
  <2> HIDE DEF a, o
  <2>8. b \in Ops /\ b.pc = "launching" /\ ~b.guarded /\ b.epoch = lease.epoch + 1
    BY <2>6, <2>7 DEF Ops
  <2> HIDE DEF b
  <2>9. /\ p \in Ops /\ p.pc = "launching" /\ ~p.guarded /\ p.epoch = lease.epoch + 1
        /\ p.before = o.vault
    BY <2>5, <2>8 DEF Ops, Owners
  <2> HIDE DEF p
  <2>10. Moves(h) /\ own'[h] = o /\ op'[h] = p
    BY <2>2, <2>4, <2>5, <2>9, Stepped
  <2> QED
    BY <1>2, <2>5, <2>9, <2>10 DEF r
<1> QED
  BY <1>3, <1>4

\* The recovery's child starts from the journal.
LEMMA RecoverLaunchIs ==
  ASSUME Typed, NEW h \in Replicas, RecoverLaunch(h), UNCHANGED scope
  PROVE  /\ Moves(h) /\ Quiet /\ HistoryKept
         /\ op[h].pc = "launching" /\ Recoverable(own[h]) /\ account.status # "removed"
         /\ SameCredential(own'[h], own[h]) /\ own'[h].child = own[h].journal
         /\ op'[h].pc = "probing" /\ SameWork(op'[h], op[h])
<1> DEFINE p == [op[h] EXCEPT !.pc = "probing"]
           o == [own[h] EXCEPT !.child = own[h].journal, !.available = TRUE]
<1>1. own[h] \in Owners /\ op[h] \in Ops
  BY Present
<1>2. p \in Ops /\ p.pc = "probing" /\ SameWork(p, op[h])
  BY <1>1, Moved DEF Phases
<1>3. o \in Owners /\ SameCredential(o, own[h]) /\ o.child = own[h].journal
  <2> DEFINE q == [own[h] EXCEPT !.child = own[h].journal]
  <2>1. q \in Owners /\ SameCredential(q, own[h]) /\ q.child = own[h].journal
    BY <1>1, ChildIs DEF Owners
  <2>2. o = [q EXCEPT !.available = TRUE]
    OBVIOUS
  <2> HIDE DEF q
  <2> QED
    BY <2>1, <2>2 DEF Owners, SameCredential
<1>4. own' = [own EXCEPT ![h] = o] /\ op' = [op EXCEPT ![h] = p]
  BY DEF RecoverLaunch, SetOwn, Goto
<1> HIDE DEF o, p
<1>5. Moves(h) /\ own'[h] = o /\ op'[h] = p
  BY <1>2, <1>3, <1>4, Stepped
<1> QED
  BY <1>2, <1>3, <1>5 DEF RecoverLaunch, Quiet, HistoryKept, Pc

\* A recovery without a child, or with one that does not initialize.
LEMMA RecoverLaunchFailsIs ==
  ASSUME Typed, NEW h \in Replicas, NEW refused \in BOOLEAN,
         NEW child \in {NoVault, own[h].journal}, RecoverLaunchFails(h, refused, child),
         UNCHANGED scope
  PROVE  /\ Moves(h) /\ Quiet /\ HistoryKept
         /\ op[h].pc = "launching" /\ Recoverable(own[h])
         /\ SameCredential(own'[h], own[h]) /\ own'[h].child = child /\ ~Usable(own'[h])
         /\ op'[h].pc = "settling" /\ SameWork(op'[h], op[h])
<1> DEFINE o == [own[h] EXCEPT !.child = child]
           kind == IF refused THEN "fenced" ELSE "retryable"
<1>1. o \in Owners /\ SameCredential(o, own[h]) /\ o.child = child /\ kind \in Kinds
  BY Present, ChildIs DEF Owners, Kinds
<1>2. Retain(h, o, kind)
  BY DEF RecoverLaunchFails
<1> HIDE DEF o, kind
<1>3. /\ Moves(h) /\ op'[h].pc = "settling" /\ SameWork(op'[h], op[h])
      /\ SameCredential(own'[h], o) /\ own'[h].child = o.child /\ ~Usable(own'[h])
  BY <1>1, <1>2, RetainIs
<1> QED
  BY <1>1, <1>3 DEF RecoverLaunchFails, Quiet, HistoryKept, Pc, SameCredential

\* A recovery that is called off.
LEMMA RecoverAbortIs ==
  ASSUME Typed, NEW h \in Replicas, NEW lands \in BOOLEAN, RecoverAbort(h, lands),
         UNCHANGED scope
  PROVE  /\ Moves(h) /\ Released(h, lands) /\ HistoryKept
         /\ op[h].pc = "launching" /\ op'[h].pc = "idle"
         /\ \/ own'[h] = own[h]
            \/ Shut(own'[h], own[h])
<1> DEFINE o == IF reach[h] /\ account.status = "removed"
                THEN StoppedRemoved(own[h]) ELSE own[h]
<1>1. own[h] \in Owners
  BY Present
<1>2. o \in Owners /\ (o = own[h] \/ Shut(o, own[h]))
  BY <1>1, StoppedIs DEF Shut, SameCredential
<1>3. own' = [own EXCEPT ![h] = o]
  BY DEF RecoverAbort, SetOwn
<1> HIDE DEF o
<1>4. Moves(h) /\ own'[h] = o /\ op'[h].pc = "idle"
  BY <1>2, <1>3, FinishIs DEF RecoverAbort
<1> QED
  BY <1>2, <1>4 DEF RecoverAbort, HistoryKept, Pc

\* The probe of the recovery's child.
LEMMA RecoverProbeIs ==
  ASSUME Typed, NEW h \in Replicas, NEW result \in Results, RecoverProbe(h, result),
         UNCHANGED scope
  PROVE  /\ Moves(h) /\ Quiet /\ HistoryKept
         /\ op[h].pc = "probing" /\ op'[h].pc = "settling" /\ SameWork(op'[h], op[h])
         /\ own'[h].journal = own[h].journal /\ own'[h].child = own[h].child
         /\ own'[h].vault.vault = own[h].journal /\ ~Usable(own'[h])
         /\ own'[h].vault.revision = IF own[h].journal # op[h].before.vault
                                     THEN op[h].before.revision + 1 ELSE own[h].vault.revision
<1> DEFINE o == AfterResult(own[h], result)
           revision == IF o.journal # op[h].before.vault THEN op[h].before.revision + 1
                       ELSE o.vault.revision
           c == [revision |-> revision, vault |-> o.journal]
           q == [o EXCEPT !.vault = c]
           kind == CASE Delivers(result) -> "available"
                     [] result = "retryable" -> "retryable"
                     [] OTHER -> "fenced"
<1>1. /\ own[h] \in Owners /\ op[h] \in Ops /\ own[h].journal \in Vaults
      /\ own[h].vault \in Credential /\ op[h].before \in Credential
  BY Present DEF Owners, Ops
<1>2. /\ o \in Owners /\ o.vault = own[h].vault /\ o.journal = own[h].journal
      /\ o.child = own[h].child
  BY <1>1, AfterResultIs DEF SameCredential
<1>3. revision <= MaxRevision /\ Retain(h, q, kind) /\ op[h].pc = "probing"
      /\ Quiet /\ HistoryKept
  BY DEF RecoverProbe, Pc, Quiet, HistoryKept
<1> HIDE DEF o
<1>4. c \in Credential /\ kind \in Kinds
  BY <1>1, <1>2, <1>3 DEF Credential, Revisions, Kinds
<1> HIDE DEF c, kind
<1>5. q \in Owners /\ q.vault = c /\ q.journal = o.journal /\ q.child = o.child
  BY <1>2, <1>4 DEF Owners
<1> HIDE DEF q
<1>6. /\ Moves(h) /\ op'[h].pc = "settling" /\ SameWork(op'[h], op[h])
      /\ SameCredential(own'[h], q) /\ own'[h].child = q.child /\ ~Usable(own'[h])
  BY <1>3, <1>4, <1>5, RetainIs
<1> QED
  BY <1>2, <1>3, <1>5, <1>6 DEF SameCredential, c

\* A process that dies.
LEMMA CrashIs ==
  ASSUME Typed, NEW h \in Replicas, Crash(h), UNCHANGED scope
  PROVE  /\ Moves(h) /\ Quiet /\ UNCHANGED <<reach, provider, delivered>> /\ GivesUp(h)
         /\ boot' \in [Replicas -> 0..MaxBoots]
         /\ \A k \in Replicas \ {h} : boot'[k] = boot[k]
         /\ op'[h].pc = "down" /\ Shut(own'[h], own[h])
<1> DEFINE f == Fenced(own[h])
           g == [f EXCEPT !.child = NoVault]
           o == [g EXCEPT !.retryable = FALSE]
           p == [NoOp EXCEPT !.pc = "down"]
<1>1. f \in Owners /\ SameCredential(f, own[h]) /\ f.refused /\ ~f.available
  BY Present, FencedIs DEF SameCredential
<1> HIDE DEF f
<1>2. g \in Owners /\ SameCredential(g, own[h]) /\ g.child = NoVault /\ g.refused /\ ~g.available
  BY <1>1 DEF SameCredential, Owners
<1> HIDE DEF g
<1>3. o \in Owners /\ Shut(o, own[h])
  BY <1>2 DEF Shut, SameCredential, Owners, Usable, Recoverable
<1>4. p \in Ops /\ p.pc = "down"
  BY NoOpTyped, Moved DEF Phases
<1>5. own' = [own EXCEPT ![h] = o] /\ op' = [op EXCEPT ![h] = p]
  BY DEF Crash, SetOwn, o, g, f
<1> HIDE DEF o, p
<1>6. Moves(h) /\ own'[h] = o /\ op'[h] = p
  BY <1>3, <1>4, <1>5, Stepped
<1>7. /\ boot \in [Replicas -> 0..MaxBoots] /\ boot[h] < scope.boots
      /\ boot' = [boot EXCEPT ![h] = boot[h] + 1] /\ scope.boots \in 0..MaxBoots
  BY DEF Crash, Typed, CustodyTypeOK
<1>8. /\ boot' \in [Replicas -> 0..MaxBoots]
      /\ \A k \in Replicas \ {h} : boot'[k] = boot[k]
  BY <1>7
<1> QED
  BY <1>3, <1>4, <1>6, <1>8 DEF Crash, Quiet

\* A process that starts again.
LEMMA BootIs ==
  ASSUME Typed, NEW h \in Replicas, Boot(h), UNCHANGED scope
  PROVE  /\ Moves(h) /\ Quiet /\ HistoryKept
         /\ op[h].pc = "down" /\ op'[h].pc = "idle"
         /\ \/ account.status # "active" /\ own'[h] = own[h]
            \/ /\ account.status = "active"
               /\ own'[h].child = own[h].child /\ own'[h].journal = own'[h].vault.vault
               /\ \/ /\ account.revision > own[h].vault.revision
                     /\ own'[h].vault.revision = account.revision
                     /\ own'[h].vault.vault = IF own[h].journal > account.vault
                                              THEN own[h].journal ELSE account.vault
                  \/ /\ account.revision <= own[h].vault.revision
                     /\ own'[h].vault.revision = own[h].vault.revision
                     /\ own'[h].vault.vault = IF own[h].journal > own[h].vault.vault
                                              THEN own[h].journal ELSE own[h].vault.vault
<1> DEFINE q == own[h]
           newer == account.revision > q.vault.revision
           c == IF newer THEN [revision |-> account.revision, vault |-> account.vault]
                ELSE q.vault
           v == IF q.journal > c.vault THEN q.journal ELSE c.vault
           w == [c EXCEPT !.vault = v]
           o1 == [q EXCEPT !.vault = w]
           o2 == [o1 EXCEPT !.journal = v]
           o3 == [o2 EXCEPT !.available = TRUE]
           o4 == [o3 EXCEPT !.refused = FALSE]
<1>1. /\ q \in Owners /\ q.vault \in Credential /\ q.journal \in Vaults
      /\ account.revision \in Revisions /\ account.vault \in Vaults
  BY Present DEF Owners, IInv, TypeOK, Accounts, Imported
<1>2. Quiet /\ HistoryKept /\ op[h].pc = "down" /\ Finish(h)
  BY DEF Boot, Quiet, HistoryKept, Pc
<1>3. CASE account.status # "active"
  <2>1. own' = [own EXCEPT ![h] = q]
    BY <1>3 DEF Boot, SetOwn
  <2> HIDE DEF q
  <2>2. Moves(h) /\ own'[h] = q /\ op'[h].pc = "idle"
    BY <1>1, <1>2, <2>1, FinishIs
  <2> QED
    BY <1>2, <1>3, <2>2 DEF q
<1>4. CASE account.status = "active"
  <2>1. own' = [own EXCEPT ![h] = o4]
    BY <1>4 DEF Boot, SetOwn, Booted
  <2> HIDE DEF q
  <2>2. c \in Credential
    BY <1>1 DEF Credential
  <2>3. c.vault = (IF newer THEN account.vault ELSE q.vault.vault)
        /\ c.revision = (IF newer THEN account.revision ELSE q.vault.revision)
    OBVIOUS
  <2> HIDE DEF c
  <2>4. v \in Vaults
    BY <1>1, <2>2 DEF Credential
  <2> DEFINE vv == v
  <2>5. w \in Credential /\ w.vault = v /\ w.revision = c.revision
    BY <2>2, <2>4 DEF Credential
  <2> HIDE DEF w, v
  <2>6. o1 \in Owners /\ o1.vault = w /\ o1.child = q.child
    BY <1>1, <2>5 DEF Owners
  <2> HIDE DEF o1
  <2>7. o2 \in Owners /\ o2.vault = w /\ o2.child = q.child /\ o2.journal = v
    BY <2>4, <2>6 DEF Owners
  <2> HIDE DEF o2
  <2>8. o3 \in Owners /\ o3.vault = w /\ o3.child = q.child /\ o3.journal = v
    BY <2>7 DEF Owners
  <2> HIDE DEF o3
  <2>9. o4 \in Owners /\ o4.vault = w /\ o4.child = q.child /\ o4.journal = v
    BY <2>8 DEF Owners
  <2> HIDE DEF o4
  <2>10. Moves(h) /\ own'[h] = o4 /\ op'[h].pc = "idle"
    BY <1>2, <2>1, <2>9, FinishIs
  <2>11. /\ own'[h].child = own[h].child /\ own'[h].journal = own'[h].vault.vault
         /\ own'[h].vault.revision = c.revision /\ own'[h].vault.vault = v
    BY <2>5, <2>9, <2>10 DEF q
  <2>12. CASE account.revision > q.vault.revision
    BY <1>2, <1>4, <2>3, <2>10, <2>11, <2>12 DEF q, v
  <2>13. CASE ~(account.revision > q.vault.revision)
    <3>1. account.revision <= q.vault.revision
      BY <1>1, <2>13 DEF Credential, Revisions
    <3> QED
      BY <1>2, <1>4, <2>3, <2>10, <2>11, <2>13, <3>1 DEF q, v
  <2> QED
    BY <2>12, <2>13
<1> QED
  BY <1>3, <1>4

\* A removal of the account at this replica.
LEMMA RemoveHereIs ==
  ASSUME Typed, NEW h \in Replicas, NEW commits \in BOOLEAN, RemoveHere(h, commits),
         UNCHANGED scope
  PROVE  /\ Moves(h) /\ UNCHANGED <<reach, boot, provider, delivered>> /\ op' = op
         /\ KillForfeits(h) /\ op[h].pc \in {"idle", "settling", "launching"}
         /\ own'[h].child = NoVault /\ own'[h].journal = own[h].journal
         /\ own'[h].vault.revision = own[h].vault.revision
         /\ own'[h].vault.vault = IF own[h].child = NoVault THEN own[h].vault.vault
                                  ELSE own[h].journal
         /\ Usable(own'[h]) => Usable(own[h])
         /\ \/ /\ RemoveAccount(Me(h)) /\ left' = (IF lease'.live THEN left ELSE 0)
               /\ ~Usable(own'[h])
            \/ Quiet
<1> DEFINE v == IF own[h].child = NoVault THEN own[h].vault.vault ELSE own[h].journal
           c == [own[h] EXCEPT !.child = NoVault]
           o == [c EXCEPT !.vault.vault = v]
           q == IF commits THEN StoppedRemoved(o) ELSE o
<1>1. own[h] \in Owners /\ op[h] \in Ops /\ own[h].vault \in Credential /\ v \in Vaults
  BY Present DEF Owners, Credential
<1>2. /\ c \in Owners /\ c.child = NoVault /\ c.journal = own[h].journal
      /\ c.vault = own[h].vault /\ Usable(c) = Usable(own[h])
  BY <1>1, ChildIs DEF SameCredential
<1>3. own' = [own EXCEPT ![h] = q] /\ op' = [op EXCEPT ![h] = op[h]]
  BY Present DEF RemoveHere, SetOwn
<1> HIDE DEF v, c
<1>4. /\ o \in Owners /\ o.child = NoVault /\ o.journal = own[h].journal
      /\ o.vault.revision = own[h].vault.revision /\ o.vault.vault = v
      /\ Usable(o) = Usable(own[h])
  <2> DEFINE w == [c.vault EXCEPT !.vault = v]
  <2>1. w \in Credential /\ w.vault = v /\ w.revision = own[h].vault.revision
    BY <1>1, <1>2 DEF Credential
  <2>2. o = [c EXCEPT !.vault = w]
    OBVIOUS
  <2> HIDE DEF w, o
  <2> QED
    BY <1>2, <2>1, <2>2 DEF Owners, Usable, Recoverable
<1> HIDE DEF o
<1>5. /\ q \in Owners /\ q.child = NoVault /\ q.journal = own[h].journal
      /\ q.vault.revision = own[h].vault.revision /\ q.vault.vault = v
      /\ Usable(q) => Usable(own[h])
      /\ commits => ~Usable(q)
  BY <1>4, StoppedIs
<1> HIDE DEF q
<1>6. Moves(h) /\ own'[h] = q
  BY <1>1, <1>3, <1>5, Stepped
<1>7. \/ /\ RemoveAccount(Me(h)) /\ left' = (IF lease'.live THEN left ELSE 0)
         /\ ~Usable(own'[h])
      \/ Quiet
  BY <1>5, <1>6 DEF RemoveHere, Quiet
<1> QED
  BY <1>5, <1>6, <1>7 DEF RemoveHere, Pc, v

\* A renewal, or an interval without one, moves the window only.
LEMMA RenewedIs ==
  ASSUME Typed, NEW h \in Replicas, NEW renewed
  PROVE  /\ Renewed(h, renewed) \in Ops /\ Renewed(h, renewed).pc = op[h].pc
         /\ Renewed(h, renewed).epoch = op[h].epoch
         /\ Renewed(h, renewed).before = op[h].before
         /\ Renewed(h, renewed).guarded = op[h].guarded
         /\ Renewed(h, renewed).result = op[h].result
<1> DEFINE q == op[h]
           w == IF q.window = 0 THEN 0 ELSE q.window - 1
           a == [q EXCEPT !.window = w]
<1>1. q \in Ops /\ w \in 0..TTL /\ TTL \in 0..TTL
  BY Present DEF Ops
<1>2. CASE ~(Renewing(h) /\ op[h].guarded)
  BY <1>1, <1>2 DEF Renewed
<1>3. CASE Renewing(h) /\ op[h].guarded /\ h \in renewed
  <2>1. Renewed(h, renewed) = [q EXCEPT !.window = TTL]
    BY <1>3 DEF Renewed
  <2> HIDE DEF q
  <2> QED
    BY <1>1, <2>1 DEF Ops, q
<1>4. CASE Renewing(h) /\ op[h].guarded /\ h \notin renewed /\ reach[h]
  <2>1. Renewed(h, renewed) = [q EXCEPT !.lost = TRUE]
    BY <1>4 DEF Renewed
  <2> HIDE DEF q
  <2> QED
    BY <1>1, <2>1 DEF Ops, q
<1>5. CASE Renewing(h) /\ op[h].guarded /\ h \notin renewed /\ ~reach[h]
  <2> DEFINE x == q.lost \/ WindowOver(w)
  <2>1. Renewed(h, renewed) = [a EXCEPT !.lost = x]
    BY <1>5 DEF Renewed
  <2>2. x \in BOOLEAN
    BY <1>1 DEF Ops, WindowOver
  <2> HIDE DEF w, x
  <2>3. /\ a \in Ops /\ a.pc = q.pc /\ a.epoch = q.epoch /\ a.before = q.before
        /\ a.guarded = q.guarded /\ a.result = q.result
    <3> HIDE DEF q
    <3> QED
      BY <1>1 DEF Ops
  <2> HIDE DEF a
  <2> QED
    BY <2>1, <2>2, <2>3 DEF Ops
<1> QED
  BY <1>2, <1>3, <1>4, <1>5

\* An interval passes: windows and the lease run down, or are renewed.
LEMMA TickIs ==
  ASSUME Typed, Tick, UNCHANGED scope
  PROVE  /\ own' = own /\ HistoryKept /\ StoreKept /\ RowKept /\ LeaseTimed
         /\ op' \in [Replicas -> Ops]
         /\ \A k \in Replicas :
              /\ op'[k].pc = op[k].pc /\ op'[k].epoch = op[k].epoch
              /\ op'[k].before = op[k].before /\ op'[k].guarded = op[k].guarded
              /\ op'[k].result = op[k].result
<1> DEFINE renewed == {h \in Replicas : Renewing(h) /\ reach[h] /\ Renewable(MyLease(h))}
<1>1. /\ IInv /\ Imported /\ left \in 0..TTL /\ (lease.live <=> left > 0)
  BY DEF Typed, CustodyTypeOK
<1>2. /\ left' = (IF renewed # {} THEN TTL ELSE IF left = 0 THEN 0 ELSE left - 1)
      /\ IF left > 0 /\ left' = 0 THEN Expire ELSE UNCHANGED vars
      /\ op' = [h \in Replicas |-> Renewed(h, renewed)]
      /\ own' = own /\ HistoryKept
  BY DEF Tick, HistoryKept
<1>3. renewed # {} => left > 0
  BY <1>1 DEF Renewable, LeaseValid
<1> HIDE DEF renewed
<1>4. left' \in 0..TTL /\ (left = 0 => left' = 0)
  BY <1>1, <1>2, <1>3
<1>5. StoreKept /\ RowKept /\ (lease'.live <=> left' > 0)
  <2>1. CASE left > 0 /\ left' = 0
    <3>1. Expire
      BY <1>2, <2>1
    <3>2. IInv' /\ RowKept /\ handles' = handles /\ ~lease'.live
      BY <1>1, <3>1, LapseIInv DEF Expire, RowKept, IInv, TypeOK, LeaseRows
    <3> QED
      BY <1>1, <2>1, <3>2 DEF StoreKept, RowKept, Imported
  <2>2. CASE ~(left > 0 /\ left' = 0)
    <3>1. UNCHANGED vars
      BY <1>2, <2>2
    <3>2. StoreKept /\ RowKept /\ lease' = lease
      BY <1>1, <3>1, QuietStore
    <3> QED
      BY <1>1, <1>4, <2>2, <3>2
  <2> QED
    BY <2>1, <2>2
<1>6. op' \in [Replicas -> Ops] /\ \A k \in Replicas : op'[k] = Renewed(k, renewed)
  BY <1>2, RenewedIs
<1> QED
  BY <1>2, <1>4, <1>5, <1>6, RenewedIs DEF LeaseTimed

\* The network is lost or comes back.
LEMMA PartitionIs ==
  ASSUME Typed, NEW h \in Replicas, Partition(h), UNCHANGED scope
  PROVE  /\ Moves(h) /\ Quiet /\ UNCHANGED <<own, op, boot, provider, delivered, forfeited>>
         /\ reach' \in [Replicas -> BOOLEAN]
  BY DEF Partition, Quiet, Moves, Typed, CustodyTypeOK

---------------------------------------------------------------------------
(* Types, the place of a child and of a lease, and the working credential. *)

HistoryTyped ==
  /\ reach' \in [Replicas -> BOOLEAN] /\ boot' \in [Replicas -> 0..MaxBoots]
  /\ provider' \in Vaults /\ delivered' \subseteq Vaults /\ forfeited' \in BOOLEAN

\* What a step of one replica has to show.
LEMMA LocalTyped ==
  ASSUME Typed, NEW h \in Replicas, Moves(h), HistoryTyped, StoreKept, LeaseTimed,
         \A k \in Replicas \ {h} : boot'[k] = boot[k], Placed(h)', Agreeing(h)'
  PROVE  Typed'
<1>1. CustodyTypeOK'
  BY DEF Typed, CustodyTypeOK, Moves, HistoryTyped, LeaseTimed
<1>2. ASSUME NEW k \in Replicas PROVE Placed(k)' /\ Agreeing(k)'
  <2>1. CASE k = h
    BY <2>1
  <2>2. CASE k # h
    <3>1. /\ own'[k] = own[k] /\ op'[k] = op[k] /\ boot'[k] = boot[k] /\ Placed(k) /\ Agreeing(k)
          /\ scope' = scope
      BY <2>2 DEF Moves, Typed
    <3>2. MyLease(k)' = MyLease(k) /\ Pc(k)' = Pc(k) /\ Top(k)' = Top(k)
      BY <3>1 DEF MyLease, Me, Pc, Top
    <3> QED
      BY <3>1, <3>2 DEF Placed, Agreeing, StoreKept
  <2> QED
    BY <2>1, <2>2
<1> QED
  BY <1>1, <1>2 DEF Typed, StoreKept

\* The histories of a step that leaves them alone.
LEMMA HistoryStays ==
  ASSUME Typed, HistoryKept
  PROVE  HistoryTyped /\ boot' = boot /\ \A h \in Replicas : Me(h)' = Me(h)
  BY DEF Typed, CustodyTypeOK, HistoryKept, HistoryTyped, Me

\* The rows and the lease of a step that leaves them alone.
LEMMA QuietStays ==
  ASSUME Typed, Quiet
  PROVE  StoreKept /\ RowKept /\ lease' = lease /\ LeaseTimed
<1>1. IInv /\ Imported /\ left \in 0..TTL /\ (lease.live <=> left > 0)
  BY DEF Typed, CustodyTypeOK
<1>2. StoreKept /\ RowKept /\ lease' = lease
  BY <1>1, QuietStore DEF Quiet
<1> QED
  BY <1>1, <1>2 DEF Quiet, LeaseTimed

\* A step of one replica that leaves the histories alone.
LEMMA PlainTyped ==
  ASSUME Typed, NEW h \in Replicas, Moves(h), HistoryKept, StoreKept, LeaseTimed,
         Placed(h)', Agreeing(h)'
  PROVE  Typed'
  BY LocalTyped, HistoryStays

\* An operation that ends, or a process that dies.
LEMMA EndedTyped ==
  ASSUME Typed, NEW h \in Replicas, Moves(h), HistoryTyped, StoreKept, LeaseTimed,
         \A k \in Replicas \ {h} : boot'[k] = boot[k],
         op'[h].pc \in {"idle", "down"}, own'[h].child = NoVault,
         Usable(own'[h]) => own'[h].journal = own'[h].vault.vault,
         op'[h].pc = "down" => ~Usable(own'[h])
  PROVE  Typed'
<1>1. Placed(h)' /\ Agreeing(h)'
  BY DEF Placed, Agreeing, Pc
<1> QED
  BY <1>1, LocalTyped

\* An operation that goes on under its lease.
LEMMA WorkingTyped ==
  ASSUME Typed, NEW h \in Replicas, Moves(h), HistoryTyped, StoreKept, LeaseTimed,
         boot' = boot, op[h].pc \notin {"idle", "down", "admitted"},
         op'[h].epoch = op[h].epoch,
         own'[h].child # NoVault => op'[h].pc \in {"native", "settling", "probing"},
         op'[h].pc \in {"native", "stopped"} => op'[h].guarded,
         op'[h].pc \in {"launching", "probing"} => ~op'[h].guarded /\ scope.recovery,
         op'[h].pc = "settling" => op'[h].guarded \/ scope.recovery,
         Agreeing(h)'
  PROVE  Typed'
<1>1. MyLease(h) \in handles'
  BY Identity DEF Pc, StoreKept
<1>2. MyLease(h)' = MyLease(h) /\ scope' = scope
  BY DEF MyLease, Me, Moves
<1>3. Placed(h)'
  BY <1>1, <1>2 DEF Placed, Pc
<1> QED
  BY <1>3, LocalTyped

\* The steps of a request before its baseline.
LEMMA AdmissionTyped ==
  ASSUME Typed, NEW h \in Replicas, UNCHANGED scope,
         \/ TokenAdmit(h) \/ TokenRemoved(h) \/ TokenContended(h)
         \/ \E answered \in BOOLEAN : TokenAcquire(h, answered)
  PROVE  Typed'
<1>1. /\ own[h] \in Owners /\ op[h] \in Ops /\ IInv /\ Imported /\ Placed(h) /\ Agreeing(h)
  BY Present
<1>2. CASE TokenAdmit(h)
  <2>1. /\ Moves(h) /\ Quiet /\ HistoryKept /\ op[h].pc \in {"idle", "launching"}
        /\ own'[h] = Reconciled(own[h]) /\ SameWork(op'[h], op[h])
        /\ \/ op'[h].pc = op[h].pc
           \/ op[h].pc = "idle" /\ op'[h].pc = "admitted" /\ own[h].available
    BY <1>2, TokenAdmitIs
  <2>2. StoreKept /\ LeaseTimed /\ boot' = boot
    BY <2>1, QuietStays DEF HistoryKept
  <2>3. /\ own'[h].available = own[h].available /\ Usable(own'[h]) = Usable(own[h])
        /\ own'[h].child \in {own[h].child, NoVault}
        /\ \/ own'[h].journal = own'[h].vault.vault
           \/ own'[h] = own[h]
    BY <1>1, <2>1, ReconciledIs DEF Usable, Recoverable
  <2>4. Placed(h)'
    BY <1>1, <2>1, <2>2, <2>3 DEF Placed, Pc, MyLease, Me, SameWork, StoreKept, Moves
  <2>5. Agreeing(h)'
    BY <1>1, <2>1, <2>3 DEF Agreeing, Pc, Usable
  <2> QED
    BY <2>1, <2>2, <2>4, <2>5, PlainTyped
<1>3. CASE TokenRemoved(h)
  <2>1. /\ Moves(h) /\ Quiet /\ HistoryKept /\ op' = op /\ op[h].pc = "idle"
        /\ Shut(own'[h], own[h])
    BY <1>3, TokenRemovedIs
  <2> QED
    BY <2>1, QuietStays, HistoryStays, EndedTyped DEF Shut
<1>4. CASE TokenContended(h)
  <2>1. /\ Moves(h) /\ Quiet /\ HistoryKept
        /\ op[h].pc = "admitted" /\ op'[h].pc = "idle"
        /\ \/ own'[h] = own[h]
           \/ Shut(own'[h], own[h])
    BY <1>4, TokenContendedIs
  <2>2. /\ own'[h].child = NoVault
        /\ Usable(own'[h]) => own'[h].journal = own'[h].vault.vault
    BY <1>1, <2>1 DEF Shut, Placed, Agreeing, Pc
  <2> QED
    BY <2>1, <2>2, QuietStays, HistoryStays, EndedTyped
<1>5. ASSUME NEW answered \in BOOLEAN, TokenAcquire(h, answered) PROVE Typed'
  <2>1. /\ Moves(h) /\ AcquireLease(Me(h)) /\ left' = TTL /\ HistoryKept
        /\ op[h].pc = "admitted" /\ own' = own
        /\ \/ op'[h].pc = "idle"
           \/ op'[h].pc = "leased" /\ op'[h].epoch = lease.epoch + 1
    BY <1>5, TokenAcquireIs
  <2>2. /\ StoreKept /\ LeaseTimed
        /\ [holder |-> Me(h), epoch |-> lease.epoch + 1] \in handles'
    BY <2>1, AcquiredStore
  <2>3. Me(h)' = Me(h)
    BY <2>1, HistoryStays
  <2>4. Placed(h)'
    BY <1>1, <2>1, <2>2, <2>3 DEF Placed, Pc, MyLease
  <2>5. Agreeing(h)'
    BY <1>1, <2>1 DEF Agreeing, Pc, Usable
  <2> QED
    BY <2>1, <2>2, <2>4, <2>5, PlainTyped
<1> QED
  BY <1>2, <1>3, <1>4, <1>5

\* The steps of a request under its lease, before the child.
LEMMA BaselineTyped ==
  ASSUME Typed, NEW h \in Replicas, UNCHANGED scope,
         \/ TokenBaseline(h)
         \/ \E lands \in BOOLEAN : TokenBaselineFails(h, lands) \/ TokenServedUnderLease(h, lands)
  PROVE  Typed'
<1>1. /\ own[h] \in Owners /\ op[h] \in Ops /\ IInv /\ Imported /\ Placed(h) /\ Agreeing(h)
  BY Present
<1>2. op[h].pc = "leased" =>
        /\ own[h].child = NoVault /\ own[h].journal = own[h].vault.vault
        /\ Reconciled(own[h]).child = NoVault
        /\ Reconciled(own[h]).journal = Reconciled(own[h]).vault.vault
  BY <1>1, ReconciledIs DEF Placed, Agreeing, Pc, Usable
<1>3. CASE TokenBaseline(h)
  <2>1. /\ Moves(h) /\ Quiet /\ HistoryKept
        /\ op[h].pc = "leased" /\ own'[h] = Reconciled(own[h])
        /\ op'[h].pc = "native" /\ op'[h].before = own'[h].vault
        /\ op'[h].epoch = op[h].epoch /\ op'[h].guarded
    BY <1>3, TokenBaselineIs
  <2>2. Agreeing(h)'
    BY <1>2, <2>1 DEF Agreeing, Pc, Top
  <2>3. StoreKept /\ LeaseTimed /\ HistoryTyped /\ boot' = boot
    BY <2>1, QuietStays, HistoryStays
  <2> QED
    BY <2>1, <2>2, <2>3, WorkingTyped
<1>4. ASSUME NEW lands \in BOOLEAN, TokenBaselineFails(h, lands) PROVE Typed'
  <2>1. /\ Moves(h) /\ Released(h, lands) /\ HistoryKept
        /\ op[h].pc = "leased" /\ own' = own /\ op'[h].pc = "idle"
    BY <1>4, TokenBaselineFailsIs
  <2>2. StoreKept /\ LeaseTimed
    BY <2>1, ReleasedStore DEF Pc
  <2>3. HistoryTyped /\ boot' = boot
    BY <2>1, HistoryStays
  <2> QED
    BY <1>2, <2>1, <2>2, <2>3, EndedTyped
<1>5. ASSUME NEW lands \in BOOLEAN, TokenServedUnderLease(h, lands) PROVE Typed'
  <2>1. /\ Moves(h) /\ Released(h, lands) /\ UNCHANGED <<reach, boot, provider, forfeited>>
        /\ op[h].pc = "leased" /\ op'[h].pc = "idle"
        /\ own'[h] = Reconciled(own[h]) /\ delivered' = delivered \cup {account.vault}
    BY <1>5, TokenServedUnderLeaseIs
  <2>2. StoreKept /\ LeaseTimed
    BY <2>1, ReleasedStore DEF Pc
  <2>3. HistoryTyped
    BY <1>1, <2>1 DEF Typed, CustodyTypeOK, HistoryTyped, Imported
  <2> QED
    BY <1>2, <2>1, <2>2, <2>3, EndedTyped
<1> QED
  BY <1>3, <1>4, <1>5

\* Withdrawing the evidence leaves the other rows.
LEMMA EvidenceStore ==
  ASSUME Typed, NEW h \in Replicas, NEW result, EvidenceOnly, WithdrawEvidence(h, result),
         left' = left
  PROVE  StoreKept /\ RowKept /\ lease' = lease /\ LeaseTimed
<1>1. IInv /\ Imported /\ left \in 0..TTL /\ (lease.live <=> left > 0) /\ evidence \in EvidenceRows
  BY DEF Typed, CustodyTypeOK, IInv, TypeOK
<1>2. IInv'
  <2>1. CASE evidence' = evidence
    BY <1>1, <2>1, QuietStore DEF EvidenceOnly, vars, StoreKept
  <2>2. CASE evidence.active /\ evidence' = [evidence EXCEPT !.active = FALSE]
    BY <1>1, <2>2, OtherIInv DEF EvidenceOnly, ClearTokenEvidence
  <2>3. CASE ~evidence.active /\ evidence' = [evidence EXCEPT !.active = FALSE]
    <3>1. ~evidence'.active /\ evidence' \in EvidenceRows
      BY <1>1, <2>3 DEF EvidenceRows
    <3> QED
      BY <1>1, <3>1 DEF EvidenceOnly, IInv, TypeOK, GrantsOrdered, ReleasedNotLive, RowCommitted,
         RemovedUnleased, AckedCommitted, EvidenceTruthful
  <2> QED
    BY <2>1, <2>2, <2>3 DEF WithdrawEvidence
<1> QED
  BY <1>1, <1>2 DEF EvidenceOnly, StoreKept, RowKept, LeaseTimed, Imported

\* The record of a stopped child leaves credential and journal alike.
LEMMA ToldAgrees ==
  \A o, q, j, b : Told(o, q, j, b) => o.journal = o.vault.vault /\ o.child = NoVault
  BY DEF Told

\* Custody retained.
LEMMA RetiresTyped ==
  ASSUME Typed, NEW h \in Replicas, Retires(h), HistoryTyped, StoreKept, LeaseTimed,
         boot' = boot, op[h].pc \in {"native", "stopped"}
  PROVE  Typed'
<1>1. Placed(h)
  BY Present
<1>2. Agreeing(h)'
  BY DEF Retires, Agreeing, Pc
<1> QED
  BY <1>1, <1>2, WorkingTyped DEF Retires, SameWork, Placed, Pc

\* The child of a request.
LEMMA NativeTyped ==
  ASSUME Typed, NEW h \in Replicas, UNCHANGED scope,
         \/ EnsureRefreshOwner(h) \/ EnsureRefreshOwnerFails(h)
         \/ \E result \in Results : NativeSettles(h, result) \/ NativeHangs(h, result)
  PROVE  Typed'
<1>1. /\ own[h] \in Owners /\ op[h] \in Ops /\ IInv /\ Imported /\ Placed(h) /\ Agreeing(h)
  BY Present
<1>2. CASE EnsureRefreshOwner(h)
  <2>1. /\ Moves(h) /\ Quiet /\ HistoryKept /\ op' = op
        /\ op[h].pc = "native" /\ own[h].child = NoVault
        /\ SameCredential(own'[h], own[h]) /\ own'[h].child = own[h].journal
    BY <1>2, EnsureRefreshOwnerIs
  <2>2. Agreeing(h)'
    BY <1>1, <2>1 DEF Agreeing, Pc, Top, SameCredential
  <2>3. StoreKept /\ LeaseTimed /\ HistoryTyped /\ boot' = boot
    BY <2>1, QuietStays, HistoryStays
  <2> QED
    BY <1>1, <2>1, <2>2, <2>3, WorkingTyped DEF Placed, Pc
<1>3. CASE EnsureRefreshOwnerFails(h)
  <2>1. Retires(h) /\ Quiet /\ HistoryKept /\ op[h].pc = "native"
    BY <1>3, EnsureRefreshOwnerFailsIs
  <2> QED
    BY <2>1, QuietStays, HistoryStays, RetiresTyped
<1>4. ASSUME NEW result \in Results, NativeHangs(h, result) PROVE Typed'
  <2>1. /\ Retires(h) /\ EvidenceOnly /\ left' = left /\ HistoryKept /\ op[h].pc = "native"
        /\ WithdrawEvidence(h, result)
    BY <1>4, NativeHangsIs
  <2> QED
    BY <2>1, EvidenceStore, HistoryStays, RetiresTyped
<1>5. ASSUME NEW result \in Results, NativeSettles(h, result) PROVE Typed'
  <2>1. /\ Moves(h) /\ EvidenceOnly /\ left' = left /\ HistoryKept
        /\ WithdrawEvidence(h, result)
        /\ op[h].pc = "native" /\ op'[h].pc = "stopped" /\ SameWork(op'[h], op[h])
        /\ Told(own'[h], own[h], own[h].child, op[h].before)
    BY <1>5, NativeSettlesIs
  <2>2. own'[h].journal = own'[h].vault.vault /\ own'[h].child = NoVault
    BY <2>1, ToldAgrees
  <2>3. Agreeing(h)'
    BY <2>1, <2>2 DEF Agreeing, Pc
  <2>4. StoreKept /\ LeaseTimed /\ HistoryTyped /\ boot' = boot
    BY <2>1, EvidenceStore, HistoryStays
  <2> QED
    BY <1>1, <2>1, <2>2, <2>3, <2>4, WorkingTyped DEF Placed, Pc, SameWork
<1> QED
  BY <1>2, <1>3, <1>4, <1>5

\* A publication of a working operation's own credential.
LEMMA PublishesStore ==
  ASSUME Typed, NEW h \in Replicas, NEW reply \in BOOLEAN, Publishes(h, reply),
         Pc(h) \notin {"idle", "down", "admitted"}, left' = left
  PROVE  /\ StoreKept /\ LeaseTimed /\ lease' = lease /\ account'.status = "active"
         /\ account.status = "active" /\ LeaseValid(MyLease(h))
         /\ account'.revision = own[h].vault.revision /\ account'.vault = own[h].vault.vault
         /\ committed'[own[h].vault.revision] = own[h].vault.vault
         /\ \/ /\ account.revision < own[h].vault.revision
               /\ committed' = [committed EXCEPT ![own[h].vault.revision] = own[h].vault.vault]
            \/ /\ account.revision = own[h].vault.revision
               /\ account.vault = own[h].vault.vault /\ RowKept
<1> DEFINE c == own[h].vault
           l == MyLease(h)
           obs == IF op[h].result = "ok" THEN "routing" ELSE "none"
<1>1. c \in Credential /\ l \in handles /\ obs \in Observations
  BY Present, Identity DEF Owners, Observations
<1>2. \/ FencedWrite(l, c.revision, c.vault, obs, reply)
      \/ FencedRewrite(l, c.revision, c.vault, obs, reply)
  BY DEF Publishes
<1> HIDE DEF c, l, obs
<1>3. /\ StoreKept /\ lease' = lease /\ account'.status = "active"
      /\ account.status = "active" /\ LeaseValid(l)
      /\ account'.revision = c.revision /\ account'.vault = c.vault
      /\ committed'[c.revision] = c.vault
      /\ \/ account.revision < c.revision /\ committed' = [committed EXCEPT ![c.revision] = c.vault]
         \/ account.revision = c.revision /\ account.vault = c.vault /\ RowKept
  BY <1>1, <1>2, PublishedStore
<1>4. LeaseTimed
  BY <1>3 DEF LeaseTimed, Typed, CustodyTypeOK
<1> QED
  BY <1>3, <1>4 DEF c, l

\* The publication of a request, and its answer.
LEMMA PublishTyped ==
  ASSUME Typed, NEW h \in Replicas, UNCHANGED scope,
         \/ TokenPublish(h) \/ TokenPublishRefused(h)
         \/ \E lands \in BOOLEAN : TokenPublishDeferred(h, lands) \/ TokenDeliver(h, lands)
  PROVE  Typed'
<1>1. /\ own[h] \in Owners /\ op[h] \in Ops /\ IInv /\ Imported /\ Placed(h) /\ Agreeing(h)
  BY Present
<1>2. CASE TokenPublish(h)
  <2>1. /\ Moves(h) /\ Publishes(h, TRUE) /\ left' = left /\ HistoryKept
        /\ op[h].pc = "stopped" /\ own' = own
        /\ op'[h].pc = "published" /\ SameWork(op'[h], op[h])
    BY <1>2, TokenPublishIs
  <2>2. StoreKept /\ LeaseTimed /\ HistoryTyped /\ boot' = boot
    BY <2>1, PublishesStore, HistoryStays DEF Pc
  <2>3. Agreeing(h)' /\ own'[h].child = NoVault
    BY <1>1, <2>1 DEF Agreeing, Placed, Pc
  <2> QED
    BY <2>1, <2>2, <2>3, WorkingTyped DEF SameWork
<1>3. CASE TokenPublishRefused(h)
  <2>1. /\ Quiet /\ HistoryKept /\ op[h].pc = "stopped" /\ Moves(h)
        /\ \/ /\ account.status = "removed" /\ op'[h].pc = "published"
              /\ op'[h].result = "none" /\ Shut(own'[h], own[h])
           \/ account.status # "removed" /\ Retires(h)
    BY <1>3, TokenPublishRefusedIs
  <2>2. StoreKept /\ LeaseTimed /\ HistoryTyped /\ boot' = boot
    BY <2>1, QuietStays, HistoryStays
  <2>3. CASE Retires(h)
    BY <2>1, <2>2, <2>3, RetiresTyped
  <2>4. CASE op'[h].pc = "published" /\ Shut(own'[h], own[h])
    <3>1. own' [h].child = NoVault /\ own'[h].journal = own'[h].vault.vault
      BY <1>1, <2>1, <2>4 DEF Shut, SameCredential, Agreeing, Pc
    <3>2. op'[h].epoch = op[h].epoch
      BY <1>3, <2>4 DEF TokenPublishRefused, Retain, Typed, CustodyTypeOK, Ops
    <3>3. Agreeing(h)'
      BY <2>4, <3>1 DEF Agreeing, Pc
    <3> QED
      BY <2>1, <2>2, <2>4, <3>1, <3>2, <3>3, WorkingTyped
  <2> QED
    BY <2>1, <2>3, <2>4
<1>4. ASSUME NEW lands \in BOOLEAN, TokenPublishDeferred(h, lands) PROVE Typed'
  <2>1. /\ Retires(h) /\ left' = left /\ HistoryKept /\ op[h].pc = "stopped"
        /\ \/ Publishes(h, FALSE)
           \/ UNCHANGED vars
    BY <1>4, TokenPublishDeferredIs
  <2>2. StoreKept /\ LeaseTimed
    <3>1. CASE Publishes(h, FALSE)
      BY <2>1, <3>1, PublishesStore DEF Pc
    <3>2. CASE UNCHANGED vars
      BY <2>1, <3>2, QuietStays DEF Quiet
    <3> QED
      BY <2>1, <3>1, <3>2
  <2> QED
    BY <2>1, <2>2, HistoryStays, RetiresTyped
<1>5. ASSUME NEW lands \in BOOLEAN, TokenDeliver(h, lands) PROVE Typed'
  <2>1. /\ Moves(h) /\ Released(h, lands) /\ UNCHANGED <<reach, boot, provider, forfeited>>
        /\ op[h].pc = "published" /\ op'[h].pc = "idle"
        /\ SameCredential(own'[h], own[h]) /\ own'[h].child = own[h].child
        /\ \/ delivered' = delivered
           \/ Delivers(op[h].result) /\ delivered' = delivered \cup {own[h].vault.vault}
    BY <1>5, TokenDeliverIs
  <2>2. StoreKept /\ LeaseTimed
    BY <2>1, ReleasedStore DEF Pc
  <2>3. HistoryTyped
    BY <1>1, <2>1 DEF Typed, CustodyTypeOK, HistoryTyped, Owners, Credential
  <2>4. own'[h].child = NoVault /\ own'[h].journal = own'[h].vault.vault
    BY <1>1, <2>1 DEF Placed, Agreeing, Pc, SameCredential
  <2> QED
    BY <2>1, <2>2, <2>3, <2>4, EndedTyped
<1> QED
  BY <1>2, <1>3, <1>4, <1>5

\* A step of the child or of its end that keeps the operation.
LEMMA SameOpTyped ==
  ASSUME Typed, NEW h \in Replicas, Moves(h), HistoryTyped, StoreKept, LeaseTimed,
         boot' = boot, op' = op,
         own'[h].child # NoVault => own[h].child # NoVault \/ op[h].pc = "native",
         Agreeing(h)'
  PROVE  Typed'
<1>1. Placed(h) /\ Me(h)' = Me(h) /\ MyLease(h)' = MyLease(h)
  BY Present DEF Me, MyLease
<1>2. Placed(h)'
  BY <1>1 DEF Placed, Pc, StoreKept, Moves
<1> QED
  BY <1>2, LocalTyped

\* The child, the provider and the end of the child.
LEMMA ChildTyped ==
  ASSUME Typed, NEW h \in Replicas, UNCHANGED scope,
         ChildRefresh(h) \/ ChildJournal(h) \/ SettleStop(h) \/ SettleKill(h) \/ LoseCustody(h)
  PROVE  Typed'
<1>1. /\ own[h] \in Owners /\ op[h] \in Ops /\ Placed(h) /\ Agreeing(h)
  BY Present
<1>2. CASE ChildRefresh(h)
  <2>1. /\ Moves(h) /\ Quiet /\ UNCHANGED <<reach, boot, delivered, forfeited>> /\ op' = op
        /\ own[h].child = provider /\ own[h].child # NoVault
        /\ provider' = provider + 1 /\ provider + 1 \in Vaults /\ RevisionLeft(h)
        /\ SameCredential(own'[h], own[h]) /\ own'[h].child = provider + 1
    BY <1>2, ChildRefreshIs
  <2>2. Agreeing(h)'
    BY <1>1, <2>1 DEF Agreeing, Placed, Pc, SameCredential, RevisionLeft
  <2>3. StoreKept /\ LeaseTimed /\ HistoryTyped /\ boot' = boot
    BY <2>1, QuietStays DEF HistoryTyped, Typed, CustodyTypeOK
  <2> QED
    BY <2>1, <2>2, <2>3, SameOpTyped
<1>3. CASE ChildJournal(h) \/ SettleStop(h)
  <2>1. /\ Moves(h) /\ Quiet /\ HistoryKept /\ op' = op
        /\ own[h].child # NoVault
        /\ own'[h].vault = own[h].vault /\ own'[h].journal = own[h].child
        /\ \/ own'[h].child = own[h].child
           \/ own'[h].child = NoVault /\ op[h].pc = "settling"
    BY <1>3, ChildJournalIs
  <2>2. Agreeing(h)'
    BY <1>1, <2>1 DEF Agreeing, Placed, Pc, Top
  <2>3. StoreKept /\ LeaseTimed /\ HistoryTyped /\ boot' = boot
    BY <2>1, QuietStays, HistoryStays
  <2> QED
    BY <2>1, <2>2, <2>3, SameOpTyped
<1>4. CASE SettleKill(h)
  <2>1. /\ Moves(h) /\ Quiet /\ UNCHANGED <<reach, boot, provider, delivered>> /\ op' = op
        /\ KillForfeits(h) /\ op[h].pc = "settling" /\ own'[h].child = NoVault
    BY <1>4, SettleKillIs
  <2>2. Agreeing(h)'
    BY <2>1 DEF Agreeing, Pc
  <2>3. StoreKept /\ LeaseTimed /\ HistoryTyped /\ boot' = boot
    BY <2>1, QuietStays DEF HistoryTyped, Typed, CustodyTypeOK, KillForfeits
  <2> QED
    BY <2>1, <2>2, <2>3, SameOpTyped
<1>5. CASE LoseCustody(h)
  <2>1. /\ Moves(h) /\ Quiet /\ UNCHANGED <<reach, boot, provider, delivered>>
        /\ GivesUp(h) /\ op'[h].pc = "idle" /\ Shut(own'[h], own[h])
    BY <1>5, LoseCustodyIs
  <2>2. StoreKept /\ LeaseTimed /\ HistoryTyped
    BY <2>1, QuietStays DEF HistoryTyped, Typed, CustodyTypeOK, GivesUp
  <2> QED
    BY <2>1, <2>2, EndedTyped DEF Shut
<1> QED
  BY <1>2, <1>3, <1>4, <1>5

\* A settlement's publication of its record.
LEMMA SettlePublishStore ==
  ASSUME Typed, NEW h \in Replicas, NEW reply \in BOOLEAN, SettlePublish(h, reply),
         UNCHANGED scope
  PROVE  /\ StoreKept /\ LeaseTimed /\ lease' = lease /\ account'.status = "active"
         /\ account.status = "active" /\ LeaseValid(MyLease(h))
         /\ account'.revision = own'[h].vault.revision /\ account'.vault = own'[h].vault.vault
         /\ committed'[own'[h].vault.revision] = own'[h].vault.vault
         /\ \/ /\ account.revision < own'[h].vault.revision
               /\ committed' = [committed EXCEPT ![own'[h].vault.revision] = own'[h].vault.vault]
            \/ /\ account.revision = own'[h].vault.revision
               /\ account.vault = own'[h].vault.vault /\ RowKept
<1> DEFINE c == own'[h].vault
           l == MyLease(h)
<1>1. /\ Moves(h) /\ left' = TTL /\ op[h].pc = "settling"
      /\ \/ FencedWrite(l, c.revision, c.vault, "none", reply)
         \/ FencedRewrite(l, c.revision, c.vault, "none", reply)
  BY SettlePublishIs
<1>2. c \in Credential /\ l \in handles /\ "none" \in Observations
  BY <1>1, Identity DEF Owners, Observations, Moves, Pc
<1> HIDE DEF c, l
<1>3. /\ StoreKept /\ lease' = lease /\ account'.status = "active"
      /\ account.status = "active" /\ LeaseValid(l)
      /\ account'.revision = c.revision /\ account'.vault = c.vault
      /\ committed'[c.revision] = c.vault
      /\ \/ account.revision < c.revision /\ committed' = [committed EXCEPT ![c.revision] = c.vault]
         \/ account.revision = c.revision /\ account.vault = c.vault /\ RowKept
  BY <1>1, <1>2, PublishedStore
<1>4. LeaseTimed
  BY <1>1, <1>3 DEF LeaseTimed, LeaseValid
<1> QED
  BY <1>3, <1>4 DEF c, l

\* A refused settlement's rows.
LEMMA SettleOverStore ==
  ASSUME Typed, NEW h \in Replicas, UNCHANGED scope,
         (\E lands \in BOOLEAN : SettleRejected(h, lands)) \/ SettleUnrenewable(h)
  PROVE  StoreKept /\ RowKept /\ LeaseTimed
<1>1. /\ op[h].pc = "settling"
      /\ \/ /\ Renewable(MyLease(h))
            /\ \/ ReleaseLease(MyLease(h)) /\ left' = 0
               \/ UNCHANGED vars /\ left' = TTL
         \/ Quiet
  BY SettleOverIs
<1>2. MyLease(h) \in handles /\ IInv /\ Imported
  BY <1>1, Identity DEF Typed, Pc
<1>3. CASE Quiet
  BY <1>3, QuietStays
<1>4. CASE ReleaseLease(MyLease(h)) /\ left' = 0
  <2>1. IInv'
    BY <1>2, <1>4, LapseIInv
  <2>2. RowKept /\ handles' = handles /\ ~lease'.live
    BY <1>2, <1>4 DEF ReleaseLease, RowKept, IInv, TypeOK, LeaseRows
  <2> QED
    BY <1>2, <1>4, <2>1, <2>2 DEF StoreKept, RowKept, LeaseTimed, Imported
<1>5. CASE Renewable(MyLease(h)) /\ UNCHANGED vars /\ left' = TTL
  <2>1. StoreKept /\ RowKept /\ lease' = lease
    BY <1>2, <1>5, QuietStore
  <2> QED
    BY <1>5, <2>1 DEF LeaseTimed, Renewable, LeaseValid
<1> QED
  BY <1>1, <1>3, <1>4, <1>5

\* The settlement.
LEMMA SettleTyped ==
  ASSUME Typed, NEW h \in Replicas, UNCHANGED scope,
         \/ SettleUnrenewable(h)
         \/ \E b \in BOOLEAN : \/ SettlePublish(h, b) \/ SettleRejected(h, b)
                               \/ SettleRemoved(h, b) \/ SettleClose(h, b)
  PROVE  Typed'
<1>1. /\ own[h] \in Owners /\ op[h] \in Ops /\ Placed(h) /\ Agreeing(h)
  BY Present
<1>2. ASSUME NEW reply \in BOOLEAN, SettlePublish(h, reply) PROVE Typed'
  <2>1. /\ Moves(h) /\ HistoryKept /\ op[h].pc = "settling"
        /\ Told(own'[h], own[h], own[h].journal, op[h].before)
        /\ op'[h].pc \in {"settling", "closing"} /\ SameWork(op'[h], op[h])
    BY <1>2, SettlePublishIs
  <2>2. StoreKept /\ LeaseTimed
    BY <1>2, SettlePublishStore
  <2>3. own'[h].journal = own'[h].vault.vault /\ own'[h].child = NoVault
    BY <2>1, ToldAgrees
  <2>4. Agreeing(h)'
    BY <2>1, <2>3 DEF Agreeing, Pc
  <2>5. HistoryTyped /\ boot' = boot
    BY <2>1, HistoryStays
  <2> QED
    BY <1>1, <2>1, <2>2, <2>3, <2>4, <2>5, WorkingTyped DEF SameWork, Placed, Pc
<1>3. CASE (\E lands \in BOOLEAN : SettleRejected(h, lands)) \/ SettleUnrenewable(h)
  <2>1. /\ Moves(h) /\ HistoryKept
        /\ Told(own'[h], own[h], own[h].journal, op[h].before) /\ op'[h].pc = "idle"
    BY <1>3, SettleOverIs
  <2>2. own'[h].journal = own'[h].vault.vault /\ own'[h].child = NoVault
    BY <2>1, ToldAgrees
  <2>3. StoreKept /\ LeaseTimed
    BY <1>3, SettleOverStore
  <2>4. HistoryTyped /\ boot' = boot
    BY <2>1, HistoryStays
  <2> QED
    BY <2>1, <2>2, <2>3, <2>4, EndedTyped
<1>4. ASSUME NEW lands \in BOOLEAN, SettleRemoved(h, lands) PROVE Typed'
  <2>1. /\ Moves(h) /\ Released(h, lands) /\ HistoryKept
        /\ op[h].pc = "settling" /\ op'[h].pc = "idle" /\ Shut(own'[h], own[h])
    BY <1>4, SettleRemovedIs
  <2>2. StoreKept /\ LeaseTimed
    BY <2>1, ReleasedStore DEF Pc
  <2>3. HistoryTyped /\ boot' = boot
    BY <2>1, HistoryStays
  <2> QED
    BY <2>1, <2>2, <2>3, EndedTyped DEF Shut
<1>5. ASSUME NEW lands \in BOOLEAN, SettleClose(h, lands) PROVE Typed'
  <2>1. /\ Moves(h) /\ Released(h, lands) /\ HistoryKept
        /\ op[h].pc = "closing" /\ op'[h].pc = "idle"
        /\ SameCredential(own'[h], own[h]) /\ own'[h].child = own[h].child
    BY <1>5, SettleCloseIs
  <2>2. StoreKept /\ LeaseTimed
    BY <2>1, ReleasedStore DEF Pc
  <2>3. HistoryTyped /\ boot' = boot
    BY <2>1, HistoryStays
  <2>4. own'[h].child = NoVault /\ own'[h].journal = own'[h].vault.vault
    BY <1>1, <2>1 DEF Placed, Agreeing, Pc, SameCredential
  <2> QED
    BY <2>1, <2>2, <2>3, <2>4, EndedTyped
<1> QED
  BY <1>2, <1>3, <1>4, <1>5

\* Background recovery.
LEMMA RecoverTyped ==
  ASSUME Typed, NEW h \in Replicas, UNCHANGED scope,
         \/ RecoverLaunch(h)
         \/ \E b \in BOOLEAN : RecoverAcquire(h, b) \/ RecoverAbort(h, b)
         \/ \E refused \in BOOLEAN, child \in {NoVault, own[h].journal} :
              RecoverLaunchFails(h, refused, child)
         \/ \E result \in Results : RecoverProbe(h, result)
  PROVE  Typed'
<1>1. /\ own[h] \in Owners /\ op[h] \in Ops /\ IInv /\ Imported /\ Placed(h) /\ Agreeing(h)
  BY Present
<1>2. ASSUME NEW answered \in BOOLEAN, RecoverAcquire(h, answered) PROVE Typed'
  <2>1. /\ Moves(h) /\ AcquireLease(Me(h)) /\ left' = TTL /\ HistoryKept
        /\ op[h].pc = "idle" /\ scope.recovery /\ Recoverable(own[h])
        /\ \/ own' = own /\ op' = op
           \/ /\ own'[h].vault = Reconciled(own[h]).vault
              /\ own'[h].journal = Reconciled(own[h]).journal
              /\ own'[h].child = NoVault
              /\ op'[h].pc = "launching" /\ op'[h].epoch = lease.epoch + 1
              /\ ~op'[h].guarded
    BY <1>2, RecoverAcquireIs
  <2>2. /\ StoreKept /\ LeaseTimed
        /\ [holder |-> Me(h), epoch |-> lease.epoch + 1] \in handles'
    BY <2>1, AcquiredStore
  <2>3. Me(h)' = Me(h) /\ HistoryTyped /\ boot' = boot
    BY <2>1, HistoryStays
  <2>4. own[h].journal = own[h].vault.vault /\ own[h].child = NoVault
    BY <1>1, <2>1 DEF Placed, Agreeing, Pc, Usable
  <2>5. Reconciled(own[h]).journal = Reconciled(own[h]).vault.vault
    BY <1>1, <2>4, ReconciledIs
  <2>6. CASE own' = own /\ op' = op
    <3>1. Agreeing(h)'
      BY <1>1, <2>6 DEF Agreeing, Pc, Top
    <3> QED
      BY <2>1, <2>2, <2>3, <2>6, <3>1, SameOpTyped
  <2>7. CASE ~(own' = own /\ op' = op)
    <3>1. Placed(h)'
      BY <2>1, <2>2, <2>3, <2>7 DEF Placed, Pc, MyLease, Moves
    <3>2. Agreeing(h)'
      BY <2>1, <2>5, <2>7 DEF Agreeing, Pc
    <3> QED
      BY <2>1, <2>2, <3>1, <3>2, PlainTyped
  <2> QED
    BY <2>6, <2>7
<1>3. CASE RecoverLaunch(h)
  <2>1. /\ Moves(h) /\ Quiet /\ HistoryKept /\ op[h].pc = "launching"
        /\ op'[h].pc = "probing" /\ SameWork(op'[h], op[h])
    BY <1>3, RecoverLaunchIs
  <2>2. Agreeing(h)'
    BY <2>1 DEF Agreeing, Pc
  <2>3. StoreKept /\ LeaseTimed /\ HistoryTyped /\ boot' = boot
    BY <2>1, QuietStays, HistoryStays
  <2> QED
    BY <1>1, <2>1, <2>2, <2>3, WorkingTyped DEF SameWork, Placed, Pc
<1>4. ASSUME NEW refused \in BOOLEAN, NEW child \in {NoVault, own[h].journal},
             RecoverLaunchFails(h, refused, child)
      PROVE  Typed'
  <2>1. /\ Moves(h) /\ Quiet /\ HistoryKept /\ op[h].pc = "launching"
        /\ op'[h].pc = "settling" /\ SameWork(op'[h], op[h])
    BY <1>4, RecoverLaunchFailsIs
  <2>2. Agreeing(h)'
    BY <2>1 DEF Agreeing, Pc
  <2>3. StoreKept /\ LeaseTimed /\ HistoryTyped /\ boot' = boot
    BY <2>1, QuietStays, HistoryStays
  <2> QED
    BY <1>1, <2>1, <2>2, <2>3, WorkingTyped DEF SameWork, Placed, Pc
<1>5. ASSUME NEW lands \in BOOLEAN, RecoverAbort(h, lands) PROVE Typed'
  <2>1. /\ Moves(h) /\ Released(h, lands) /\ HistoryKept
        /\ op[h].pc = "launching" /\ op'[h].pc = "idle"
        /\ \/ own'[h] = own[h]
           \/ Shut(own'[h], own[h])
    BY <1>5, RecoverAbortIs
  <2>2. StoreKept /\ LeaseTimed
    BY <2>1, ReleasedStore DEF Pc
  <2>3. HistoryTyped /\ boot' = boot
    BY <2>1, HistoryStays
  <2>4. /\ own'[h].child = NoVault
        /\ Usable(own'[h]) => own'[h].journal = own'[h].vault.vault
    BY <1>1, <2>1 DEF Shut, Placed, Agreeing, Pc
  <2> QED
    BY <2>1, <2>2, <2>3, <2>4, EndedTyped
<1>6. ASSUME NEW result \in Results, RecoverProbe(h, result) PROVE Typed'
  <2>1. /\ Moves(h) /\ Quiet /\ HistoryKept
        /\ op[h].pc = "probing" /\ op'[h].pc = "settling" /\ SameWork(op'[h], op[h])
    BY <1>6, RecoverProbeIs
  <2>2. Agreeing(h)'
    BY <2>1 DEF Agreeing, Pc
  <2>3. StoreKept /\ LeaseTimed /\ HistoryTyped /\ boot' = boot
    BY <2>1, QuietStays, HistoryStays
  <2> QED
    BY <1>1, <2>1, <2>2, <2>3, WorkingTyped DEF SameWork, Placed, Pc
<1> QED
  BY <1>2, <1>3, <1>4, <1>5, <1>6

\* The tombstone's rows.
LEMMA RemovedStore ==
  ASSUME Typed, NEW h \in Replicas, RemoveAccount(Me(h)),
         left' = (IF lease'.live THEN left ELSE 0)
  PROVE  /\ StoreKept /\ LeaseTimed /\ committed' = committed
         /\ account.status = "active" /\ account'.status = "removed" /\ ~lease'.live
<1>1. /\ IInv /\ Imported /\ Me(h) \in Holders /\ left \in 0..TTL /\ (lease.live <=> left > 0)
      /\ account \in Accounts
  BY Identity DEF Typed, CustodyTypeOK, IInv, TypeOK
<1>2. IInv'
  BY <1>1, RemoveAccountIInv
<1>3. account' = [account EXCEPT !.status = "removed", !.revision = account.revision + 1]
  BY DEF RemoveAccount
<1>4. account' = [status |-> "removed", revision |-> account.revision + 1,
                  vault |-> account.vault]
  BY <1>1, <1>3 DEF Accounts
<1>5. Imported'
  BY <1>1, <1>4 DEF Imported, Accounts, Revisions
<1>6. ~lease'.live
  BY <1>2, <1>4 DEF IInv, RemovedUnleased
<1> QED
  BY <1>1, <1>2, <1>4, <1>5, <1>6
     DEF StoreKept, LeaseTimed, RemoveAccount, RemovableBy

\* Restarts, the network and removal.
LEMMA ProcessTyped ==
  ASSUME Typed, NEW h \in Replicas, UNCHANGED scope,
         \/ Partition(h) \/ Crash(h) \/ Boot(h)
         \/ \E commits \in BOOLEAN : RemoveHere(h, commits)
  PROVE  Typed'
<1>1. /\ own[h] \in Owners /\ op[h] \in Ops /\ IInv /\ Imported /\ Placed(h) /\ Agreeing(h)
  BY Present
<1>2. CASE Partition(h)
  <2>1. /\ Moves(h) /\ Quiet /\ UNCHANGED <<own, op, boot, provider, delivered, forfeited>>
        /\ reach' \in [Replicas -> BOOLEAN]
    BY <1>2, PartitionIs
  <2>2. StoreKept /\ LeaseTimed /\ HistoryTyped
    BY <2>1, QuietStays DEF HistoryTyped, Typed, CustodyTypeOK
  <2>3. Agreeing(h)'
    BY <1>1, <2>1 DEF Agreeing, Pc, Top
  <2> QED
    BY <2>1, <2>2, <2>3, SameOpTyped
<1>3. CASE Crash(h)
  <2>1. /\ Moves(h) /\ Quiet /\ UNCHANGED <<reach, provider, delivered>> /\ GivesUp(h)
        /\ boot' \in [Replicas -> 0..MaxBoots]
        /\ \A k \in Replicas \ {h} : boot'[k] = boot[k]
        /\ op'[h].pc = "down" /\ Shut(own'[h], own[h])
    BY <1>3, CrashIs
  <2>2. StoreKept /\ LeaseTimed
    BY <2>1, QuietStays
  <2>3. HistoryTyped
    BY <2>1 DEF HistoryTyped, Typed, CustodyTypeOK, GivesUp
  <2> QED
    BY <2>1, <2>2, <2>3, EndedTyped DEF Shut
<1>4. CASE Boot(h)
  <2>1. /\ Moves(h) /\ Quiet /\ HistoryKept /\ op[h].pc = "down" /\ op'[h].pc = "idle"
        /\ \/ account.status # "active" /\ own'[h] = own[h]
           \/ /\ account.status = "active"
              /\ own'[h].child = own[h].child /\ own'[h].journal = own'[h].vault.vault
    BY <1>4, BootIs
  <2>2. StoreKept /\ LeaseTimed /\ HistoryTyped /\ boot' = boot
    BY <2>1, QuietStays, HistoryStays
  <2>3. own'[h].child = NoVault
    BY <1>1, <2>1 DEF Placed, Pc
  <2>4. Usable(own'[h]) => own'[h].journal = own'[h].vault.vault
    BY <1>1, <2>1 DEF Agreeing, Pc
  <2> QED
    BY <2>1, <2>2, <2>3, <2>4, EndedTyped
<1>5. ASSUME NEW commits \in BOOLEAN, RemoveHere(h, commits) PROVE Typed'
  <2>1. /\ Moves(h) /\ UNCHANGED <<reach, boot, provider, delivered>> /\ op' = op
        /\ KillForfeits(h) /\ op[h].pc \in {"idle", "settling", "launching"}
        /\ own'[h].child = NoVault /\ own'[h].journal = own[h].journal
        /\ own'[h].vault.vault = IF own[h].child = NoVault THEN own[h].vault.vault
                                 ELSE own[h].journal
        /\ Usable(own'[h]) => Usable(own[h])
        /\ \/ /\ RemoveAccount(Me(h)) /\ left' = (IF lease'.live THEN left ELSE 0)
           \/ Quiet
    BY <1>5, RemoveHereIs
  <2>2. StoreKept /\ LeaseTimed
    BY <2>1, RemovedStore, QuietStays
  <2>3. HistoryTyped
    BY <2>1 DEF HistoryTyped, Typed, CustodyTypeOK, KillForfeits
  <2>4. Agreeing(h)'
    BY <1>1, <2>1 DEF Agreeing, Placed, Pc
  <2> QED
    BY <2>1, <2>2, <2>3, <2>4, SameOpTyped
<1> QED
  BY <1>2, <1>3, <1>4, <1>5

\* An interval.
LEMMA TickTyped ==
  ASSUME Typed, Tick, UNCHANGED scope
  PROVE  Typed'
<1>1. /\ own' = own /\ HistoryKept /\ StoreKept /\ LeaseTimed
      /\ op' \in [Replicas -> Ops]
      /\ \A k \in Replicas :
           /\ op'[k].pc = op[k].pc /\ op'[k].epoch = op[k].epoch
           /\ op'[k].before = op[k].before /\ op'[k].guarded = op[k].guarded
           /\ op'[k].result = op[k].result
  BY TickIs
<1>2. HistoryTyped /\ \A k \in Replicas : Me(k)' = Me(k)
  BY <1>1, HistoryStays
<1>3. CustodyTypeOK'
  BY <1>1, <1>2 DEF Typed, CustodyTypeOK, HistoryTyped, LeaseTimed
<1>4. ASSUME NEW k \in Replicas PROVE Placed(k)' /\ Agreeing(k)'
  <2>1. Placed(k) /\ Agreeing(k)
    BY DEF Typed
  <2>2. MyLease(k)' = MyLease(k) /\ Pc(k)' = Pc(k) /\ Top(k)' = Top(k)
    BY <1>1, <1>2 DEF MyLease, Pc, Top
  <2> QED
    BY <1>1, <2>1, <2>2 DEF Placed, Agreeing, StoreKept
<1> QED
  BY <1>1, <1>3, <1>4 DEF Typed, StoreKept

\* The states a system starts in are typed.
LEMMA InitTyped == CustodyInit => Typed
<1> SUFFICES ASSUME CustodyInit PROVE Typed
  OBVIOUS
<1> USE DEF CustodyInit
<1>1. 0 \in Revisions /\ 1 \in Revisions /\ 0 \in Epochs
  BY DEF Revisions, Epochs
<1>2. TypeOK
  BY <1>1 DEF TypeOK, Accounts, LeaseRows, EvidenceRows, Statuses, NoSubject, Subjects, Leases
<1>3. RowCommitted
  BY <1>1 DEF RowCommitted, Revisions
<1>4. /\ GrantsOrdered /\ ReleasedNotLive /\ RemovedUnleased /\ AckedCommitted
      /\ EvidenceTruthful /\ ~evidence.active
  BY DEF GrantsOrdered, ReleasedNotLive, RemovedUnleased, AckedCommitted, EvidenceTruthful
<1>5. IInv
  BY <1>2, <1>3, <1>4 DEF IInv
<1>6. Imported
  BY DEF Imported
<1>7. own \in [Replicas -> Owners]
  BY NoOpTyped DEF Owners
<1>8. op \in [Replicas -> Ops]
  BY NoOpTyped
<1>9. CustodyTypeOK
  <2>1. 0 \in 0..TTL /\ 0 \in 0..MaxBoots
    OBVIOUS
  <2>2. reach \in [Replicas -> BOOLEAN] /\ boot \in [Replicas -> 0..MaxBoots]
    BY <2>1
  <2>3. provider \in Vaults /\ delivered \subseteq Vaults /\ forfeited \in BOOLEAN
        /\ scope \in Scopes /\ left \in 0..TTL
    BY <2>1
  <2>4. ~lease.live
    OBVIOUS
  <2>5. ~(left > 0)
    OBVIOUS
  <2> QED
    BY <1>7, <1>8, <2>2, <2>3, <2>4, <2>5 DEF CustodyTypeOK
<1>10. ASSUME NEW h \in Replicas PROVE Placed(h) /\ Agreeing(h)
  BY DEF Placed, Agreeing, Pc, NoOp, First
<1> QED
  BY <1>5, <1>6, <1>9, <1>10 DEF Typed

\* Every step keeps the types.
LEMMA NextTyped == Typed /\ [CNext]_allVars => Typed'
<1> SUFFICES ASSUME Typed, [CNext]_allVars PROVE Typed'
  OBVIOUS
<1>1. CASE UNCHANGED allVars
  <2>1. IInv' /\ Imported'
    BY <1>1, QuietStore DEF allVars, Typed, StoreKept
  <2>2. CustodyTypeOK'
    BY <1>1 DEF Typed, CustodyTypeOK, allVars, localVars, vars
  <2>3. ASSUME NEW h \in Replicas PROVE Placed(h)' /\ Agreeing(h)'
    BY <1>1 DEF Typed, Placed, Agreeing, Pc, Top, MyLease, Me, allVars, localVars, vars
  <2> QED
    BY <2>1, <2>2, <2>3 DEF Typed
<1>2. CASE Tick /\ UNCHANGED scope
  BY <1>2, TickTyped
<1>3. ASSUME NEW h \in Replicas, UNCHANGED scope, Progress(h) PROVE Typed'
  BY <1>3, AdmissionTyped, BaselineTyped, NativeTyped, PublishTyped, ChildTyped, SettleTyped,
     RecoverTyped DEF Progress
<1>4. ASSUME NEW h \in Replicas, UNCHANGED scope, SettleRound(h) PROVE Typed'
  BY <1>4, SettleTyped DEF SettleRound
<1>5. ASSUME NEW h \in Replicas, UNCHANGED scope, ReplicaStep(h) PROVE Typed'
  BY <1>5, AdmissionTyped, ChildTyped, SettleTyped, RecoverTyped, ProcessTyped DEF ReplicaStep
<1> QED
  BY <1>1, <1>2, <1>3, <1>4, <1>5 DEF CNext

\* The rows keep the store's invariant, every variable its type, and a replica its place,
\* under every interleaving of the replicas' operations.
THEOREM CustodyTyped == CSpec => []Typed
  BY InitTyped, NextTyped, PTL DEF CSpec

\* Every variable keeps its type; the settled revision stays within its bound because a
\* child rotates only with a revision left.
THEOREM CustodyTypes == CSpec => []CustodyTypeOK
<1>1. Typed => CustodyTypeOK
  BY DEF Typed
<1> QED
  BY <1>1, CustodyTyped, PTL

---------------------------------------------------------------------------
(* The lease of a request's operation outlasts its window. *)

Guarding == Typed /\ \A h \in Replicas : Watched(h)
RemovedStays == account.status = "removed" => account'.status = "removed"

\* What a replica does to the lease row: nothing, or what its own identity allows.
StepsLease(h) ==
  \/ lease' = lease /\ left' = left
  \/ LeaseValid(MyLease(h)) \/ AcquireLease(Me(h)) \/ ReleaseLease(MyLease(h))
  \/ RemoveAccount(Me(h))

\* While one replica's lease is valid, no other replica can use the row: the holder id
\* names the replica and its boot.
LEMMA Foreign ==
  ASSUME Typed, NEW h \in Replicas, NEW k \in Replicas \ {h}, LeaseValid(MyLease(k))
  PROVE  /\ ~LeaseValid(MyLease(h)) /\ ~AcquireLease(Me(h)) /\ ~ReleaseLease(MyLease(h))
         /\ ~RemoveAccount(Me(h))
<1>1. lease.holder = Me(k) /\ lease.live /\ Me(k) # Me(h)
  BY DEF LeaseValid, MyLease, Me
<1>2. ~lease.released
  BY <1>1 DEF Typed, IInv, ReleasedNotLive
<1> QED
  BY <1>1, <1>2 DEF LeaseValid, AcquireLease, LeaseClaimable, ReleaseLease, RemoveAccount,
     RemovableBy, MyLease

\* What a step of one replica has to show.
LEMMA LocalWatched ==
  ASSUME Guarding, NEW h \in Replicas, Moves(h), StepsLease(h), RemovedStays,
         \A k \in Replicas \ {h} : boot'[k] = boot[k], Watched(h)'
  PROVE  \A k \in Replicas : Watched(k)'
<1> SUFFICES ASSUME NEW k \in Replicas PROVE Watched(k)'
  OBVIOUS
<1>1. CASE k = h
  BY <1>1
<1>2. CASE k # h
  <2>1. /\ Watched(k) /\ own'[k] = own[k] /\ op'[k] = op[k] /\ MyLease(k)' = MyLease(k)
        /\ LeaseValid(MyLease(k)) => lease' = lease /\ left' = left
    BY <1>2, Foreign DEF Guarding, Moves, MyLease, Me, StepsLease
  <2>2. LeaseValid(MyLease(k)) => LeaseValid(MyLease(k))' /\ left' = left
    BY <2>1 DEF LeaseValid
  <2> QED
    BY <2>1, <2>2 DEF Watched, Pc, RemovedStays
<1> QED
  BY <1>1, <1>2

\* An operation that watches a lease goes on watching it.
LEMMA KeepsWatching ==
  ASSUME Guarding, NEW h \in Replicas, op[h].pc \in {"native", "stopped", "settling"},
         op'[h].pc # "leased", SameWork(op'[h], op[h]), boot' = boot, lease' = lease,
         left' = left \/ left' = TTL, RemovedStays,
         op[h].pc = "settling" /\ own[h].child = NoVault =>
           own'[h].child = NoVault /\ op'[h].pc \notin {"native", "stopped"}
  PROVE  Watched(h)'
<1>1. /\ Watched(h) /\ op[h] \in Ops /\ left \in 0..TTL
      /\ MyLease(h)' = MyLease(h)
  BY Present DEF Guarding, MyLease, Me, SameWork
<1>2. op[h].window \in 0..TTL /\ LeaseValid(MyLease(h))' = LeaseValid(MyLease(h))
  BY <1>1 DEF Ops, LeaseValid
<1> QED
  BY <1>1, <1>2 DEF Watched, Pc, SameWork, RemovedStays

\* A release, landed or not, is the replica's own.
LEMMA ReleasedLease ==
  ASSUME NEW h, NEW lands, Released(h, lands)
  PROVE  StepsLease(h) /\ account' = account /\ RemovedStays
  BY DEF Released, StepsLease, ReleaseLease, vars, RemovedStays

\* An operation outside the watched phases has nothing to watch.
LEMMA NotWatching ==
  ASSUME NEW h \in Replicas, op'[h].pc \notin {"leased", "native", "stopped", "settling"}
  PROVE  Watched(h)'
  BY DEF Watched, Pc

\* A step that leaves the rows alone leaves the lease.
LEMMA QuietLease ==
  ASSUME NEW h, Quiet
  PROVE  StepsLease(h) /\ RemovedStays /\ lease' = lease /\ left' = left
  BY DEF Quiet, StepsLease, RemovedStays, vars

\* The steps of a request before its child.
LEMMA AdmissionWatched ==
  ASSUME Guarding, NEW h \in Replicas, UNCHANGED scope,
         \/ TokenAdmit(h) \/ TokenRemoved(h) \/ TokenContended(h) \/ TokenBaseline(h)
         \/ \E b \in BOOLEAN : \/ TokenAcquire(h, b) \/ TokenBaselineFails(h, b)
                               \/ TokenServedUnderLease(h, b)
  PROVE  \A k \in Replicas : Watched(k)'
<1>1. Typed /\ Watched(h)
  BY DEF Guarding
<1>2. CASE TokenAdmit(h)
  <2>1. /\ Moves(h) /\ Quiet /\ HistoryKept
        /\ op'[h].pc \in {"idle", "launching", "admitted"}
    BY <1>1, <1>2, TokenAdmitIs
  <2> QED
    BY <2>1, NotWatching, QuietLease, LocalWatched DEF HistoryKept
<1>3. CASE TokenRemoved(h)
  <2>1. Moves(h) /\ Quiet /\ HistoryKept /\ op'[h].pc = "idle"
    BY <1>1, <1>3, TokenRemovedIs
  <2> QED
    BY <2>1, NotWatching, QuietLease, LocalWatched DEF HistoryKept
<1>4. CASE TokenContended(h)
  <2>1. Moves(h) /\ Quiet /\ HistoryKept /\ op'[h].pc = "idle"
    BY <1>1, <1>4, TokenContendedIs
  <2> QED
    BY <2>1, NotWatching, QuietLease, LocalWatched DEF HistoryKept
<1>5. CASE TokenBaseline(h)
  <2>1. /\ Moves(h) /\ Quiet /\ HistoryKept /\ op[h].pc = "leased"
        /\ op'[h].pc = "native" /\ op'[h].epoch = op[h].epoch /\ op'[h].window = TTL
    BY <1>1, <1>5, TokenBaselineIs
  <2>2. LeaseValid(MyLease(h)) /\ left = TTL
    BY <1>1, <2>1 DEF Watched, Pc
  <2>3. lease' = lease /\ left' = left /\ MyLease(h)' = MyLease(h)
    BY <2>1, QuietLease DEF HistoryKept, MyLease, Me
  <2>4. LeaseValid(MyLease(h))' /\ left' = TTL
    BY <2>2, <2>3 DEF LeaseValid
  <2>5. Watched(h)'
    BY <2>1, <2>4 DEF Watched, Pc
  <2> QED
    BY <2>1, <2>5, QuietLease, LocalWatched DEF HistoryKept
<1>6. ASSUME NEW answered \in BOOLEAN, TokenAcquire(h, answered)
      PROVE  \A k \in Replicas : Watched(k)'
  <2>1. /\ Moves(h) /\ AcquireLease(Me(h)) /\ left' = TTL /\ HistoryKept
        /\ \/ op'[h].pc = "idle"
           \/ op'[h].pc = "leased" /\ op'[h].epoch = lease.epoch + 1
    BY <1>1, <1>6, TokenAcquireIs
  <2>2. /\ lease' = [holder |-> Me(h), epoch |-> lease.epoch + 1, live |-> TRUE,
                     released |-> FALSE]
        /\ account' = account
    BY <2>1 DEF AcquireLease
  <2>3. Me(h)' = Me(h) /\ boot' = boot
    BY <2>1 DEF HistoryKept, Me
  <2>4. Watched(h)'
    BY <2>1, <2>2, <2>3 DEF Watched, Pc, LeaseValid, MyLease
  <2> QED
    BY <2>1, <2>2, <2>3, <2>4, LocalWatched DEF StepsLease, RemovedStays
<1>7. ASSUME NEW lands \in BOOLEAN, TokenBaselineFails(h, lands)
      PROVE  \A k \in Replicas : Watched(k)'
  <2>1. Moves(h) /\ Released(h, lands) /\ HistoryKept /\ op'[h].pc = "idle"
    BY <1>1, <1>7, TokenBaselineFailsIs
  <2> QED
    BY <2>1, NotWatching, ReleasedLease, LocalWatched DEF HistoryKept
<1>8. ASSUME NEW lands \in BOOLEAN, TokenServedUnderLease(h, lands)
      PROVE  \A k \in Replicas : Watched(k)'
  <2>1. Moves(h) /\ Released(h, lands) /\ boot' = boot /\ op'[h].pc = "idle"
    BY <1>1, <1>8, TokenServedUnderLeaseIs
  <2> QED
    BY <2>1, NotWatching, ReleasedLease, LocalWatched
<1> QED
  BY <1>2, <1>3, <1>4, <1>5, <1>6, <1>7, <1>8

\* The child, its settlement and the publication of a request.
LEMMA RequestWatched ==
  ASSUME Guarding, NEW h \in Replicas, UNCHANGED scope,
         \/ EnsureRefreshOwner(h) \/ EnsureRefreshOwnerFails(h)
         \/ \E result \in Results : NativeSettles(h, result) \/ NativeHangs(h, result)
         \/ TokenPublish(h) \/ TokenPublishRefused(h)
         \/ \E lands \in BOOLEAN : TokenPublishDeferred(h, lands) \/ TokenDeliver(h, lands)
  PROVE  \A k \in Replicas : Watched(k)'
<1>1. Typed /\ Watched(h)
  BY DEF Guarding
<1>2. CASE EnsureRefreshOwner(h)
  <2>1. /\ Moves(h) /\ Quiet /\ HistoryKept /\ op' = op /\ op[h].pc = "native"
    BY <1>1, <1>2, EnsureRefreshOwnerIs
  <2>2. Watched(h)'
    BY <2>1, QuietLease, KeepsWatching DEF HistoryKept, SameWork
  <2> QED
    BY <2>1, <2>2, QuietLease, LocalWatched DEF HistoryKept
<1>3. ASSUME Retires(h), HistoryKept, op[h].pc \in {"native", "stopped"}, RemovedStays,
             lease' = lease, left' = left
      PROVE  \A k \in Replicas : Watched(k)'
  <2>1. Watched(h)'
    BY <1>3, KeepsWatching DEF HistoryKept, Retires
  <2> QED
    BY <1>3, <2>1, LocalWatched DEF HistoryKept, Retires, StepsLease
<1>4. CASE EnsureRefreshOwnerFails(h)
  BY <1>1, <1>3, <1>4, EnsureRefreshOwnerFailsIs, QuietLease
<1>5. ASSUME NEW result \in Results, NativeHangs(h, result)
      PROVE  \A k \in Replicas : Watched(k)'
  <2>1. /\ Retires(h) /\ EvidenceOnly /\ left' = left /\ HistoryKept /\ op[h].pc = "native"
    BY <1>1, <1>5, NativeHangsIs
  <2> QED
    BY <1>3, <2>1 DEF EvidenceOnly, RemovedStays
<1>6. ASSUME NEW result \in Results, NativeSettles(h, result)
      PROVE  \A k \in Replicas : Watched(k)'
  <2>1. /\ Moves(h) /\ EvidenceOnly /\ left' = left /\ HistoryKept /\ op[h].pc = "native"
        /\ op'[h].pc = "stopped" /\ SameWork(op'[h], op[h])
    BY <1>1, <1>6, NativeSettlesIs
  <2>2. lease' = lease /\ RemovedStays /\ boot' = boot
    BY <2>1 DEF EvidenceOnly, RemovedStays, HistoryKept
  <2>3. Watched(h)'
    BY <2>1, <2>2, KeepsWatching
  <2> QED
    BY <2>1, <2>2, <2>3, LocalWatched DEF StepsLease
<1>7. CASE TokenPublish(h)
  <2>1. /\ Moves(h) /\ Publishes(h, TRUE) /\ left' = left /\ HistoryKept
        /\ op[h].pc = "stopped" /\ op'[h].pc = "published"
    BY <1>1, <1>7, TokenPublishIs
  <2>2. lease' = lease /\ account'.status = "active" /\ account.status = "active"
    BY <1>1, <2>1, PublishesStore DEF Pc
  <2> QED
    BY <2>1, <2>2, NotWatching, LocalWatched DEF StepsLease, RemovedStays, HistoryKept
<1>8. CASE TokenPublishRefused(h)
  <2>1. /\ Quiet /\ HistoryKept /\ op[h].pc = "stopped" /\ Moves(h)
        /\ op'[h].pc = "published" \/ Retires(h)
    BY <1>1, <1>8, TokenPublishRefusedIs
  <2>2. CASE Retires(h)
    BY <1>3, <2>1, <2>2, QuietLease
  <2>3. CASE op'[h].pc = "published"
    BY <2>1, <2>3, NotWatching, QuietLease, LocalWatched DEF HistoryKept
  <2> QED
    BY <2>1, <2>2, <2>3
<1>9. ASSUME NEW lands \in BOOLEAN, TokenPublishDeferred(h, lands)
      PROVE  \A k \in Replicas : Watched(k)'
  <2>1. /\ Retires(h) /\ left' = left /\ HistoryKept /\ op[h].pc = "stopped"
        /\ Publishes(h, FALSE) \/ UNCHANGED vars
    BY <1>1, <1>9, TokenPublishDeferredIs
  <2>2. CASE Publishes(h, FALSE)
    <3>1. lease' = lease /\ account.status = "active"
      BY <1>1, <2>1, <2>2, PublishesStore DEF Pc
    <3> QED
      BY <1>3, <2>1, <3>1 DEF RemovedStays
  <2>3. CASE UNCHANGED vars
    BY <1>3, <2>1, <2>3 DEF RemovedStays, vars
  <2> QED
    BY <2>1, <2>2, <2>3
<1>10. ASSUME NEW lands \in BOOLEAN, TokenDeliver(h, lands)
      PROVE  \A k \in Replicas : Watched(k)'
  <2>1. /\ Moves(h) /\ Released(h, lands) /\ UNCHANGED <<reach, boot, provider, forfeited>>
        /\ op'[h].pc = "idle"
    BY <1>1, <1>10, TokenDeliverIs
  <2> QED
    BY <2>1, NotWatching, ReleasedLease, LocalWatched
<1> QED
  BY <1>2, <1>4, <1>5, <1>6, <1>7, <1>8, <1>9, <1>10

\* The child, the settlement and the loss of custody.
LEMMA SettlementWatched ==
  ASSUME Guarding, NEW h \in Replicas, UNCHANGED scope,
         \/ ChildRefresh(h) \/ ChildJournal(h) \/ SettleStop(h) \/ SettleKill(h)
         \/ LoseCustody(h) \/ SettleUnrenewable(h)
         \/ \E b \in BOOLEAN : \/ SettlePublish(h, b) \/ SettleRejected(h, b)
                               \/ SettleRemoved(h, b) \/ SettleClose(h, b)
  PROVE  \A k \in Replicas : Watched(k)'
<1>1. Typed /\ Watched(h) /\ Placed(h)
  BY Present DEF Guarding
<1>2. ASSUME Moves(h), Quiet, boot' = boot, op' = op, own[h].child # NoVault
      PROVE  \A k \in Replicas : Watched(k)'
  <2>1. op[h].pc # "leased"
    BY <1>1, <1>2 DEF Placed, Pc
  <2>2. CASE op[h].pc \in {"native", "stopped", "settling"}
    <3>1. Watched(h)'
      BY <1>2, <2>1, <2>2, QuietLease, KeepsWatching DEF SameWork
    <3> QED
      BY <1>2, <3>1, QuietLease, LocalWatched
  <2>3. CASE op[h].pc \notin {"native", "stopped", "settling"}
    BY <1>2, <2>1, <2>3, NotWatching, QuietLease, LocalWatched
  <2> QED
    BY <2>2, <2>3
<1>3. CASE ChildRefresh(h)
  BY <1>1, <1>2, <1>3, ChildRefreshIs
<1>4. CASE ChildJournal(h) \/ SettleStop(h)
  <2>1. Moves(h) /\ Quiet /\ HistoryKept /\ op' = op /\ own[h].child # NoVault
    BY <1>1, <1>4, ChildJournalIs
  <2> QED
    BY <1>2, <2>1 DEF HistoryKept
<1>5. CASE SettleKill(h)
  BY <1>1, <1>2, <1>5, SettleKillIs
<1>6. CASE LoseCustody(h)
  <2>1. Moves(h) /\ Quiet /\ boot' = boot /\ op'[h].pc = "idle"
    BY <1>1, <1>6, LoseCustodyIs
  <2> QED
    BY <2>1, NotWatching, QuietLease, LocalWatched
<1>7. ASSUME NEW reply \in BOOLEAN, SettlePublish(h, reply)
      PROVE  \A k \in Replicas : Watched(k)'
  <2>1. /\ Moves(h) /\ left' = TTL /\ HistoryKept
        /\ op[h].pc = "settling" /\ own[h].child = NoVault
        /\ Told(own'[h], own[h], own[h].journal, op[h].before)
        /\ op'[h].pc \in {"settling", "closing"} /\ SameWork(op'[h], op[h])
    BY <1>1, <1>7, SettlePublishIs
  <2>2. lease' = lease /\ account.status = "active" /\ LeaseValid(MyLease(h))
    BY <1>1, <1>7, SettlePublishStore
  <2>3. RemovedStays /\ boot' = boot /\ own'[h].child = NoVault
    BY <2>1, <2>2 DEF RemovedStays, HistoryKept, Told
  <2>4. Watched(h)'
    BY <2>1, <2>2, <2>3, KeepsWatching
  <2> QED
    BY <2>1, <2>2, <2>3, <2>4, LocalWatched DEF StepsLease
<1>8. CASE (\E lands \in BOOLEAN : SettleRejected(h, lands)) \/ SettleUnrenewable(h)
  <2>1. /\ Moves(h) /\ HistoryKept /\ op'[h].pc = "idle"
        /\ \/ /\ Renewable(MyLease(h))
              /\ \/ ReleaseLease(MyLease(h)) /\ left' = 0
                 \/ UNCHANGED vars /\ left' = TTL
           \/ Quiet
    BY <1>1, <1>8, SettleOverIs
  <2>2. StepsLease(h) /\ RemovedStays
    BY <2>1, QuietLease DEF StepsLease, Renewable, ReleaseLease, RemovedStays, vars
  <2> QED
    BY <2>1, <2>2, NotWatching, LocalWatched DEF HistoryKept
<1>9. ASSUME NEW lands \in BOOLEAN, SettleRemoved(h, lands)
      PROVE  \A k \in Replicas : Watched(k)'
  <2>1. Moves(h) /\ Released(h, lands) /\ HistoryKept /\ op'[h].pc = "idle"
    BY <1>1, <1>9, SettleRemovedIs
  <2> QED
    BY <2>1, NotWatching, ReleasedLease, LocalWatched DEF HistoryKept
<1>10. ASSUME NEW lands \in BOOLEAN, SettleClose(h, lands)
      PROVE  \A k \in Replicas : Watched(k)'
  <2>1. Moves(h) /\ Released(h, lands) /\ HistoryKept /\ op'[h].pc = "idle"
    BY <1>1, <1>10, SettleCloseIs
  <2> QED
    BY <2>1, NotWatching, ReleasedLease, LocalWatched DEF HistoryKept
<1> QED
  BY <1>3, <1>4, <1>5, <1>6, <1>7, <1>8, <1>9, <1>10

\* Recovery, restarts, the network and removal.
LEMMA OtherWatched ==
  ASSUME Guarding, NEW h \in Replicas, UNCHANGED scope,
         \/ RecoverLaunch(h)
         \/ \E b \in BOOLEAN : RecoverAcquire(h, b) \/ RecoverAbort(h, b) \/ RemoveHere(h, b)
         \/ \E refused \in BOOLEAN, child \in {NoVault, own[h].journal} :
              RecoverLaunchFails(h, refused, child)
         \/ \E result \in Results : RecoverProbe(h, result)
         \/ Partition(h) \/ Crash(h) \/ Boot(h)
  PROVE  \A k \in Replicas : Watched(k)'
<1>1. Typed /\ Watched(h) /\ Placed(h)
  BY Present DEF Guarding
<1>2. ASSUME NEW answered \in BOOLEAN, RecoverAcquire(h, answered)
      PROVE  \A k \in Replicas : Watched(k)'
  <2>1. /\ Moves(h) /\ AcquireLease(Me(h)) /\ HistoryKept /\ op[h].pc = "idle"
        /\ op'[h].pc \in {"idle", "launching"}
    BY <1>1, <1>2, RecoverAcquireIs
  <2>2. account' = account
    BY <2>1 DEF AcquireLease
  <2> QED
    BY <2>1, <2>2, NotWatching, LocalWatched DEF HistoryKept, StepsLease, RemovedStays
<1>3. CASE RecoverLaunch(h)
  <2>1. Moves(h) /\ Quiet /\ HistoryKept /\ op'[h].pc = "probing"
    BY <1>1, <1>3, RecoverLaunchIs
  <2> QED
    BY <2>1, NotWatching, QuietLease, LocalWatched DEF HistoryKept
<1>4. ASSUME NEW refused \in BOOLEAN, NEW child \in {NoVault, own[h].journal},
             RecoverLaunchFails(h, refused, child)
      PROVE  \A k \in Replicas : Watched(k)'
  <2>1. /\ Moves(h) /\ Quiet /\ HistoryKept /\ op[h].pc = "launching"
        /\ op'[h].pc = "settling" /\ SameWork(op'[h], op[h])
    BY <1>1, <1>4, RecoverLaunchFailsIs
  <2>2. Watched(h)'
    BY <1>1, <2>1 DEF Watched, Placed, Pc, SameWork
  <2> QED
    BY <2>1, <2>2, QuietLease, LocalWatched DEF HistoryKept
<1>5. ASSUME NEW lands \in BOOLEAN, RecoverAbort(h, lands)
      PROVE  \A k \in Replicas : Watched(k)'
  <2>1. Moves(h) /\ Released(h, lands) /\ HistoryKept /\ op'[h].pc = "idle"
    BY <1>1, <1>5, RecoverAbortIs
  <2> QED
    BY <2>1, NotWatching, ReleasedLease, LocalWatched DEF HistoryKept
<1>6. ASSUME NEW result \in Results, RecoverProbe(h, result)
      PROVE  \A k \in Replicas : Watched(k)'
  <2>1. /\ Moves(h) /\ Quiet /\ HistoryKept /\ op[h].pc = "probing"
        /\ op'[h].pc = "settling" /\ SameWork(op'[h], op[h])
    BY <1>1, <1>6, RecoverProbeIs
  <2>2. Watched(h)'
    BY <1>1, <2>1 DEF Watched, Placed, Pc, SameWork
  <2> QED
    BY <2>1, <2>2, QuietLease, LocalWatched DEF HistoryKept
<1>7. CASE Partition(h)
  <2>1. /\ Moves(h) /\ Quiet /\ UNCHANGED <<own, op, boot>>
    BY <1>1, <1>7, PartitionIs
  <2>2. lease' = lease /\ left' = left /\ StepsLease(h) /\ RemovedStays
    BY <2>1, QuietLease
  <2>3. Watched(h)'
    BY <1>1, <2>1, <2>2 DEF Watched, Pc, LeaseValid, MyLease, Me, RemovedStays
  <2> QED
    BY <2>1, <2>2, <2>3, LocalWatched
<1>8. CASE Crash(h)
  <2>1. /\ Moves(h) /\ Quiet /\ op'[h].pc = "down"
        /\ \A k \in Replicas \ {h} : boot'[k] = boot[k]
    BY <1>1, <1>8, CrashIs
  <2> QED
    BY <2>1, NotWatching, QuietLease, LocalWatched
<1>9. CASE Boot(h)
  <2>1. Moves(h) /\ Quiet /\ HistoryKept /\ op'[h].pc = "idle"
    BY <1>1, <1>9, BootIs
  <2> QED
    BY <2>1, NotWatching, QuietLease, LocalWatched DEF HistoryKept
<1>10. ASSUME NEW commits \in BOOLEAN, RemoveHere(h, commits)
       PROVE  \A k \in Replicas : Watched(k)'
  <2>1. /\ Moves(h) /\ boot' = boot /\ op' = op
        /\ op[h].pc \in {"idle", "settling", "launching"} /\ own'[h].child = NoVault
        /\ \/ RemoveAccount(Me(h)) /\ left' = (IF lease'.live THEN left ELSE 0)
           \/ Quiet
    BY <1>1, <1>10, RemoveHereIs
  <2>2. StepsLease(h)
    BY <2>1, QuietLease DEF StepsLease
  <2>3. CASE RemoveAccount(Me(h)) /\ left' = (IF lease'.live THEN left ELSE 0)
    <3>1. account.status = "active" /\ account'.status = "removed"
      BY <1>1, <2>3, RemovedStore
    <3>2. Watched(h)'
      BY <2>1, <3>1 DEF Watched, Pc
    <3> QED
      BY <2>1, <2>2, <3>1, <3>2, LocalWatched DEF RemovedStays
  <2>4. CASE Quiet
    <3>1. Watched(h)'
      <4>1. CASE op[h].pc = "settling"
        BY <2>1, <2>4, <4>1, QuietLease, KeepsWatching DEF SameWork
      <4>2. CASE op[h].pc # "settling"
        BY <2>1, <4>2, NotWatching
      <4> QED
        BY <4>1, <4>2
    <3> QED
      BY <2>1, <2>2, <2>4, <3>1, QuietLease, LocalWatched
  <2> QED
    BY <2>1, <2>3, <2>4
<1> QED
  BY <1>2, <1>3, <1>4, <1>5, <1>6, <1>7, <1>8, <1>9, <1>10

\* An interval: a window that is not lost has more than the margin left, so it ends before
\* the lease does.
LEMMA TickWatched ==
  ASSUME Guarding, Tick, UNCHANGED scope
  PROVE  \A k \in Replicas : Watched(k)'
<1> DEFINE renewed == {h \in Replicas : Renewing(h) /\ reach[h] /\ Renewable(MyLease(h))}
<1>1. /\ Typed /\ own' = own /\ HistoryKept /\ RowKept
      /\ \A k \in Replicas :
           /\ op'[k].pc = op[k].pc /\ op'[k].epoch = op[k].epoch
           /\ op'[k].guarded = op[k].guarded
  BY TickIs DEF Guarding
<1>2. /\ left' = (IF renewed # {} THEN TTL ELSE IF left = 0 THEN 0 ELSE left - 1)
      /\ IF left > 0 /\ left' = 0 THEN Expire ELSE UNCHANGED vars
      /\ op' = [h \in Replicas |-> Renewed(h, renewed)]
      /\ \A h \in Replicas : ~Urgent(h)
  BY DEF Tick
<1> SUFFICES ASSUME NEW k \in Replicas PROVE Watched(k)'
  OBVIOUS
<1>3. /\ Watched(k) /\ Placed(k) /\ own[k] \in Owners /\ op[k] \in Ops /\ left \in 0..TTL
      /\ (lease.live <=> left > 0) /\ IInv /\ MyLease(k)' = MyLease(k) /\ ~Urgent(k)
      /\ op'[k] = Renewed(k, renewed)
  BY <1>1, <1>2, Present DEF Guarding, MyLease, Me, HistoryKept
<1>4. op[k].pc # "leased"
  BY <1>3 DEF Urgent, Pc
<1> SUFFICES ASSUME op[k].pc \in {"native", "stopped", "settling"}, op[k].guarded
    PROVE Watched(k)'
  BY <1>1, <1>4 DEF Watched, Pc
<1>5. ~op[k].lost /\ Renewing(k)
  BY <1>3 DEF Urgent, Renewing, Pc
<1>6. CASE LeaseValid(MyLease(k)) /\ op[k].window <= left
  <2>1. op[k].window > Margin /\ lease.live /\ left > 0 /\ op[k].window \in 0..TTL
    BY <1>3, <1>5, <1>6 DEF Watched, LeaseValid, Pc, Ops, IInv, RemovedUnleased
  <2>2. account.status # "removed"
    BY <1>3, <2>1 DEF IInv, RemovedUnleased
  <2>3. Renewable(MyLease(k))
    BY <1>6, <2>2 DEF Renewable
  <2>4. left' >= op[k].window - 1 /\ left' > 0 /\ (renewed # {} => left' = TTL)
    BY <1>2, <1>3, <1>6, <2>1
  <2>5. lease' = lease
    BY <1>2, <2>4 DEF vars
  <2>6. LeaseValid(MyLease(k))'
    BY <1>3, <1>6, <2>5 DEF LeaseValid
  <2>7. CASE reach[k]
    <3>1. k \in renewed
      BY <1>5, <2>3, <2>7
    <3>2. op'[k] = [op[k] EXCEPT !.window = TTL] /\ left' = TTL
      BY <1>3, <1>5, <2>4, <3>1 DEF Renewed
    <3>3. op'[k].window = TTL
      BY <1>3, <3>2 DEF Ops
    <3> QED
      BY <1>1, <1>4, <2>6, <3>2, <3>3 DEF Watched, Pc
  <2>8. CASE ~reach[k]
    <3> DEFINE w == op[k].window - 1
    <3>1. k \notin renewed /\ op[k].window # 0
      BY <2>1, <2>8
    <3>2. op'[k] = [op[k] EXCEPT !.window = w, !.lost = op[k].lost \/ WindowOver(w)]
      BY <1>3, <1>5, <2>8, <3>1 DEF Renewed
    <3>3. w \in 0..TTL /\ w <= left'
      BY <2>1, <2>4
    <3> HIDE DEF w
    <3>4. op'[k].window = w
      BY <1>3, <3>2 DEF Ops
    <3>5. op'[k].lost = (op[k].lost \/ WindowOver(w))
      BY <1>3, <3>2 DEF Ops
    <3>6. ~op'[k].lost => w > Margin
      <4>1. w \in Int /\ Margin \in Int
        BY <3>3, BoundsAssumption DEF BoundsAssumption
      <4>2. ~op'[k].lost => ~WindowOver(w)
        BY <3>5
      <4> QED
        BY <4>1, <4>2 DEF WindowOver
    <3> QED
      BY <1>1, <1>4, <2>6, <3>3, <3>4, <3>6 DEF Watched, Pc
  <2> QED
    BY <2>7, <2>8
<1>7. CASE Pc(k) = "settling" /\ own[k].child = NoVault /\ account.status = "removed"
  BY <1>1, <1>4, <1>7 DEF Watched, Pc, RowKept
<1> QED
  BY <1>3, <1>6, <1>7 DEF Watched, Pc

\* Every step keeps every window within its lease.
LEMMA NextWatched == Guarding /\ [CNext]_allVars => Guarding'
<1> SUFFICES ASSUME Guarding, [CNext]_allVars PROVE \A k \in Replicas : Watched(k)'
  BY NextTyped DEF Guarding
<1>1. CASE UNCHANGED allVars
  BY <1>1 DEF Guarding, Watched, Pc, LeaseValid, MyLease, Me, allVars, localVars, vars
<1>2. CASE Tick /\ UNCHANGED scope
  BY <1>2, TickWatched
<1>3. ASSUME NEW h \in Replicas, UNCHANGED scope, Progress(h)
      PROVE  \A k \in Replicas : Watched(k)'
  BY <1>3, AdmissionWatched, RequestWatched, SettlementWatched, OtherWatched DEF Progress
<1>4. ASSUME NEW h \in Replicas, UNCHANGED scope, SettleRound(h)
      PROVE  \A k \in Replicas : Watched(k)'
  BY <1>4, SettlementWatched DEF SettleRound
<1>5. ASSUME NEW h \in Replicas, UNCHANGED scope, ReplicaStep(h)
      PROVE  \A k \in Replicas : Watched(k)'
  BY <1>5, AdmissionWatched, SettlementWatched, OtherWatched DEF ReplicaStep
<1> QED
  BY <1>1, <1>2, <1>3, <1>4, <1>5 DEF CNext

\* The lease outlasts every window, in every reachable state.
THEOREM WindowsWithinLease == CSpec => []Guarding
<1>1. CustodyInit => \A h \in Replicas : Watched(h)
  BY DEF CustodyInit, Watched, Pc, NoOp
<1> QED
  BY <1>1, InitTyped, NextWatched, PTL DEF CSpec, Guarding

\* A refresh child of a request only ever runs on the replica that holds the lease and its
\* epoch: the window ends, and the child with it, before the lease can be taken over.
THEOREM RequestsHoldTheirLease == CSpec => []RequestHoldsLease
<1>1. Guarding => RequestHoldsLease
  BY DEF Guarding, Typed, RequestHoldsLease, ChildHoldsLease, Placed, Watched, Pc
<1> QED
  BY <1>1, WindowsWithinLease, PTL

---------------------------------------------------------------------------
(***************************************************************************)
(* What an owner delivers, and what it opens again with, is committed; and *)
(* a rotation that is not committed is held under its lease.  The argument *)
(* goes through what one step does to the credential of its replica        *)
(* (Same, Caught, Based and the like), then through three layers on top    *)
(* of the types and windows above: what is published or may be worked with *)
(* is committed (Durable); revisions name later and later generations, and *)
(* at most one generation is not committed, the provider's newest, on one  *)
(* replica (Rotations); and while requests only renew, that generation is  *)
(* with an operation under its lease (Held).                               *)
(***************************************************************************)

(* What a step does to the credential of its replica. *)

\* Phases in which an owner that may work is not being worked on, and those of an
\* operation with a baseline.
Resting == {"idle", "admitted", "leased", "launching"}
Working == {"native", "stopped", "settling", "launching", "probing"}

\* The credential, the journal and the newest generation stay.
Same(h) ==
  own'[h].vault = own[h].vault /\ own'[h].journal = own[h].journal /\ Top(h)' = Top(h)

\* A reconciled owner has what the row has.
Caught(h) ==
  /\ account.status = "active" /\ account.revision > own[h].vault.revision
  /\ own'[h].vault = [revision |-> account.revision, vault |-> account.vault]
  /\ own'[h].journal = account.vault /\ Top(h)' = account.vault

\* An operation keeps its baseline, or takes the credential of an owner at rest.
Based(h) == op'[h].pc \in Working =>
  \/ op[h].pc \in Working /\ op'[h].before = op[h].before
  \/ op'[h].before = own'[h].vault /\ op[h].pc \in Resting /\ Usable(own[h])

\* Only an owner at rest, or one whose credential was published, is left for work.
Opens(h) == op'[h].pc \in Resting /\ Usable(own'[h]) =>
  \/ Caught(h)
  \/ own'[h].vault = own[h].vault /\ (Published(h) \/ (op[h].pc \in Resting /\ Usable(own[h])))

\* Nothing becomes published but by a publication.
Serves(h) == Published(h)' => Published(h) /\ own'[h].vault = own[h].vault

\* A request's operation goes on, and one that begins has what the row has.
Requesting == {"native", "stopped", "settling"}
Stays(h) == account.status = "active" /\ ~scope.recovery =>
  /\ op[h].pc \in Requesting =>
       /\ Same(h) /\ op'[h].pc \in Requesting /\ op'[h].before = op[h].before
       /\ op[h].pc # "native" => op'[h].pc # "native" /\ own'[h].child = own[h].child
  /\ op[h].pc \notin Requesting /\ op'[h].pc \in Requesting =>
       account.revision <= op'[h].before.revision

Common(h) == Moves(h) /\ committed' = committed /\ Based(h) /\ Opens(h) /\ Serves(h)
Plain(h) ==
  /\ Common(h) /\ account' = account /\ provider' = provider /\ forfeited' = forfeited
  /\ Same(h) \/ Caught(h)
  /\ Stays(h)
  /\ op'[h].pc = "down" => op[h].pc = "down"

\* A reconciled owner is the owner, or caught up with the row.
LEMMA ReconciledView ==
  ASSUME Typed, NEW h \in Replicas, account.status = "active", Moves(h),
         own'[h].vault = Reconciled(own[h]).vault,
         own'[h].journal = Reconciled(own[h]).journal,
         own'[h].child \in {Reconciled(own[h]).child, NoVault}, own[h].child = NoVault
  PROVE  (own'[h].vault = own[h].vault /\ Same(h)) \/ Caught(h)
<1>1. own[h] \in Owners /\ IInv /\ Imported
  BY Present
<1>2. \/ Reconciled(own[h]) = own[h]
      \/ /\ account.revision > own[h].vault.revision
         /\ Reconciled(own[h]).vault = [revision |-> account.revision, vault |-> account.vault]
         /\ Reconciled(own[h]).journal = account.vault /\ Reconciled(own[h]).child = NoVault
  BY <1>1, ReconciledIs
<1> QED
  BY <1>2 DEF Same, Caught, Top

\* A leased operation has an unremoved account.
LEMMA LeasedActive ==
  ASSUME Guarding, NEW h \in Replicas, op[h].pc = "leased"
  PROVE  account.status = "active"
<1>1. account.status # "removed"
  BY DEF Guarding, Typed, IInv, RemovedUnleased, Watched, Pc, LeaseValid
<1>2. account \in Accounts /\ account.status # "missing"
  BY DEF Guarding, Typed, IInv, TypeOK, Imported
<1> QED
  BY <1>1, <1>2 DEF Accounts, Statuses

\* Steps of a request before its baseline, and its baseline.
LEMMA AdmissionPlain ==
  ASSUME Guarding, NEW h \in Replicas, UNCHANGED scope,
         \/ TokenAdmit(h) \/ TokenRemoved(h) \/ TokenContended(h) \/ TokenBaseline(h)
         \/ \E b \in BOOLEAN : \/ TokenAcquire(h, b) \/ TokenBaselineFails(h, b)
                               \/ TokenServedUnderLease(h, b)
  PROVE  Plain(h)
<1>1. Typed /\ own[h] \in Owners /\ op[h] \in Ops /\ IInv /\ Imported /\ Placed(h) /\ Agreeing(h)
  BY Present DEF Guarding
<1>2. CASE TokenAdmit(h)
  <2>1. /\ Moves(h) /\ Quiet /\ HistoryKept
        /\ account.status = "active" /\ op[h].pc \in {"idle", "launching"}
        /\ own'[h] = Reconciled(own[h]) /\ SameWork(op'[h], op[h])
        /\ \/ op'[h].pc = op[h].pc
           \/ op[h].pc = "idle" /\ op'[h].pc = "admitted" /\ own[h].available
    BY <1>1, <1>2, TokenAdmitIs
  <2>2. own[h].child = NoVault
    BY <1>1, <2>1 DEF Placed, Pc
  <2>3. (own'[h].vault = own[h].vault /\ Same(h)) \/ Caught(h)
    BY <1>1, <2>1, <2>2, ReconciledView
  <2>4. Usable(own'[h]) = Usable(own[h])
    BY <1>1, <2>1, ReconciledIs DEF Usable, Recoverable
  <2>5. Based(h) /\ Opens(h) /\ Serves(h) /\ Stays(h)
    BY <2>1, <2>3, <2>4 DEF Stays, Requesting, Based, Opens, Serves, Published, Pc, Resting, Working, SameWork
  <2> QED
    BY <2>1, <2>3, <2>5 DEF Plain, Common, Quiet, vars, HistoryKept
<1>3. CASE TokenRemoved(h)
  <2>1. /\ Moves(h) /\ Quiet /\ HistoryKept /\ op' = op
        /\ op[h].pc = "idle" /\ Shut(own'[h], own[h])
    BY <1>1, <1>3, TokenRemovedIs
  <2>2. own[h].child = NoVault
    BY <1>1, <2>1 DEF Placed, Pc
  <2>3. Same(h)
    BY <2>1, <2>2 DEF Same, Top, Shut, SameCredential
  <2>4. Based(h) /\ Opens(h) /\ Serves(h) /\ Stays(h)
    BY <2>1 DEF Stays, Requesting, Based, Opens, Serves, Published, Pc, Resting, Working, Shut
  <2> QED
    BY <2>1, <2>3, <2>4 DEF Plain, Common, Quiet, vars, HistoryKept
<1>4. CASE TokenContended(h)
  <2>1. /\ Moves(h) /\ Quiet /\ HistoryKept
        /\ op[h].pc = "admitted" /\ op'[h].pc = "idle"
        /\ \/ own'[h] = own[h]
           \/ Shut(own'[h], own[h])
    BY <1>1, <1>4, TokenContendedIs
  <2>2. own[h].child = NoVault
    BY <1>1, <2>1 DEF Placed, Pc
  <2>3. Same(h)
    BY <2>1, <2>2 DEF Same, Top, Shut, SameCredential
  <2>4. Based(h) /\ Opens(h) /\ Serves(h) /\ Stays(h)
    BY <2>1 DEF Stays, Requesting, Based, Opens, Serves, Published, Pc, Resting, Working, Shut, SameCredential
  <2> QED
    BY <2>1, <2>3, <2>4 DEF Plain, Common, Quiet, vars, HistoryKept
<1>5. CASE TokenBaseline(h)
  <2>1. /\ Moves(h) /\ Quiet /\ HistoryKept
        /\ op[h].pc = "leased" /\ own'[h] = Reconciled(own[h])
        /\ op'[h].pc = "native" /\ op'[h].before = own'[h].vault
    BY <1>1, <1>5, TokenBaselineIs
  <2>2. own[h].child = NoVault /\ Usable(own[h])
    BY <1>1, <2>1 DEF Placed, Agreeing, Pc, Usable
  <2>3. (own'[h].vault = own[h].vault /\ Same(h)) \/ Caught(h)
    BY <1>1, <2>1, <2>2, ReconciledView, LeasedActive
  <2>4. Based(h) /\ Opens(h) /\ Serves(h)
    BY <2>1, <2>2 DEF Based, Opens, Serves, Published, Pc, Resting, Working
  <2>5. account.revision <= op'[h].before.revision
    <3>1. account.revision \in Nat
      BY <1>1 DEF IInv, TypeOK, Accounts, Revisions
    <3> QED
      BY <1>1, <2>1, <3>1, ReconciledIs
  <2>6. Stays(h)
    BY <2>1, <2>5 DEF Stays, Requesting
  <2> QED
    BY <2>1, <2>3, <2>4, <2>6 DEF Plain, Common, Quiet, vars, HistoryKept
<1>6. ASSUME NEW b \in BOOLEAN, TokenAcquire(h, b) PROVE Plain(h)
  <2>1. /\ Moves(h) /\ AcquireLease(Me(h)) /\ HistoryKept
        /\ op[h].pc = "admitted" /\ own' = own /\ op'[h].pc \in {"idle", "leased"}
    BY <1>1, <1>6, TokenAcquireIs
  <2>2. Same(h) /\ Based(h) /\ Opens(h) /\ Serves(h) /\ Stays(h)
    BY <2>1 DEF Stays, Requesting, Same, Top, Based, Opens, Serves, Published, Pc, Resting, Working
  <2> QED
    BY <2>1, <2>2 DEF Plain, Common, AcquireLease, HistoryKept
<1>7. ASSUME NEW b \in BOOLEAN, TokenBaselineFails(h, b) PROVE Plain(h)
  <2>1. /\ Moves(h) /\ Released(h, b) /\ HistoryKept
        /\ op[h].pc = "leased" /\ own' = own /\ op'[h].pc = "idle"
    BY <1>1, <1>7, TokenBaselineFailsIs
  <2>2. RowKept
    BY <1>1, <2>1, ReleasedStore DEF Pc
  <2>3. Same(h) /\ Based(h) /\ Opens(h) /\ Serves(h) /\ Stays(h)
    BY <2>1 DEF Stays, Requesting, Same, Top, Based, Opens, Serves, Published, Pc, Resting, Working
  <2> QED
    BY <2>1, <2>2, <2>3 DEF Plain, Common, RowKept, HistoryKept
<1>8. ASSUME NEW b \in BOOLEAN, TokenServedUnderLease(h, b) PROVE Plain(h)
  <2>1. /\ Moves(h) /\ Released(h, b) /\ UNCHANGED <<reach, boot, provider, forfeited>>
        /\ op[h].pc = "leased" /\ account.status = "active" /\ op'[h].pc = "idle"
        /\ own'[h] = Reconciled(own[h])
    BY <1>1, <1>8, TokenServedUnderLeaseIs
  <2>2. RowKept
    BY <1>1, <2>1, ReleasedStore DEF Pc
  <2>3. own[h].child = NoVault /\ Usable(own[h])
    BY <1>1, <2>1 DEF Placed, Agreeing, Pc, Usable
  <2>4. (own'[h].vault = own[h].vault /\ Same(h)) \/ Caught(h)
    BY <1>1, <2>1, <2>3, ReconciledView
  <2>5. Based(h) /\ Opens(h) /\ Serves(h) /\ Stays(h)
    BY <2>1, <2>3, <2>4 DEF Stays, Requesting, Based, Opens, Serves, Published, Pc, Resting, Working
  <2> QED
    BY <2>1, <2>2, <2>4, <2>5 DEF Plain, Common, RowKept
<1> QED
  BY <1>2, <1>3, <1>4, <1>5, <1>6, <1>7, <1>8

\* The steps of a request under its lease that leave its credential as it is.
LEMMA RequestPlain ==
  ASSUME Guarding, NEW h \in Replicas, UNCHANGED scope,
         \/ EnsureRefreshOwner(h) \/ EnsureRefreshOwnerFails(h)
         \/ \E result \in Results : NativeHangs(h, result)
         \/ TokenPublishRefused(h)
         \/ \E lands \in BOOLEAN : TokenPublishDeferred(h, lands) /\ UNCHANGED vars
         \/ \E lands \in BOOLEAN : TokenDeliver(h, lands)
  PROVE  Plain(h)
<1>1. Typed /\ own[h] \in Owners /\ op[h] \in Ops /\ IInv /\ Imported /\ Placed(h) /\ Agreeing(h)
  BY Present DEF Guarding
<1>2. CASE EnsureRefreshOwner(h)
  <2>1. /\ Moves(h) /\ Quiet /\ HistoryKept /\ op' = op
        /\ op[h].pc = "native" /\ own[h].child = NoVault
        /\ SameCredential(own'[h], own[h]) /\ own'[h].child = own[h].journal
    BY <1>1, <1>2, EnsureRefreshOwnerIs
  <2>2. Same(h)
    BY <2>1 DEF Same, Top, SameCredential
  <2>3. Based(h) /\ Opens(h) /\ Serves(h) /\ Stays(h)
    BY <2>1, <2>2 DEF Stays, Requesting, Based, Opens, Serves, Published, Pc, Resting, Working
  <2> QED
    BY <2>1, <2>2, <2>3 DEF Plain, Common, Quiet, vars, HistoryKept
<1>3. ASSUME Retires(h), op[h].pc \in {"native", "stopped"}
      PROVE  /\ Moves(h) /\ Same(h) /\ Based(h) /\ Opens(h) /\ Serves(h) /\ Stays(h)
             /\ op'[h].pc # "down"
  BY <1>3 DEF Stays, Requesting, Retires, Same, Top, SameCredential, SameWork, Based, Opens, Serves, Published, Pc,
              Resting, Working
<1>4. CASE EnsureRefreshOwnerFails(h)
  <2>1. Retires(h) /\ Quiet /\ HistoryKept /\ op[h].pc = "native"
    BY <1>1, <1>4, EnsureRefreshOwnerFailsIs
  <2> QED
    BY <1>3, <2>1 DEF Plain, Common, Quiet, vars, HistoryKept
<1>5. ASSUME NEW result \in Results, NativeHangs(h, result) PROVE Plain(h)
  <2>1. Retires(h) /\ EvidenceOnly /\ HistoryKept /\ op[h].pc = "native"
    BY <1>1, <1>5, NativeHangsIs
  <2> QED
    BY <1>3, <2>1 DEF Plain, Common, EvidenceOnly, HistoryKept
<1>6. CASE TokenPublishRefused(h)
  <2>1. Quiet /\ HistoryKept /\ op[h].pc = "stopped" /\ Moves(h)
    BY <1>1, <1>6, TokenPublishRefusedIs
  <2>2. CASE /\ account.status = "removed" /\ op'[h].pc = "published"
             /\ op'[h].result = "none" /\ Shut(own'[h], own[h])
    <3>1. own[h].child = NoVault
      BY <1>1, <2>1 DEF Placed, Pc
    <3>2. Same(h)
      BY <2>2, <3>1 DEF Same, Top, Shut, SameCredential
    <3>3. Based(h) /\ Opens(h) /\ Serves(h) /\ Stays(h)
      BY <2>1, <2>2 DEF Stays, Requesting, Based, Opens, Serves, Published, Pc, Resting, Working, Shut
    <3> QED
      BY <2>1, <2>2, <3>2, <3>3 DEF Plain, Common, Quiet, vars, HistoryKept
  <2>3. CASE Retires(h)
    BY <1>3, <2>1, <2>3 DEF Plain, Common, Quiet, vars, HistoryKept
  <2> QED
    BY <1>1, <1>6, <2>2, <2>3, TokenPublishRefusedIs
<1>7. ASSUME NEW lands \in BOOLEAN, TokenPublishDeferred(h, lands), UNCHANGED vars
      PROVE  Plain(h)
  <2>1. Retires(h) /\ HistoryKept /\ op[h].pc = "stopped"
    BY <1>1, <1>7, TokenPublishDeferredIs
  <2> QED
    BY <1>3, <1>7, <2>1 DEF Plain, Common, vars, HistoryKept
<1>8. ASSUME NEW lands \in BOOLEAN, TokenDeliver(h, lands) PROVE Plain(h)
  <2>1. /\ Moves(h) /\ Released(h, lands) /\ UNCHANGED <<reach, boot, provider, forfeited>>
        /\ op[h].pc = "published" /\ op'[h].pc = "idle"
        /\ SameCredential(own'[h], own[h]) /\ own'[h].child = own[h].child
        /\ Usable(own'[h]) => Usable(own[h])
    BY <1>1, <1>8, TokenDeliverIs
  <2>2. RowKept
    BY <1>1, <2>1, ReleasedStore DEF Pc
  <2>3. Same(h)
    BY <2>1 DEF Same, Top, SameCredential
  <2>4. Based(h) /\ Opens(h) /\ Serves(h) /\ Stays(h)
    BY <2>1 DEF Stays, Requesting, Based, Opens, Serves, Published, Pc, Resting, Working, SameCredential
  <2> QED
    BY <2>1, <2>2, <2>3, <2>4 DEF Plain, Common, RowKept
<1> QED
  BY <1>2, <1>4, <1>5, <1>6, <1>7, <1>8

\* The other steps that leave the credential as it is, or catch it up.
LEMMA OtherPlain ==
  ASSUME Guarding, NEW h \in Replicas, UNCHANGED scope,
         \/ RecoverLaunch(h) \/ Partition(h)
         \/ \E b \in BOOLEAN : SettleClose(h, b) \/ RecoverAcquire(h, b) \/ RecoverAbort(h, b)
         \/ \E refused \in BOOLEAN, child \in {NoVault, own[h].journal} :
              RecoverLaunchFails(h, refused, child)
  PROVE  Plain(h)
<1>1. Typed /\ own[h] \in Owners /\ op[h] \in Ops /\ IInv /\ Imported /\ Placed(h) /\ Agreeing(h)
  BY Present DEF Guarding
<1>2. CASE RecoverLaunch(h)
  <2>1. /\ Moves(h) /\ Quiet /\ HistoryKept
        /\ op[h].pc = "launching" /\ SameCredential(own'[h], own[h])
        /\ own'[h].child = own[h].journal
        /\ op'[h].pc = "probing" /\ SameWork(op'[h], op[h])
    BY <1>1, <1>2, RecoverLaunchIs
  <2>2. own[h].child = NoVault
    BY <1>1, <2>1 DEF Placed, Pc
  <2>3. Same(h)
    BY <2>1, <2>2 DEF Same, Top, SameCredential
  <2>4. Based(h) /\ Opens(h) /\ Serves(h) /\ Stays(h)
    BY <2>1 DEF Stays, Requesting, Based, Opens, Serves, Published, Pc, Resting, Working, SameWork
  <2> QED
    BY <2>1, <2>3, <2>4 DEF Plain, Common, Quiet, vars, HistoryKept
<1>3. CASE Partition(h)
  <2>1. Moves(h) /\ Quiet /\ UNCHANGED <<own, op, boot, provider, delivered, forfeited>>
    BY <1>1, <1>3, PartitionIs
  <2>2. Same(h) /\ Based(h) /\ Opens(h) /\ Serves(h) /\ Stays(h)
    BY <2>1 DEF Stays, Requesting, Same, Top, Based, Opens, Serves, Published, Pc, Resting, Working
  <2> QED
    BY <2>1, <2>2 DEF Plain, Common, Quiet, vars
<1>4. ASSUME NEW b \in BOOLEAN, SettleClose(h, b) PROVE Plain(h)
  <2>1. /\ Moves(h) /\ Released(h, b) /\ HistoryKept
        /\ op[h].pc = "closing" /\ op'[h].pc = "idle"
        /\ SameCredential(own'[h], own[h]) /\ own'[h].child = own[h].child
    BY <1>1, <1>4, SettleCloseIs
  <2>2. RowKept
    BY <1>1, <2>1, ReleasedStore DEF Pc
  <2>3. Same(h)
    BY <2>1 DEF Same, Top, SameCredential
  <2>4. Based(h) /\ Opens(h) /\ Serves(h) /\ Stays(h)
    BY <2>1 DEF Stays, Requesting, Based, Opens, Serves, Published, Pc, Resting, Working, SameCredential
  <2> QED
    BY <2>1, <2>2, <2>3, <2>4 DEF Plain, Common, RowKept, HistoryKept
<1>5. ASSUME NEW b \in BOOLEAN, RecoverAcquire(h, b) PROVE Plain(h)
  <2>1. /\ Moves(h) /\ AcquireLease(Me(h)) /\ HistoryKept
        /\ op[h].pc = "idle" /\ Recoverable(own[h])
        /\ \/ own' = own /\ op' = op
           \/ /\ own'[h].vault = Reconciled(own[h]).vault
              /\ own'[h].journal = Reconciled(own[h]).journal
              /\ own'[h].child = NoVault /\ Recoverable(own'[h])
              /\ op'[h].pc = "launching" /\ op'[h].before = own'[h].vault
    BY <1>1, <1>5, RecoverAcquireIs
  <2>2. own[h].child = NoVault /\ Usable(own[h])
    BY <1>1, <2>1 DEF Placed, Pc, Usable
  <2>3. (own'[h].vault = own[h].vault /\ Same(h)) \/ Caught(h)
    <3>1. CASE own' = own
      BY <3>1 DEF Same, Top
    <3>2. CASE own' # own
      BY <1>1, <2>1, <2>2, <3>2, ReconciledView DEF AcquireLease
    <3> QED
      BY <3>1, <3>2
  <2>4. Based(h) /\ Opens(h) /\ Serves(h) /\ Stays(h)
    BY <2>1, <2>2, <2>3 DEF Stays, Requesting, Based, Opens, Serves, Published, Pc, Resting, Working
  <2> QED
    BY <2>1, <2>3, <2>4 DEF Plain, Common, AcquireLease, HistoryKept
<1>6. ASSUME NEW b \in BOOLEAN, RecoverAbort(h, b) PROVE Plain(h)
  <2>1. /\ Moves(h) /\ Released(h, b) /\ HistoryKept
        /\ op[h].pc = "launching" /\ op'[h].pc = "idle"
        /\ \/ own'[h] = own[h]
           \/ Shut(own'[h], own[h])
    BY <1>1, <1>6, RecoverAbortIs
  <2>2. RowKept
    BY <1>1, <2>1, ReleasedStore DEF Pc
  <2>3. own[h].child = NoVault
    BY <1>1, <2>1 DEF Placed, Pc
  <2>4. Same(h)
    BY <2>1, <2>3 DEF Same, Top, Shut, SameCredential
  <2>5. Based(h) /\ Opens(h) /\ Serves(h) /\ Stays(h)
    BY <2>1 DEF Stays, Requesting, Based, Opens, Serves, Published, Pc, Resting, Working, Shut, SameCredential
  <2> QED
    BY <2>1, <2>2, <2>4, <2>5 DEF Plain, Common, RowKept, HistoryKept
<1>7. ASSUME NEW refused \in BOOLEAN, NEW child \in {NoVault, own[h].journal},
             RecoverLaunchFails(h, refused, child)
      PROVE  Plain(h)
  <2>1. /\ Moves(h) /\ Quiet /\ HistoryKept /\ op[h].pc = "launching"
        /\ SameCredential(own'[h], own[h]) /\ own'[h].child = child /\ ~Usable(own'[h])
        /\ op'[h].pc = "settling" /\ SameWork(op'[h], op[h])
    BY <1>1, <1>7, RecoverLaunchFailsIs
  <2>2. own[h].child = NoVault
    BY <1>1, <2>1 DEF Placed, Pc
  <2>3. Same(h)
    BY <2>1, <2>2 DEF Same, Top, SameCredential
  <2>4. Based(h) /\ Opens(h) /\ Serves(h) /\ Stays(h)
    BY <1>1, <2>1 DEF Stays, Requesting, Based, Opens, Serves, Published, Pc, Resting, Working,
                     SameWork, Placed
  <2> QED
    BY <2>1, <2>3, <2>4 DEF Plain, Common, Quiet, vars, HistoryKept
<1> QED
  BY <1>2, <1>3, <1>4, <1>5, <1>6, <1>7

\* The child's newest generation reaches the journal.
Lifts(h) ==
  /\ Common(h) /\ UNCHANGED <<account, provider, forfeited, op>>
  /\ op[h].pc # "down" /\ own[h].child # NoVault
  /\ own'[h].vault = own[h].vault /\ own'[h].journal = Top(h) /\ Top(h)' = Top(h)

\* A stopped owner is recorded with the newest generation.
Tells(h) ==
  /\ Moves(h) /\ provider' = provider /\ forfeited' = forfeited
  /\ op[h].pc \in {"native", "settling"} /\ op'[h].pc # "down"
  /\ Told(own'[h], own[h], Top(h), op[h].before)

\* A probed owner is recorded with its journal.
Probes(h) ==
  /\ Common(h) /\ UNCHANGED <<account, provider, forfeited>>
  /\ op[h].pc = "probing" /\ op'[h].pc = "settling" /\ op'[h].before = op[h].before
  /\ own'[h].journal = own[h].journal /\ Top(h)' = Top(h)
  /\ own'[h].vault.vault = own[h].journal
  /\ own'[h].vault.revision = IF own[h].journal # op[h].before.vault
                              THEN op[h].before.revision + 1 ELSE own[h].vault.revision

\* A child is lost, or a process, or the account.
Drops(h) ==
  /\ Common(h) /\ provider' = provider /\ (forfeited => forfeited')
  /\ account' = account \/ account'.status # "active"
  /\ own'[h].journal = own[h].journal /\ Top(h)' = own[h].journal
  /\ own'[h].vault.revision = own[h].vault.revision
  /\ own'[h].vault.vault = own[h].vault.vault \/
       (own'[h].vault.vault = own[h].journal /\ own[h].child # NoVault)
  /\ own'[h].child = NoVault /\ (op'[h].pc \in Requesting => op' = op)
  /\ account.status = "active" => GivesUp(h) \/ (KillForfeits(h) /\ op' = op)

\* The child rotates.
Refreshes(h) ==
  /\ Common(h) /\ UNCHANGED <<account, forfeited, op>>
  /\ op[h].pc # "down" /\ own[h].child # NoVault
  /\ Top(h) = provider /\ Top(h)' = provider + 1 /\ provider' = provider + 1
  /\ own'[h].vault = own[h].vault /\ own'[h].journal = own[h].journal

\* A settlement that gives up has lost its lease, or its credential is not newer than the row.
Ended(h) ==
  \/ op[h].pc = "native" /\ op'[h].pc = "stopped"
  \/ /\ op'[h].pc = "idle"
     /\ \/ ~LeaseValid(MyLease(h)) \/ account.status # "active"
        \/ ~(account.revision < own'[h].vault.revision)

\* The child and the provider.
LEMMA ChildView ==
  ASSUME Guarding, NEW h \in Replicas, UNCHANGED scope
  PROVE  /\ ChildJournal(h) \/ SettleStop(h) => Lifts(h)
         /\ ChildRefresh(h) => Refreshes(h)
         /\ SettleKill(h) \/ LoseCustody(h) \/ Crash(h) => Drops(h)
<1>1. Typed /\ own[h] \in Owners /\ op[h] \in Ops /\ Placed(h)
  BY Present DEF Guarding
<1>2. ASSUME ChildJournal(h) \/ SettleStop(h) PROVE Lifts(h)
  <2>1. /\ Moves(h) /\ Quiet /\ HistoryKept /\ op' = op
        /\ own[h].child # NoVault
        /\ own'[h].vault = own[h].vault /\ own'[h].journal = own[h].child
        /\ own'[h].child \in {own[h].child, NoVault}
    BY <1>1, <1>2, ChildJournalIs
  <2>2. op[h].pc \in {"native", "settling", "probing"}
    BY <1>1, <2>1 DEF Placed, Pc
  <2>3. Top(h) = own[h].child /\ Top(h)' = own[h].child
    BY <2>1 DEF Top
  <2>4. Based(h) /\ Opens(h) /\ Serves(h)
    BY <2>1, <2>2 DEF Based, Opens, Serves, Published, Pc, Resting, Working
  <2> QED
    BY <2>1, <2>2, <2>3, <2>4 DEF Lifts, Common, Quiet, vars, HistoryKept
<1>3. ASSUME ChildRefresh(h) PROVE Refreshes(h)
  <2>1. /\ Moves(h) /\ Quiet /\ UNCHANGED <<reach, boot, delivered, forfeited>> /\ op' = op
        /\ own[h].child = provider /\ own[h].child # NoVault
        /\ provider' = provider + 1 /\ provider + 1 \in Vaults
        /\ SameCredential(own'[h], own[h]) /\ own'[h].child = provider + 1
    BY <1>1, <1>3, ChildRefreshIs
  <2>2. op[h].pc \in {"native", "settling", "probing"}
    BY <1>1, <2>1 DEF Placed, Pc
  <2>3. Top(h) = provider /\ Top(h)' = provider + 1
    BY <2>1 DEF Top
  <2>4. Based(h) /\ Opens(h) /\ Serves(h)
    BY <2>1, <2>2 DEF Based, Opens, Serves, Published, Pc, Resting, Working
  <2> QED
    BY <2>1, <2>2, <2>3, <2>4 DEF Refreshes, Common, Quiet, vars, SameCredential
<1>4. ASSUME SettleKill(h) PROVE Drops(h)
  <2>1. /\ Moves(h) /\ Quiet /\ UNCHANGED <<reach, boot, provider, delivered>> /\ op' = op
        /\ KillForfeits(h) /\ op[h].pc = "settling" /\ own[h].child # NoVault
        /\ SameCredential(own'[h], own[h]) /\ own'[h].child = NoVault
    BY <1>1, <1>4, SettleKillIs
  <2>2. Based(h) /\ Opens(h) /\ Serves(h)
    BY <2>1 DEF Based, Opens, Serves, Published, Pc, Resting, Working
  <2>3. (forfeited => forfeited') /\ Top(h)' = own[h].journal
    BY <2>1 DEF KillForfeits, Top, SameCredential
  <2> QED
    BY <2>1, <2>2, <2>3 DEF Drops, Common, Requesting, Quiet, vars, SameCredential
<1>5. ASSUME LoseCustody(h) PROVE Drops(h)
  <2>1. /\ Moves(h) /\ Quiet /\ UNCHANGED <<reach, boot, provider, delivered>>
        /\ GivesUp(h) /\ op'[h].pc = "idle" /\ Shut(own'[h], own[h])
    BY <1>1, <1>5, LoseCustodyIs
  <2>2. Based(h) /\ Opens(h) /\ Serves(h)
    BY <2>1 DEF Based, Opens, Serves, Published, Pc, Resting, Working, Shut
  <2>3. (forfeited => forfeited') /\ Top(h)' = own[h].journal
    BY <2>1 DEF GivesUp, Top, Shut, SameCredential
  <2> QED
    BY <2>1, <2>2, <2>3 DEF Drops, Common, Requesting, Quiet, vars, Shut, SameCredential
<1>6. ASSUME Crash(h) PROVE Drops(h)
  <2>1. /\ Moves(h) /\ Quiet /\ UNCHANGED <<reach, provider, delivered>> /\ GivesUp(h)
        /\ op'[h].pc = "down" /\ Shut(own'[h], own[h])
    BY <1>1, <1>6, CrashIs
  <2>2. Based(h) /\ Opens(h) /\ Serves(h)
    BY <2>1 DEF Based, Opens, Serves, Published, Pc, Resting, Working
  <2>3. (forfeited => forfeited') /\ Top(h)' = own[h].journal
    BY <2>1 DEF GivesUp, Top, Shut, SameCredential
  <2> QED
    BY <2>1, <2>2, <2>3 DEF Drops, Common, Requesting, Quiet, vars, Shut, SameCredential
<1> QED
  BY <1>2, <1>3, <1>4, <1>5, <1>6

\* An account that is removed stops its owner.
LEMMA RemovalView ==
  ASSUME Guarding, NEW h \in Replicas, UNCHANGED scope,
         \E b \in BOOLEAN : SettleRemoved(h, b) \/ RemoveHere(h, b)
  PROVE  Drops(h)
<1>1. Typed /\ own[h] \in Owners /\ op[h] \in Ops /\ Placed(h)
  BY Present DEF Guarding
<1>2. ASSUME NEW b \in BOOLEAN, SettleRemoved(h, b) PROVE Drops(h)
  <2>1. /\ Moves(h) /\ Released(h, b) /\ HistoryKept
        /\ op[h].pc = "settling" /\ op'[h].pc = "idle" /\ account.status = "removed"
        /\ Shut(own'[h], own[h])
    BY <1>1, <1>2, SettleRemovedIs
  <2>2. RowKept
    BY <1>1, <2>1, ReleasedStore DEF Pc
  <2>3. Based(h) /\ Opens(h) /\ Serves(h) /\ Top(h)' = own[h].journal
    BY <2>1 DEF Based, Opens, Serves, Published, Pc, Resting, Working, Shut, Top, SameCredential
  <2> QED
    BY <2>1, <2>2, <2>3 DEF Drops, Common, Requesting, RowKept, HistoryKept, Shut, SameCredential
<1>3. ASSUME NEW b \in BOOLEAN, RemoveHere(h, b) PROVE Drops(h)
  <2>1. /\ Moves(h) /\ UNCHANGED <<reach, boot, provider, delivered>> /\ op' = op
        /\ KillForfeits(h) /\ op[h].pc \in {"idle", "settling", "launching"}
        /\ own'[h].child = NoVault /\ own'[h].journal = own[h].journal
        /\ own'[h].vault.revision = own[h].vault.revision
        /\ own'[h].vault.vault = IF own[h].child = NoVault THEN own[h].vault.vault
                                 ELSE own[h].journal
        /\ Usable(own'[h]) => Usable(own[h])
    BY <1>1, <1>3, RemoveHereIs
  <2>2. committed' = committed /\ (account' = account \/ account'.status # "active")
    <3>1. CASE Quiet
      BY <3>1 DEF Quiet, vars
    <3>2. CASE RemoveAccount(Me(h)) /\ left' = (IF lease'.live THEN left ELSE 0)
      BY <1>1, <3>2, RemovedStore
    <3> QED
      BY <1>1, <1>3, <3>1, <3>2, RemoveHereIs
  <2>3. own'[h] \in Owners
    BY <2>1 DEF Moves
  <2>4. own[h].child = NoVault => own'[h].vault = own[h].vault
    BY <1>1, <2>1, <2>3 DEF Owners, Credential
  <2>5. own[h].child # NoVault => op[h].pc = "settling"
    BY <1>1, <2>1 DEF Placed, Pc
  <2>6. Based(h) /\ Opens(h) /\ Serves(h)
    BY <2>1, <2>4, <2>5 DEF Based, Opens, Serves, Published, Pc, Resting, Working
  <2>7. (forfeited => forfeited') /\ Top(h)' = own[h].journal
    BY <2>1 DEF KillForfeits, Top
  <2> QED
    BY <2>1, <2>2, <2>6, <2>7 DEF Drops, Common, Requesting
<1> QED
  BY <1>2, <1>3

\* Stopped owners that are recorded, and a probed one.
LEMMA SettledView ==
  ASSUME Guarding, NEW h \in Replicas, UNCHANGED scope
  PROVE  /\ \/ \E result \in Results : NativeSettles(h, result)
            \/ \E lands \in BOOLEAN : SettleRejected(h, lands)
            \/ SettleUnrenewable(h)
            => Tells(h) /\ Common(h) /\ account' = account /\ Ended(h)
         /\ \A result \in Results : RecoverProbe(h, result) => Probes(h)
<1>1. Typed /\ own[h] \in Owners /\ op[h] \in Ops /\ Placed(h)
  BY Present DEF Guarding
<1>2. ASSUME NEW result \in Results, NativeSettles(h, result)
      PROVE  Tells(h) /\ Common(h) /\ account' = account /\ Ended(h)
  <2>1. /\ Moves(h) /\ EvidenceOnly /\ HistoryKept
        /\ op[h].pc = "native" /\ own[h].child # NoVault
        /\ op'[h].pc = "stopped" /\ SameWork(op'[h], op[h])
        /\ Told(own'[h], own[h], own[h].child, op[h].before)
    BY <1>1, <1>2, NativeSettlesIs
  <2>2. Top(h) = own[h].child
    BY <2>1 DEF Top
  <2>3. Based(h) /\ Opens(h) /\ Serves(h)
    BY <2>1 DEF Based, Opens, Serves, Published, Pc, Resting, Working, SameWork
  <2> QED
    BY <2>1, <2>2, <2>3 DEF Tells, Common, EvidenceOnly, HistoryKept, Ended
<1>3. ASSUME (\E lands \in BOOLEAN : SettleRejected(h, lands)) \/ SettleUnrenewable(h)
      PROVE  Tells(h) /\ Common(h) /\ account' = account /\ Ended(h)
  <2>1. /\ Moves(h) /\ HistoryKept
        /\ op[h].pc = "settling" /\ own[h].child = NoVault
        /\ Told(own'[h], own[h], own[h].journal, op[h].before) /\ ~Usable(own'[h])
        /\ op'[h].pc = "idle"
    BY <1>1, <1>3, SettleOverIs
  <2>2. RowKept
    BY <1>1, <1>3, SettleOverStore
  <2>3. Top(h) = own[h].journal
    BY <2>1 DEF Top
  <2>4. Based(h) /\ Opens(h) /\ Serves(h)
    BY <2>1 DEF Based, Opens, Serves, Published, Pc, Resting, Working
  <2>5. Ended(h)
    <3>1. SettleRounds(h)
      BY <1>1, <1>3, SettleOverIs
    <3>2. Told(Recorded(h), own[h], own[h].journal, op[h].before)
      BY <1>1, <3>1, RecordedIs
    <3>3. Recorded(h).vault.revision = own'[h].vault.revision
      BY <2>1, <3>2 DEF Told
    <3>4. \/ ~Renewable(MyLease(h)) /\ account.status # "removed"
          \/ Renewable(MyLease(h)) /\ SettleRefused(h)
      BY <1>1, <1>3, SettleOverIs
    <3>5. CASE ~Renewable(MyLease(h)) /\ account.status # "removed"
      BY <2>1, <3>5 DEF Renewable, Ended
    <3>6. CASE SettleRefused(h)
      BY <2>1, <3>3, <3>6 DEF SettleRefused, PublishableUnder, Ended
    <3> QED
      BY <3>4, <3>5, <3>6
  <2> QED
    BY <2>1, <2>2, <2>3, <2>4, <2>5 DEF Tells, Common, RowKept, HistoryKept
<1>4. ASSUME NEW result \in Results, RecoverProbe(h, result) PROVE Probes(h)
  <2>1. /\ Moves(h) /\ Quiet /\ HistoryKept
        /\ op[h].pc = "probing" /\ op'[h].pc = "settling" /\ SameWork(op'[h], op[h])
        /\ own'[h].journal = own[h].journal /\ own'[h].child = own[h].child
        /\ own'[h].vault.vault = own[h].journal /\ ~Usable(own'[h])
        /\ own'[h].vault.revision = IF own[h].journal # op[h].before.vault
                                    THEN op[h].before.revision + 1 ELSE own[h].vault.revision
    BY <1>1, <1>4, RecoverProbeIs
  <2>2. Top(h)' = Top(h)
    BY <2>1 DEF Top
  <2>3. Based(h) /\ Opens(h) /\ Serves(h)
    BY <2>1 DEF Based, Opens, Serves, Published, Pc, Resting, Working, SameWork
  <2> QED
    BY <2>1, <2>2, <2>3 DEF Probes, Common, Quiet, vars, HistoryKept, SameWork
<1> QED
  BY <1>2, <1>3, <1>4

\* A process that boots orders its vault and its journal.
Boots(h) ==
  /\ Moves(h) /\ UNCHANGED <<account, committed, provider, forfeited>> /\ Serves(h)
  /\ op[h].pc = "down" /\ op'[h].pc = "idle"
  /\ \/ account.status # "active" /\ own'[h] = own[h]
     \/ /\ account.status = "active"
        /\ Top(h)' = own'[h].vault.vault /\ own'[h].journal = own'[h].vault.vault
        /\ \/ /\ account.revision > own[h].vault.revision
              /\ own'[h].vault.revision = account.revision
              /\ own'[h].vault.vault = IF own[h].journal > account.vault
                                       THEN own[h].journal ELSE account.vault
           \/ /\ account.revision <= own[h].vault.revision
              /\ own'[h].vault.revision = own[h].vault.revision
              /\ own'[h].vault.vault = IF own[h].journal > own[h].vault.vault
                                       THEN own[h].journal ELSE own[h].vault.vault

\* A publication: the credential, which is the journal and all there is, is the row's.
Publication(h) ==
  /\ Moves(h) /\ provider' = provider /\ forfeited' = forfeited
  /\ op[h].pc \in Working /\ op'[h].pc \in {"published", "settling", "closing"}
  /\ op'[h].pc = "settling" => op'[h].before = op[h].before
  /\ own'[h].child = NoVault
  /\ Tells(h) \/ (Same(h) /\ own[h].journal = own[h].vault.vault /\ Top(h) = own[h].journal)
  /\ account.status = "active" /\ account'.status = "active" /\ LeaseValid(MyLease(h))
  /\ account'.revision = own'[h].vault.revision /\ account'.vault = own'[h].vault.vault
  /\ committed'[own'[h].vault.revision] = own'[h].vault.vault
  /\ \/ /\ account.revision < own'[h].vault.revision
        /\ committed' = [committed EXCEPT ![own'[h].vault.revision] = own'[h].vault.vault]
     \/ RowKept

StepView(h) ==
  \/ Plain(h) \/ Lifts(h) \/ Probes(h) \/ Drops(h) \/ Refreshes(h) \/ Boots(h)
  \/ Tells(h) /\ Common(h) /\ account' = account /\ Ended(h)
  \/ Publication(h)

\* A process boots with nothing running.
LEMMA BootView ==
  ASSUME Guarding, NEW h \in Replicas, UNCHANGED scope, Boot(h)
  PROVE  Boots(h)
<1>1. Typed /\ own[h] \in Owners /\ op[h] \in Ops /\ Placed(h)
  BY Present DEF Guarding
<1>2. /\ Moves(h) /\ Quiet /\ HistoryKept
      /\ op[h].pc = "down" /\ op'[h].pc = "idle"
  BY <1>1, BootIs
<1>3. own[h].child = NoVault
  BY <1>1, <1>2 DEF Placed, Pc
<1>4. UNCHANGED <<account, committed, provider, forfeited>> /\ Serves(h)
  BY <1>2 DEF Quiet, vars, HistoryKept, Serves, Published, Pc
<1>5. CASE account.status # "active" /\ own'[h] = own[h]
  BY <1>2, <1>4, <1>5 DEF Boots
<1>6. CASE /\ account.status = "active"
           /\ own'[h].child = own[h].child /\ own'[h].journal = own'[h].vault.vault
           /\ \/ /\ account.revision > own[h].vault.revision
                 /\ own'[h].vault.revision = account.revision
                 /\ own'[h].vault.vault = IF own[h].journal > account.vault
                                          THEN own[h].journal ELSE account.vault
              \/ /\ account.revision <= own[h].vault.revision
                 /\ own'[h].vault.revision = own[h].vault.revision
                 /\ own'[h].vault.vault = IF own[h].journal > own[h].vault.vault
                                          THEN own[h].journal ELSE own[h].vault.vault
  <2>1. Top(h)' = own'[h].vault.vault
    BY <1>3, <1>6 DEF Top
  <2> QED
    BY <1>2, <1>4, <1>6, <2>1 DEF Boots
<1> QED
  BY <1>1, <1>5, <1>6, BootIs

\* The publications.
LEMMA PublicationView ==
  ASSUME Guarding, NEW h \in Replicas, UNCHANGED scope,
         \/ TokenPublish(h)
         \/ \E lands \in BOOLEAN : TokenPublishDeferred(h, lands) /\ Publishes(h, FALSE)
         \/ \E reply \in BOOLEAN : SettlePublish(h, reply)
  PROVE  Publication(h)
<1>1. /\ Typed /\ own[h] \in Owners /\ op[h] \in Ops /\ Placed(h) /\ Agreeing(h)
      /\ IInv /\ Imported
  BY Present DEF Guarding
<1>2. ASSUME op[h].pc = "stopped", own'[h].vault = own[h].vault,
             own'[h].journal = own[h].journal, own'[h].child = own[h].child
      PROVE  /\ Same(h) /\ own[h].journal = own[h].vault.vault /\ Top(h) = own[h].journal
             /\ own'[h].child = NoVault
  <2>1. own[h].child = NoVault /\ own[h].journal = own[h].vault.vault
    BY <1>1, <1>2 DEF Placed, Agreeing, Pc
  <2> QED
    BY <1>2, <2>1 DEF Same, Top
<1>3. CASE TokenPublish(h)
  <2>1. /\ Moves(h) /\ Publishes(h, TRUE) /\ left' = left /\ HistoryKept
        /\ op[h].pc = "stopped" /\ own' = own /\ op'[h].pc = "published"
    BY <1>1, <1>3, TokenPublishIs
  <2>2. /\ Same(h) /\ own[h].journal = own[h].vault.vault /\ Top(h) = own[h].journal
        /\ own'[h].child = NoVault
    BY <1>2, <2>1
  <2>3. PICK reply \in BOOLEAN : Publishes(h, reply)
    BY <2>1
  <2> QED
    BY <1>1, <2>1, <2>2, <2>3, PublishesStore DEF Publication, HistoryKept, Pc, Working
<1>4. ASSUME NEW lands \in BOOLEAN, TokenPublishDeferred(h, lands), Publishes(h, FALSE)
      PROVE  Publication(h)
  <2>1. Retires(h) /\ left' = left /\ HistoryKept /\ op[h].pc = "stopped"
    BY <1>1, <1>4, TokenPublishDeferredIs
  <2>2. /\ own'[h].vault = own[h].vault /\ own'[h].journal = own[h].journal
        /\ own'[h].child = own[h].child
    BY <2>1 DEF Retires, SameCredential
  <2>3. /\ Same(h) /\ own[h].journal = own[h].vault.vault /\ Top(h) = own[h].journal
        /\ own'[h].child = NoVault
    BY <1>2, <2>1, <2>2
  <2>4. PICK reply \in BOOLEAN : Publishes(h, reply)
    BY <1>4
  <2> QED
    BY <1>1, <2>1, <2>2, <2>3, <2>4, PublishesStore
    DEF Publication, HistoryKept, Pc, Working, Retires, SameWork
<1>5. ASSUME NEW reply \in BOOLEAN, SettlePublish(h, reply) PROVE Publication(h)
  <2>1. /\ Moves(h) /\ HistoryKept
        /\ op[h].pc = "settling" /\ own[h].child = NoVault
        /\ Told(own'[h], own[h], own[h].journal, op[h].before)
        /\ op'[h].pc \in {"settling", "closing"} /\ SameWork(op'[h], op[h])
    BY <1>1, <1>5, SettlePublishIs
  <2>2. Top(h) = own[h].journal
    BY <2>1 DEF Top
  <2>3. Tells(h)
    BY <2>1, <2>2 DEF Tells, HistoryKept
  <2> QED
    BY <1>1, <1>5, <2>1, <2>3, SettlePublishStore
    DEF Publication, HistoryKept, Working, SameWork, Told
<1> QED
  BY <1>3, <1>4, <1>5

\* Every step of a replica has one of these views.
LEMMA ViewOf ==
  ASSUME Guarding, NEW h \in Replicas, UNCHANGED scope,
         Progress(h) \/ SettleRound(h) \/ ReplicaStep(h)
  PROVE  StepView(h)
<1>1. Typed
  BY DEF Guarding
<1>2. ASSUME NEW b \in BOOLEAN, TokenPublishDeferred(h, b) PROVE StepView(h)
  <2>1. Publishes(h, FALSE) \/ UNCHANGED vars
    BY <1>1, <1>2, TokenPublishDeferredIs
  <2> QED
    BY <1>2, <2>1, RequestPlain, PublicationView DEF StepView
<1>3. CASE Progress(h)
  BY <1>2, <1>3, AdmissionPlain, RequestPlain, OtherPlain, SettledView, PublicationView,
     ChildView DEF Progress, StepView
<1>4. CASE SettleRound(h)
  BY <1>4, PublicationView, SettledView, RemovalView DEF SettleRound, StepView
<1>5. CASE ReplicaStep(h)
  BY <1>5, AdmissionPlain, OtherPlain, ChildView, PublicationView, BootView, RemovalView
  DEF ReplicaStep, StepView
<1> QED
  BY <1>3, <1>4, <1>5

---------------------------------------------------------------------------
(* Commits, and what is delivered. *)

\* What was committed stays so.
Lasting == \A r \in Revisions : committed[r] # NoVault => committed'[r] = committed[r]

LEMMA StepLasting ==
  ASSUME Typed, NEW h \in Replicas, StepView(h)
  PROVE  Lasting
<1>1. /\ committed \in [Revisions -> Vaults \cup {NoVault}]
      /\ \A r \in Revisions : r > account.revision => committed[r] = NoVault
  BY DEF Typed, IInv, TypeOK, RowCommitted
<1>2. CASE committed' = committed
  BY <1>2 DEF Lasting
<1>3. CASE Publication(h)
  <2>1. own'[h].vault.revision \in Revisions
    BY <1>3 DEF Publication, Moves, Owners, Credential
  <2>2. CASE account.revision < own'[h].vault.revision /\
             committed' = [committed EXCEPT ![own'[h].vault.revision] = own'[h].vault.vault]
    <3> DEFINE s == own'[h].vault.revision
    <3>1. s \in Revisions /\ account.revision \in Revisions /\ s > account.revision
      BY <2>1, <2>2 DEF Typed, IInv, TypeOK, Accounts, Revisions
    <3>2. committed[s] = NoVault
      BY <1>1, <3>1
    <3> QED
      BY <1>1, <2>2, <3>1, <3>2 DEF Lasting
  <2> QED
    BY <1>2, <1>3, <2>2 DEF Publication, RowKept
<1> QED
  BY <1>2, <1>3 DEF StepView, Plain, Lifts, Probes, Drops, Refreshes, Boots, Common

\* A credential that was committed stays so, and so does a known generation.
LEMMA LastingIs ==
  ASSUME Lasting
  PROVE  /\ \A c \in Credential : Clean(c) => Clean(c)'
         /\ \A g \in Vaults : Known(g) => Known(g)'
  BY DEF Lasting, Clean, Known, Credential

\* Another replica's step leaves a published credential alone.
LEMMA ViewPublished ==
  ASSUME Typed, PublishedClean, NEW h \in Replicas, Moves(h), Lasting,
         Published(h)' => Clean(own[h].vault)'
  PROVE  PublishedClean'
<1> SUFFICES ASSUME NEW k \in Replicas, Published(k)' PROVE Clean(own[k].vault)'
  BY DEF PublishedClean
<1>1. CASE k = h
  BY <1>1
<1>2. CASE k # h
  <2>1. own'[k] = own[k] /\ op'[k] = op[k] /\ own[k] \in Owners
    BY <1>2, Present DEF Moves
  <2>2. Clean(own[k].vault) /\ own[k].vault \in Credential
    BY <2>1 DEF Published, Pc, PublishedClean, Owners
  <2> QED
    BY <2>1, <2>2, LastingIs DEF Clean
<1> QED
  BY <1>1, <1>2

\* What a step publishes is committed.
LEMMA StepPublished ==
  ASSUME Typed, PublishedClean, NEW h \in Replicas, StepView(h)
  PROVE  PublishedClean'
<1>1. Lasting /\ Moves(h) /\ own[h] \in Owners /\ own[h].vault \in Credential
  BY StepLasting, Present DEF StepView, Plain, Lifts, Probes, Drops, Refreshes, Boots, Common,
     Publication, Owners
<1>2. CASE Publication(h)
  BY <1>1, <1>2, ViewPublished DEF Publication, Clean
<1>3. CASE Serves(h)
  <2>1. Published(h)' => Clean(own[h].vault) /\ own'[h].vault = own[h].vault
    BY <1>3 DEF Serves, PublishedClean
  <2>2. Published(h)' => Clean(own[h].vault)'
    BY <1>1, <2>1, LastingIs DEF Clean
  <2> QED
    BY <1>1, <2>2, ViewPublished
<1> QED
  BY <1>2, <1>3 DEF StepView, Plain, Lifts, Probes, Drops, Refreshes, Boots, Common

\* What an account that works has, is committed.
LEMMA RowClean ==
  ASSUME Typed, account.status = "active"
  PROVE  /\ account.revision \in Revisions /\ account.vault \in Vaults
         /\ committed[account.revision] = account.vault /\ Known(account.vault)
  BY DEF Typed, IInv, TypeOK, RowCommitted, Accounts, Imported, Known

\* A step delivers nothing, what was published, or the row's credential.
LEMMA Deliveries ==
  ASSUME Typed, NEW h \in Replicas, UNCHANGED scope,
         Progress(h) \/ SettleRound(h) \/ ReplicaStep(h)
  PROVE  \/ delivered' = delivered
         \/ account.status = "active" /\ delivered' = delivered \cup {account.vault}
         \/ Published(h) /\ delivered' = delivered \cup {own[h].vault.vault}
<1>1. ASSUME NEW lands \in BOOLEAN, TokenDeliver(h, lands)
      PROVE  \/ delivered' = delivered
             \/ Published(h) /\ delivered' = delivered \cup {own[h].vault.vault}
  BY <1>1, TokenDeliverIs DEF Published, Pc, Delivers
<1>2. CASE delivered' = delivered
  BY <1>2
<1>3. CASE Progress(h)
  <2>1. CASE \E lands \in BOOLEAN : TokenServedUnderLease(h, lands)
    BY <2>1, TokenServedUnderLeaseIs
  <2>2. CASE \E lands \in BOOLEAN : TokenDeliver(h, lands)
    BY <1>1, <2>2
  <2>3. CASE ~(\E lands \in BOOLEAN : TokenServedUnderLease(h, lands) \/ TokenDeliver(h, lands))
    <3>1. delivered' = delivered
      BY <1>3, <2>3 DEF Progress, TokenBaselineFails, TokenContended, TokenBaseline,
         EnsureRefreshOwner, EnsureRefreshOwnerFails, NativeSettles, NativeHangs, TokenPublish,
         TokenPublishDeferred, TokenPublishRefused, LoseCustody, SettleStop, SettleKill,
         SettleClose, RecoverLaunch, RecoverLaunchFails, RecoverAbort, RecoverProbe
    <3> QED
      BY <3>1
  <2> QED
    BY <2>1, <2>2, <2>3
<1>4. CASE SettleRound(h)
  BY <1>4 DEF SettleRound, SettlePublish, SettleRejected, SettleUnrenewable, SettleRemoved
<1>5. CASE ReplicaStep(h)
  BY <1>5 DEF ReplicaStep, TokenAdmit, TokenRemoved, TokenAcquire, RecoverAcquire, ChildRefresh,
     ChildJournal, SettlePublish, Partition, Crash, Boot, RemoveHere
<1> QED
  BY <1>3, <1>4, <1>5

\* So what is delivered is committed.
LEMMA StepDelivered ==
  ASSUME Typed, PublishedClean, DeliveredCommitted, NEW h \in Replicas, UNCHANGED scope,
         StepView(h), Progress(h) \/ SettleRound(h) \/ ReplicaStep(h)
  PROVE  DeliveredCommitted'
<1>1. delivered \subseteq Vaults /\ own[h] \in Owners /\ own[h].vault \in Credential
  BY Present DEF Typed, CustodyTypeOK, Owners
<1>2. \A g \in Vaults : Known(g) => Known(g)'
  BY StepLasting, LastingIs
<1>3. ASSUME NEW g \in delivered' PROVE g \in Vaults /\ Known(g)
  <2>1. CASE g \in delivered
    BY <1>1, <2>1 DEF DeliveredCommitted, Known
  <2>2. CASE account.status = "active" /\ g = account.vault
    BY <2>2, RowClean
  <2>3. CASE Published(h) /\ g = own[h].vault.vault
    BY <1>1, <2>3 DEF PublishedClean, Clean, Known, Credential
  <2> QED
    BY <2>1, <2>2, <2>3, Deliveries
<1> QED
  BY <1>2, <1>3 DEF DeliveredCommitted, Known

Serving == Guarding /\ PublishedClean /\ DeliveredCommitted

\* Every step keeps to it.
LEMMA NextServing == Serving /\ [CNext]_allVars => Serving'
<1> SUFFICES ASSUME Serving, [CNext]_allVars PROVE PublishedClean' /\ DeliveredCommitted'
  BY NextWatched DEF Serving
<1>1. CASE UNCHANGED allVars
  BY <1>1 DEF Serving, PublishedClean, Published, Clean, Pc, DeliveredCommitted, allVars,
              localVars, vars
<1>2. CASE Tick /\ UNCHANGED scope
  <2>1. /\ own' = own /\ HistoryKept /\ RowKept
        /\ \A k \in Replicas : op'[k].pc = op[k].pc /\ op'[k].result = op[k].result
    BY <1>2, TickIs DEF Serving, Guarding
  <2>2. PublishedClean'
    BY <2>1 DEF Serving, PublishedClean, Published, Clean, Pc, RowKept
  <2>3. DeliveredCommitted'
    BY <2>1 DEF Serving, DeliveredCommitted, HistoryKept, RowKept
  <2> QED
    BY <2>2, <2>3
<1>3. ASSUME NEW h \in Replicas, UNCHANGED scope,
             Progress(h) \/ SettleRound(h) \/ ReplicaStep(h)
      PROVE  PublishedClean' /\ DeliveredCommitted'
  <2>1. StepView(h) /\ Typed
    BY <1>3, ViewOf DEF Serving, Guarding
  <2> QED
    BY <1>3, <2>1, StepPublished, StepDelivered DEF Serving
<1> QED
  BY <1>1, <1>2, <1>3 DEF CNext

\* Initially nothing is published or delivered.
LEMMA InitServing == CustodyInit => Serving
<1>1. CustodyInit => Guarding
  <2>1. CustodyInit => \A h \in Replicas : Watched(h)
    BY DEF CustodyInit, Watched, Pc, NoOp
  <2> QED
    BY <2>1, InitTyped DEF Guarding
<1>2. CustodyInit => PublishedClean /\ DeliveredCommitted
  BY DEF CustodyInit, PublishedClean, Published, Pc, NoOp, DeliveredCommitted
<1> QED
  BY <1>1, <1>2 DEF Serving

\* A token goes out only for a credential the database has: every publication is under the
\* revision that the owner's record names, and only a published token is delivered.
THEOREM DeliversCommitted == CSpec => []DeliveredCommitted
<1>1. Serving => DeliveredCommitted
  BY DEF Serving
<1> QED
  BY <1>1, InitServing, NextServing, PTL DEF CSpec

---------------------------------------------------------------------------
(* Generations only grow: a replica has none the provider has not issued. *)

\* Generations are numbers.
LEMMA TopTyped ==
  ASSUME Typed, NEW h \in Replicas
  PROVE  /\ Top(h) \in Vaults /\ own[h].journal \in Vaults /\ own[h].vault \in Credential
         /\ own[h].vault.vault \in Vaults /\ own[h].vault.revision \in Revisions
         /\ provider \in Vaults /\ provider \in Nat
         /\ Top(h) \in Nat /\ own[h].journal \in Nat /\ own[h].vault.vault \in Nat
<1>1. own[h] \in Owners /\ provider \in Vaults
  BY DEF Typed, CustodyTypeOK
<1>2. /\ own[h].journal \in Vaults /\ own[h].vault \in Credential
      /\ own[h].child \in Vaults \cup {NoVault}
  BY <1>1 DEF Owners
<1>3. own[h].vault.vault \in Vaults /\ own[h].vault.revision \in Revisions
  BY <1>2 DEF Credential
<1>4. Top(h) \in Vaults
  BY <1>2 DEF Top
<1> QED
  BY <1>1, <1>2, <1>3, <1>4

\* The other replicas keep their order.
LEMMA OthersOrdered ==
  ASSUME Typed, Generations, NEW h \in Replicas, Moves(h), provider' \in Nat,
         provider' >= provider, NEW k \in Replicas \ {h}
  PROVE  Ordered(k)' /\ Top(k)' = Top(k)
<1>1. own'[k] = own[k]
  BY DEF Moves
<1>2. Ordered(k)
  BY DEF Generations
<1>3. Top(k)' = Top(k)
  BY <1>1 DEF Top
<1> QED
  BY <1>1, <1>2, <1>3, TopTyped DEF Ordered

\* What the step of one replica has to show.
LEMMA LocalGenerations ==
  ASSUME Typed, Generations, NEW h \in Replicas, Moves(h), provider' \in Nat,
         provider' >= provider, Ordered(h)',
         \A r \in Revisions : committed'[r] # NoVault => committed'[r] <= provider'
  PROVE  Generations'
<1>1. \A k \in Replicas : Ordered(k)'
  BY OthersOrdered
<1> QED
  BY <1>1 DEF Generations

\* A credential that is read from the row, or is the newest generation, is in order.
LEMMA StepGenerations ==
  ASSUME Typed, Generations, NEW h \in Replicas, StepView(h)
  PROVE  Generations'
<1>1. /\ Top(h) \in Nat /\ own[h].journal \in Nat /\ own[h].vault.vault \in Nat
      /\ provider \in Nat /\ Ordered(h)
  BY TopTyped DEF Generations
<1>2. /\ own[h].vault.vault <= own[h].journal /\ own[h].journal <= Top(h)
      /\ Top(h) <= provider
  BY <1>1 DEF Ordered
<1>3. Moves(h)
  BY DEF StepView, Plain, Lifts, Probes, Drops, Refreshes, Boots, Common, Publication
<1>4. account.status = "active" => account.vault \in Nat /\ account.vault <= provider
  <2>1. account.status = "active" => account.vault \in Vaults /\ account.revision \in Revisions
    BY RowClean
  <2> QED
    BY <2>1, RowClean DEF Generations
<1>5. \A r \in Revisions :
        committed[r] # NoVault => committed[r] <= provider /\ committed[r] \in Nat
  BY DEF Generations, Typed, IInv, TypeOK
<1>6. ASSUME committed' = committed, provider' = provider, Ordered(h)'
      PROVE  Generations'
  BY <1>1, <1>3, <1>5, <1>6, LocalGenerations
<1>7. ASSUME provider' = provider, Same(h) \/ Caught(h) PROVE Ordered(h)'
  BY <1>1, <1>2, <1>4, <1>7 DEF Same, Caught, Ordered
<1>8. CASE Plain(h)
  BY <1>6, <1>7, <1>8 DEF Plain, Common
<1>9. CASE Lifts(h)
  <2>1. Ordered(h)'
    BY <1>1, <1>2, <1>9 DEF Lifts, Ordered
  <2> QED
    BY <1>6, <1>9, <2>1 DEF Lifts, Common
<1>10. CASE Probes(h)
  <2>1. Ordered(h)'
    BY <1>1, <1>2, <1>10 DEF Probes, Ordered
  <2> QED
    BY <1>6, <1>10, <2>1 DEF Probes, Common
<1>11. CASE Drops(h)
  <2>1. Ordered(h)'
    BY <1>1, <1>2, <1>11 DEF Drops, Ordered
  <2> QED
    BY <1>6, <1>11, <2>1 DEF Drops, Common
<1>12. CASE Refreshes(h)
  <2>1. provider' \in Nat /\ provider' >= provider /\ committed' = committed
    BY <1>1, <1>12 DEF Refreshes, Common
  <2>2. Ordered(h)'
    BY <1>1, <1>2, <1>12, <2>1 DEF Refreshes, Ordered
  <2>3. \A r \in Revisions : committed'[r] # NoVault => committed'[r] <= provider'
    BY <1>1, <1>5, <2>1
  <2> QED
    BY <1>3, <2>1, <2>2, <2>3, LocalGenerations
<1>13. CASE Boots(h)
  <2>1. CASE own'[h] = own[h]
    BY <1>2, <1>6, <1>13, <2>1 DEF Boots, Ordered, Top
  <2>2. CASE account.status = "active" /\ Top(h)' = own'[h].vault.vault
             /\ own'[h].journal = own'[h].vault.vault
    <3>1. own'[h].vault.vault \in Nat /\ own'[h].vault.vault <= provider
      BY <1>1, <1>2, <1>4, <1>13, <2>2 DEF Boots
    <3>2. Ordered(h)'
      BY <1>13, <2>2, <3>1 DEF Boots, Ordered
    <3> QED
      BY <1>6, <1>13, <3>2 DEF Boots
  <2> QED
    BY <1>13, <2>1, <2>2 DEF Boots
<1>14. ASSUME Tells(h) PROVE Ordered(h)' /\ own'[h].vault.vault = Top(h)
  <2>1. /\ own'[h].vault.vault = Top(h) /\ own'[h].journal = Top(h)
        /\ own'[h].child = NoVault /\ provider' = provider
    BY <1>14 DEF Tells, Told
  <2>2. Top(h)' = Top(h)
    BY <2>1 DEF Top
  <2> QED
    BY <1>1, <1>2, <2>1, <2>2 DEF Ordered
<1>15. CASE Tells(h) /\ Common(h)
  BY <1>6, <1>14, <1>15 DEF Tells, Common
<1>16. CASE Publication(h)
  <2>1. Ordered(h)' /\ own'[h].vault.vault = Top(h) /\ provider' = provider
    BY <1>7, <1>14, <1>16 DEF Publication, Same
  <2> DEFINE s == own'[h].vault.revision
             v == own'[h].vault.vault
  <2>2. s \in Revisions
    BY <1>3 DEF Moves, Owners, Credential
  <2>3. CASE committed' = [committed EXCEPT ![s] = v]
    <3>1. v <= provider
      BY <1>2, <2>1
    <3> HIDE DEF s, v
    <3>2. \A r \in Revisions : committed'[r] = IF r = s THEN v ELSE committed[r]
      BY <2>2, <2>3 DEF Typed, IInv, TypeOK
    <3>3. \A r \in Revisions : committed'[r] # NoVault => committed'[r] <= provider'
      BY <1>5, <2>1, <3>1, <3>2
    <3> QED
      BY <1>1, <1>3, <2>1, <3>3, LocalGenerations
  <2> QED
    BY <1>6, <1>16, <2>1, <2>3 DEF Publication, RowKept
<1> QED
  BY <1>8, <1>9, <1>10, <1>11, <1>12, <1>13, <1>15, <1>16 DEF StepView

---------------------------------------------------------------------------
(* Where a rotation is, while nobody gave one up. *)

Rotations == RevisionsOrdered /\ OneRotation /\ \A h \in Replicas : Tracked(h)
Sound ==
  /\ Guarding /\ Generations /\ WorkingClean /\ Rotations
  /\ ~forfeited /\ account.status = "active"

\* What is committed is a number.
LEMMA CommittedTyped ==
  ASSUME Typed
  PROVE  \A r \in Revisions : committed[r] \in Nat
<1>1. committed \in [Revisions -> Vaults \cup {NoVault}]
  BY DEF Typed, IInv, TypeOK
<1>2. \A g \in Vaults \cup {NoVault} : g \in Nat
  <2>1. \A g \in Vaults : g \in Nat
    OBVIOUS
  <2>2. NoVault \in Nat
    OBVIOUS
  <2> QED
    BY <2>1, <2>2
<1> QED
  BY <1>1, <1>2

\* A known generation was committed under the row's revision or an earlier one, and
\* later revisions have later generations.
LEMMA KnownBelow ==
  ASSUME Sound
  PROVE  /\ \A g \in Vaults : Known(g) =>
              \E r \in Revisions : r <= account.revision /\ committed[r] = g
         /\ \A g \in Vaults : Known(g) => g <= account.vault
<1>1. /\ account.revision \in Revisions /\ account.vault \in Vaults
      /\ committed[account.revision] = account.vault
  BY RowClean DEF Sound, Guarding
<1>2. \A r \in Revisions : r > account.revision => committed[r] = NoVault
  BY DEF Sound, Guarding, Typed, IInv, RowCommitted
<1>3. ASSUME NEW g \in Vaults, Known(g)
      PROVE  \E r \in Revisions : r <= account.revision /\ committed[r] = g
  <2>1. PICK r \in Revisions : committed[r] = g
    BY <1>3 DEF Known
  <2>2. g # NoVault
    OBVIOUS
  <2>3. ~(r > account.revision)
    BY <1>2, <2>1, <2>2
  <2> QED
    BY <1>1, <2>1, <2>3 DEF Revisions
<1>4. ASSUME NEW g \in Vaults, Known(g) PROVE g <= account.vault
  <2>1. PICK r \in Revisions : r <= account.revision /\ committed[r] = g
    BY <1>3, <1>4
  <2>2. CASE r = account.revision
    BY <1>1, <2>1, <2>2
  <2>3. CASE r < account.revision
    <3>1. committed[r] < committed[account.revision]
      BY <1>1, <2>1, <2>3 DEF Sound, Rotations, RevisionsOrdered
    <3>2. g < account.vault /\ g \in Nat /\ account.vault \in Nat
      BY <1>1, <2>1, <3>1
    <3> QED
      BY <3>2
  <2> QED
    BY <1>1, <2>1, <2>2, <2>3 DEF Revisions
<1> QED
  BY <1>3, <1>4

\* An operation's baseline is committed, and no other generation of its revision is.
LEMMA BaselineIs ==
  ASSUME Sound, NEW h \in Replicas, op[h].pc \in Working
  PROVE  /\ op[h].before \in Credential /\ Clean(op[h].before)
         /\ op[h].before.revision \in Revisions /\ op[h].before.vault \in Vaults
         /\ own[h].vault.revision >= op[h].before.revision
         /\ own[h].journal >= op[h].before.vault
<1>1. op[h] \in Ops
  BY Present DEF Sound, Guarding
<1>2. op[h].before \in Credential
  BY <1>1 DEF Ops
<1>3. Clean(op[h].before)
  BY DEF Sound, WorkingClean, Working, Pc
<1>4. own[h].vault.revision >= op[h].before.revision /\ own[h].journal >= op[h].before.vault
  BY DEF Sound, Rotations, Tracked, Working, Pc
<1> QED
  BY <1>2, <1>3, <1>4 DEF Credential

\* A known generation that follows the baseline is the next revision's, when the row is
\* not beyond it.
LEMMA FollowsBaseline ==
  ASSUME Sound, NEW h \in Replicas, op[h].pc \in Working, NEW g \in Vaults, Known(g),
         g > op[h].before.vault, account.revision <= op[h].before.revision + 1
  PROVE  committed[op[h].before.revision + 1] = g
<1> DEFINE b == op[h].before
<1>1. b.revision \in Revisions /\ b.vault \in Vaults /\ committed[b.revision] = b.vault
  BY BaselineIs DEF Clean
<1>2. PICK r \in Revisions : r <= account.revision /\ committed[r] = g
  BY KnownBelow
<1>3. g > b.vault /\ g \in Nat /\ b.vault \in Nat
  BY <1>1
<1> HIDE DEF b
<1>4. ~(r < b.revision)
  <2>1. r < b.revision => committed[r] < committed[b.revision]
    BY <1>1, <1>2 DEF Sound, Rotations, RevisionsOrdered
  <2> QED
    BY <1>1, <1>2, <1>3, <2>1
<1>5. r # b.revision
  BY <1>1, <1>2, <1>3
<1>6. account.revision <= b.revision + 1 /\ account.revision \in Revisions
  BY RowClean DEF b, Sound, Guarding
<1>7. r = b.revision + 1
  BY <1>1, <1>2, <1>4, <1>5, <1>6 DEF Revisions
<1> QED
  BY <1>2, <1>7 DEF b

\* A generation that is known has nothing unknown behind it.
LEMMA KnownSettled ==
  ASSUME Sound, NEW h \in Replicas
  PROVE  /\ Known(own[h].journal) => own[h].journal = own[h].vault.vault
         /\ Known(Top(h)) => Top(h) = own[h].journal /\ own[h].journal = own[h].vault.vault
  BY DEF Sound, Rotations, Tracked

\* A stopped owner is recorded with what is committed under its revision, if its
\* generation is known at all.
LEMMA ToldClean ==
  ASSUME Sound, NEW h \in Replicas, Tells(h), Known(Top(h)),
         own'[h].vault.revision >= account.revision
  PROVE  committed[own'[h].vault.revision] = own'[h].vault.vault
<1> DEFINE b == op[h].before
           v == own[h].vault
<1>1. Top(h) = own[h].journal /\ own[h].journal = v.vault /\ Known(v.vault)
  BY KnownSettled
<1>2. /\ v \in Credential /\ b \in Credential /\ Clean(b) /\ v.revision >= b.revision
      /\ own[h].journal >= b.vault /\ account.revision \in Revisions
      /\ v.revision \in Revisions /\ v.vault \in Vaults /\ b.revision \in Revisions
      /\ b.vault \in Vaults
  BY BaselineIs, TopTyped, RowClean DEF Tells, Working, Sound, Guarding
<1>3. v.revision >= account.revision => committed[v.revision] = v.vault
  BY <1>1 DEF Sound, Rotations, Tracked, Clean
<1>4. /\ own'[h].vault.vault = v.vault
      /\ own'[h].vault.revision = IF v.vault = b.vault THEN v.revision
                                  ELSE IF v.revision > b.revision THEN v.revision
                                  ELSE b.revision + 1
  BY <1>1 DEF Tells, Told
<1>5. CASE own'[h].vault.revision = v.revision
  BY <1>3, <1>4, <1>5
<1>6. CASE v.vault # b.vault /\ own'[h].vault.revision = b.revision + 1
  <2>1. v.vault > b.vault
    <3>1. v.vault >= b.vault /\ v.vault # b.vault /\ v.vault \in Nat /\ b.vault \in Nat
      BY <1>1, <1>2, <1>6
    <3> HIDE DEF v, b
    <3> QED
      BY <3>1
  <2>2. committed[b.revision + 1] = v.vault
    BY <1>1, <1>2, <1>6, <2>1, FollowsBaseline DEF Tells, Working
  <2> QED
    BY <1>4, <1>6, <2>2
<1> QED
  BY <1>4, <1>5, <1>6

---------------------------------------------------------------------------
(* Each view keeps track of the rotation. *)

\* The generations of a replica are all on record.
AllKnown(h) == Known(own[h].vault.vault) /\ Known(own[h].journal) /\ Known(Top(h))

LEMMA OneRotationIs ==
  ASSUME Sound, NEW h \in Replicas
  PROVE  /\ ~AllKnown(h) => Uncommitted /\ Top(h) = provider
         /\ \A k \in Replicas : Uncommitted /\ Top(h) = provider /\ Top(k) = provider => k = h
  BY DEF Sound, Rotations, OneRotation, AllKnown

\* The other replicas of a step that leaves the rows alone.
LEMMA OthersTracked ==
  ASSUME Sound, NEW h \in Replicas, Moves(h), committed' = committed, account' = account,
         NEW k \in Replicas \ {h}
  PROVE  Tracked(k)' /\ Top(k)' = Top(k) /\ (AllKnown(k)' <=> AllKnown(k))
<1>1. own'[k] = own[k] /\ op'[k] = op[k] /\ Tracked(k)
  BY DEF Moves, Sound, Rotations
<1>2. Top(k)' = Top(k) /\ Pc(k)' = Pc(k)
  BY <1>1 DEF Top, Pc
<1> QED
  BY <1>1, <1>2 DEF Tracked, Known, Clean, AllKnown

\* What a step of one replica that leaves the rows alone has to show.
LEMMA LocalRotations ==
  ASSUME Sound, NEW h \in Replicas, Moves(h), committed' = committed, account' = account,
         provider' = provider, Tracked(h)',
         AllKnown(h)' \/ (Uncommitted /\ Top(h)' = provider),
         Uncommitted /\ Top(h)' = provider => Top(h) = provider
  PROVE  Rotations'
<1>1. RevisionsOrdered' /\ Uncommitted' = Uncommitted
  BY DEF Sound, Rotations, RevisionsOrdered, Uncommitted
<1>2. \A k \in Replicas : Tracked(k)'
  BY OthersTracked
<1>3. ASSUME NEW k \in Replicas PROVE ~AllKnown(k)' => (Uncommitted /\ Top(k) = provider)'
  <2>1. CASE k = h
    BY <1>1, <2>1
  <2>2. CASE k # h
    BY <1>1, <2>2, OthersTracked, OneRotationIs
  <2> QED
    BY <2>1, <2>2
<1>4. ASSUME NEW k \in Replicas, Uncommitted, Top(k)' = provider PROVE Top(k) = provider
  <2>1. CASE k = h
    BY <1>4, <2>1
  <2>2. CASE k # h
    BY <1>4, <2>2, OthersTracked
  <2> QED
    BY <2>1, <2>2
<1>5. OneRotation'
  <2>1. \A k \in Replicas : (~AllKnown(k) => Uncommitted /\ Top(k) = provider)'
    BY <1>3
  <2>2. ASSUME NEW g \in Replicas, NEW k \in Replicas, Uncommitted',
               Top(g)' = provider', Top(k)' = provider'
        PROVE  g = k
    BY <1>1, <1>4, <2>2, OneRotationIs
  <2> QED
    BY <2>1, <2>2 DEF OneRotation, AllKnown
<1> QED
  BY <1>1, <1>2, <1>5 DEF Rotations

\* An operation that has its owner's credential, or one not older than its baseline.
LEMMA BasedTracked ==
  ASSUME Sound, NEW h \in Replicas, Based(h), Same(h) \/ Caught(h)
  PROVE  op'[h].pc \in Working => own'[h].vault.revision >= op'[h].before.revision
                                  /\ own'[h].journal >= op'[h].before.vault
<1> SUFFICES ASSUME op'[h].pc \in Working
    PROVE  own'[h].vault.revision >= op'[h].before.revision
           /\ own'[h].journal >= op'[h].before.vault
  OBVIOUS
<1>1. /\ own[h].vault.revision \in Revisions /\ own[h].vault.vault <= own[h].journal
      /\ own[h].vault.vault \in Nat /\ own[h].journal \in Nat
      /\ account.revision \in Revisions /\ account.vault \in Vaults
      /\ committed[account.revision] = account.vault
  BY TopTyped, RowClean DEF Sound, Guarding, Generations, Ordered
<1>2. CASE op[h].pc \in Working /\ op'[h].before = op[h].before
  <2> DEFINE b == op[h].before
  <2>1. /\ b.revision \in Revisions /\ b.vault \in Vaults /\ committed[b.revision] = b.vault
        /\ own[h].vault.revision >= b.revision /\ own[h].journal >= b.vault
    BY <1>2, BaselineIs DEF Clean
  <2>2. CASE Same(h)
    BY <1>2, <2>1, <2>2 DEF Same
  <2>3. CASE Caught(h)
    <3>1. b.revision < account.revision
      BY <1>1, <2>1, <2>3 DEF Caught, Revisions
    <3>2. committed[b.revision] < committed[account.revision]
      BY <1>1, <2>1, <3>1 DEF Sound, Rotations, RevisionsOrdered
    <3>3. b.vault < account.vault /\ b.vault \in Nat /\ account.vault \in Nat
      BY <1>1, <2>1, <3>2
    <3>4. own'[h].vault.revision = account.revision /\ own'[h].journal = account.vault
      BY <2>3 DEF Caught
    <3> HIDE DEF b
    <3>5. account.revision >= b.revision /\ account.vault >= b.vault
      BY <1>1, <2>1, <3>1, <3>3 DEF Revisions
    <3> QED
      BY <1>2, <3>4, <3>5 DEF b
  <2> QED
    BY <2>2, <2>3
<1>3. CASE op'[h].before = own'[h].vault
  <2>1. CASE Same(h)
    BY <1>1, <1>3, <2>1 DEF Same, Revisions
  <2>2. CASE Caught(h)
    <3>1. /\ own'[h].vault.revision = account.revision /\ own'[h].vault.vault = account.vault
          /\ own'[h].journal = account.vault
      BY <2>2 DEF Caught
    <3>2. account.revision \in Nat
      BY <1>1 DEF Revisions
    <3>3. account.vault \in Nat
      BY <1>1
    <3> QED
      BY <1>3, <3>1, <3>2, <3>3
  <2> QED
    BY <2>1, <2>2
<1> QED
  BY <1>2, <1>3 DEF Based

\* An owner that stays as it was.
LEMMA SameRotations ==
  ASSUME Sound, NEW h \in Replicas, Moves(h), committed' = committed, account' = account,
         provider' = provider, Same(h), Based(h), op'[h].pc = "down" => Known(own[h].journal)
  PROVE  Rotations'
<1>1. Tracked(h)
  BY DEF Sound, Rotations
<1>2. /\ own'[h].vault = own[h].vault /\ own'[h].journal = own[h].journal
      /\ Top(h)' = Top(h)
  BY DEF Same
<1>3. Tracked(h)'
  BY <1>1, <1>2, BasedTracked DEF Tracked, Known, Clean, Pc, Working
<1>4. AllKnown(h)' <=> AllKnown(h)
  BY <1>2 DEF AllKnown, Known
<1> QED
  BY <1>2, <1>3, <1>4, LocalRotations, OneRotationIs

\* An owner that caught up with the row.
LEMMA CaughtRotations ==
  ASSUME Sound, NEW h \in Replicas, Moves(h), committed' = committed, account' = account,
         provider' = provider, Caught(h), Based(h)
  PROVE  Rotations'
<1>1. /\ own'[h].vault.revision = account.revision /\ own'[h].vault.vault = account.vault
      /\ own'[h].journal = account.vault /\ Top(h)' = account.vault
  BY DEF Caught
<1>2. /\ account.revision \in Revisions /\ committed[account.revision] = account.vault
  BY RowClean DEF Sound, Guarding
<1>3. AllKnown(h)' /\ Clean(own[h].vault)'
  BY <1>1, <1>2 DEF AllKnown, Known, Clean
<1>4. Tracked(h)'
  BY <1>1, <1>3, BasedTracked DEF Tracked, AllKnown, Pc, Working
<1>5. ~(Uncommitted /\ Top(h)' = provider)
  BY <1>1, <1>2 DEF Uncommitted
<1> QED
  BY <1>3, <1>4, <1>5, LocalRotations

\* A step that leaves the owner as it was or catches it up.
LEMMA PlainRotations ==
  ASSUME Sound, NEW h \in Replicas, Plain(h)
  PROVE  Rotations'
<1>1. op[h].pc = "down" => Known(own[h].journal)
  BY DEF Sound, Rotations, Tracked, Pc
<1> QED
  BY <1>1, SameRotations, CaughtRotations DEF Plain, Common

\* A journal that follows its child.
LEMMA LiftsRotations ==
  ASSUME Sound, NEW h \in Replicas, Lifts(h)
  PROVE  Rotations'
<1>1. /\ own'[h].vault = own[h].vault /\ own'[h].journal = Top(h) /\ Top(h)' = Top(h)
      /\ op' = op /\ committed' = committed /\ account' = account /\ op[h].pc # "down"
  BY DEF Lifts, Common
<1>2. Tracked(h) /\ own[h].journal <= Top(h) /\ own[h].journal \in Nat /\ Top(h) \in Nat
  BY TopTyped DEF Sound, Rotations, Generations, Ordered, Guarding
<1>3. op[h].pc \in Working => own[h].journal >= op[h].before.vault /\ op[h].before.vault \in Vaults
  BY BaselineIs
<1>4. own'[h].journal # own'[h].vault.vault => ~Known(Top(h))
  BY <1>1, KnownSettled
<1>5. op[h].pc \in Working => Top(h) >= op[h].before.vault
  <2>1. SUFFICES ASSUME op[h].pc \in Working PROVE Top(h) >= op[h].before.vault
    OBVIOUS
  <2>2. op[h].before.vault \in Nat
    BY <1>3, <2>1
  <2> QED
    BY <1>2, <1>3, <2>1, <2>2
<1>6. Tracked(h)'
  BY <1>1, <1>2, <1>4, <1>5 DEF Tracked, Known, Clean, Pc, Working
<1>7. AllKnown(h) => AllKnown(h)'
  BY <1>1 DEF AllKnown, Known
<1> QED
  BY <1>1, <1>6, <1>7, LocalRotations, OneRotationIs DEF Lifts, Common

\* A recorded owner is not older than the operation's baseline.
LEMMA TellsAhead ==
  ASSUME Sound, NEW h \in Replicas, Tells(h)
  PROVE  /\ own'[h].vault.revision >= op[h].before.revision
         /\ own'[h].journal >= op[h].before.vault
<1>1. /\ own[h].journal <= Top(h) /\ own[h].journal \in Nat /\ Top(h) \in Nat
      /\ own[h].vault.revision \in Revisions
  BY TopTyped DEF Sound, Generations, Ordered, Guarding
<1>2. /\ op[h].before.revision \in Revisions /\ op[h].before.vault \in Vaults
      /\ own[h].vault.revision >= op[h].before.revision /\ own[h].journal >= op[h].before.vault
  BY BaselineIs DEF Tells, Working
<1>3. own'[h].vault.revision >= op[h].before.revision
  <2>1. own'[h].vault.revision \in {own[h].vault.revision, op[h].before.revision + 1}
    BY DEF Tells, Told
  <2>2. op[h].before.revision \in Nat
    BY <1>2 DEF Revisions
  <2> QED
    BY <1>2, <2>1, <2>2
<1>4. own'[h].journal >= op[h].before.vault
  <2>1. op[h].before.vault \in Nat /\ own'[h].journal = Top(h)
    BY <1>2 DEF Tells, Told
  <2> QED
    BY <1>1, <1>2, <2>1
<1> QED
  BY <1>3, <1>4

\* A stopped owner that is recorded.
LEMMA TellsRotations ==
  ASSUME Sound, NEW h \in Replicas, Tells(h), Based(h), committed' = committed,
         account' = account
  PROVE  Rotations'
<1>1. /\ own'[h].vault.vault = Top(h) /\ own'[h].journal = Top(h) /\ own'[h].child = NoVault
      /\ provider' = provider /\ Moves(h) /\ op'[h].pc # "down"
  BY DEF Tells, Told
<1>2. Top(h)' = Top(h)
  BY <1>1 DEF Top
<1>3. op'[h].pc \in Working => op'[h].before \in {op[h].before, own'[h].vault}
  BY DEF Based
<1>4. /\ own'[h].vault.revision >= own'[h].vault.revision
      /\ own'[h].journal >= own'[h].vault.vault
  <2>1. own'[h].vault.revision \in Nat /\ Top(h) \in Nat
    BY <1>1, TopTyped DEF Moves, Owners, Credential, Revisions, Sound, Guarding
  <2> QED
    BY <1>1, <2>1
<1>5. Known(Top(h)) /\ own'[h].vault.revision >= account.revision => Clean(own[h].vault)'
  BY <1>1, ToldClean DEF Clean
<1>6. Tracked(h)'
  BY <1>1, <1>2, <1>3, <1>4, <1>5, TellsAhead DEF Tracked, Known, Pc, Working
<1>7. Known(Top(h)) => AllKnown(h)'
  BY <1>1, <1>2 DEF AllKnown, Known
<1> QED
  BY <1>1, <1>2, <1>6, <1>7, LocalRotations, OneRotationIs DEF AllKnown

\* A probed owner that is recorded.
LEMMA ProbesRotations ==
  ASSUME Sound, NEW h \in Replicas, Probes(h)
  PROVE  Rotations'
<1> DEFINE b == op[h].before
<1>1. /\ own'[h].journal = own[h].journal /\ Top(h)' = Top(h)
      /\ own'[h].vault.vault = own[h].journal
      /\ own'[h].vault.revision = IF own[h].journal # b.vault
                                  THEN b.revision + 1 ELSE own[h].vault.revision
      /\ committed' = committed /\ account' = account /\ provider' = provider /\ Moves(h)
      /\ op[h].pc \in Working /\ op'[h].pc = "settling" /\ op'[h].before = b
  BY DEF Probes, Common, Working
<1>2. /\ b.revision \in Revisions /\ b.vault \in Vaults /\ Tracked(h)
      /\ own[h].vault.revision >= b.revision /\ own[h].journal >= b.vault
      /\ account.revision \in Revisions /\ own[h].journal \in Vaults
  BY <1>1, BaselineIs, RowClean, TopTyped DEF Sound, Rotations, Guarding
<1>3. own'[h].vault.revision >= b.revision
  <2>1. b.revision \in Nat
    BY <1>2 DEF Revisions
  <2> QED
    BY <1>1, <1>2, <2>1
<1>4. ASSUME Known(own[h].journal), own'[h].vault.revision >= account.revision
      PROVE  committed[own'[h].vault.revision] = own[h].journal
  <2>1. own[h].journal = own[h].vault.vault
    BY <1>4, KnownSettled
  <2>2. CASE own[h].journal = b.vault
    BY <1>1, <1>2, <1>4, <2>1, <2>2 DEF Tracked, Clean
  <2>3. CASE own[h].journal # b.vault
    <3>1. own[h].journal > b.vault
      <4>1. own[h].journal \in Nat /\ b.vault \in Nat
        BY <1>2
      <4> QED
        BY <1>2, <2>3, <4>1
    <3>2. account.revision <= b.revision + 1
      BY <1>1, <1>2, <1>4, <2>3 DEF Revisions
    <3>3. committed[b.revision + 1] = own[h].journal
      BY <1>1, <1>2, <1>4, <3>1, <3>2, FollowsBaseline
    <3> QED
      BY <1>1, <2>3, <3>3
  <2> QED
    BY <2>2, <2>3
<1> HIDE DEF b
<1>5. Tracked(h)'
  BY <1>1, <1>2, <1>3, <1>4 DEF Tracked, Known, Clean, Pc, Working
<1>6. AllKnown(h) => AllKnown(h)'
  BY <1>1 DEF AllKnown, Known
<1> QED
  BY <1>1, <1>5, <1>6, LocalRotations, OneRotationIs

\* What is lost without being given up was on record.
LEMMA DropsRotations ==
  ASSUME Sound, NEW h \in Replicas, Drops(h), ~forfeited', account'.status = "active"
  PROVE  Rotations'
<1>1. /\ own'[h].journal = own[h].journal /\ Top(h)' = own[h].journal
      /\ own'[h].vault.revision = own[h].vault.revision
      /\ own'[h].vault.vault \in {own[h].vault.vault, own[h].journal}
      /\ committed' = committed /\ account' = account /\ provider' = provider /\ Moves(h)
      /\ Based(h) /\ own[h].vault \in Credential /\ own'[h].vault \in Credential
  BY TopTyped DEF Drops, Common, Moves, Owners, Sound, Guarding
<1>2. ASSUME own'[h].vault.vault = own[h].vault.vault, Top(h) = own[h].journal
      PROVE  Same(h)
  BY <1>1, <1>2 DEF Same, Credential
<1>3. CASE GivesUp(h)
  <2>1. AllKnown(h)
    <3>1. SUFFICES ASSUME ~AllKnown(h) PROVE FALSE
      OBVIOUS
    <3>2. Uncommitted /\ Top(h) = provider
      BY <3>1, OneRotationIs
    <3>3. HoldsRotation(h)
      BY <3>2 DEF HoldsRotation, Top
    <3> QED
      BY <1>3, <3>2, <3>3 DEF GivesUp
  <2>2. Top(h) = own[h].journal /\ own[h].journal = own[h].vault.vault /\ Known(own[h].journal)
    BY <2>1, KnownSettled DEF AllKnown
  <2> QED
    BY <1>1, <1>2, <2>2, SameRotations
<1>4. CASE KillForfeits(h) /\ op' = op
  <2>1. Top(h) = own[h].journal
    <3>1. SUFFICES ASSUME Top(h) # own[h].journal PROVE FALSE
      OBVIOUS
    <3>2. Top(h) = own[h].child /\ ~Known(Top(h))
      BY <3>1, KnownSettled DEF Top
    <3>3. own[h].child = provider
      BY <3>2, OneRotationIs DEF AllKnown
    <3> QED
      BY <1>4, <3>1, <3>2, <3>3 DEF KillForfeits
  <2>2. Tracked(h)
    BY DEF Sound, Rotations
  <2>3. CASE own'[h].vault.vault = own[h].vault.vault
    <3>1. op'[h].pc = "down" => Known(own[h].journal)
      BY <1>4, <2>2 DEF Tracked, Pc
    <3> QED
      BY <1>1, <1>2, <2>1, <2>3, <3>1, SameRotations
  <2>4. CASE own'[h].vault.vault = own[h].journal
    <3>1. Known(own[h].journal) => own[h].journal = own[h].vault.vault
      BY KnownSettled
    <3>2. Tracked(h)'
      BY <1>1, <1>4, <2>1, <2>2, <2>4, <3>1 DEF Tracked, Known, Clean, Pc, Working
    <3>3. AllKnown(h) => AllKnown(h)'
      BY <1>1, <2>1, <2>4 DEF AllKnown, Known
    <3> QED
      BY <1>1, <2>1, <3>2, <3>3, LocalRotations, OneRotationIs
  <2> QED
    BY <1>1, <2>3, <2>4
<1> QED
  BY <1>3, <1>4 DEF Drops, Sound

\* A rotation: the new generation is nowhere else.
LEMMA RefreshesRotations ==
  ASSUME Sound, NEW h \in Replicas, Refreshes(h)
  PROVE  Rotations'
<1>1. /\ own'[h].vault = own[h].vault /\ own'[h].journal = own[h].journal
      /\ Top(h) = provider /\ Top(h)' = provider + 1 /\ provider' = provider + 1
      /\ committed' = committed /\ account' = account /\ op' = op /\ Moves(h)
  BY DEF Refreshes, Common
<1>2. /\ provider \in Nat
      /\ \A r \in Revisions : committed[r] # NoVault => committed[r] <= provider
      /\ \A r \in Revisions : committed[r] \in Nat
  <2>1. provider \in Nat
    BY TopTyped DEF Sound, Guarding
  <2>2. \A r \in Revisions : committed[r] # NoVault => committed[r] <= provider
    BY DEF Sound, Generations
  <2>3. \A r \in Revisions : committed[r] \in Nat
    BY CommittedTyped DEF Sound, Guarding
  <2> QED
    BY <2>1, <2>2, <2>3
<1>3. \A r \in Revisions : committed[r] # provider + 1
  BY <1>2
<1>4. Uncommitted' /\ ~Known(Top(h))'
  BY <1>1, <1>3 DEF Uncommitted, Known
<1>5. RevisionsOrdered'
  BY <1>1 DEF Sound, Rotations, RevisionsOrdered
<1>6. Tracked(h)'
  <2>1. Tracked(h)
    BY DEF Sound, Rotations
  <2> QED
    BY <1>1, <1>4, <2>1 DEF Tracked, Known, Clean, Pc
<1>7. ASSUME NEW k \in Replicas \ {h}
      PROVE  Tracked(k)' /\ AllKnown(k)' /\ Top(k)' # provider'
  <2>1. Tracked(k)' /\ Top(k)' = Top(k) /\ (AllKnown(k)' <=> AllKnown(k))
    BY <1>1, OthersTracked
  <2>2. AllKnown(k)
    BY <1>1, OneRotationIs
  <2>3. Top(k) <= provider /\ Top(k) \in Nat
    BY TopTyped DEF Sound, Generations, Ordered, Guarding
  <2> QED
    BY <1>1, <1>2, <2>1, <2>2, <2>3
<1>8. \A k \in Replicas : Tracked(k)'
  BY <1>6, <1>7
<1>9. OneRotation'
  <2>1. ASSUME NEW k \in Replicas PROVE ~AllKnown(k)' => (Uncommitted /\ Top(k) = provider)'
    BY <1>1, <1>4, <1>7
  <2>2. ASSUME NEW g \in Replicas, NEW k \in Replicas, Top(g)' = provider', Top(k)' = provider'
        PROVE  g = k
    BY <1>7, <2>2
  <2> QED
    BY <2>1, <2>2 DEF OneRotation, AllKnown
<1> QED
  BY <1>5, <1>8, <1>9 DEF Rotations

\* A process that boots finds its own credential or the row's: nothing it has is newer.
LEMMA BootsView ==
  ASSUME Sound, NEW h \in Replicas, Boots(h)
  PROVE  Caught(h) \/ (Same(h) /\ Clean(own[h].vault))
<1>1. /\ op[h].pc = "down" /\ own'[h] \in Owners /\ own[h] \in Owners /\ Placed(h)
      /\ account.status = "active"
  BY Present DEF Boots, Moves, Sound, Guarding
<1>2. own[h].vault \in Credential /\ own'[h].vault \in Credential
  BY <1>1 DEF Owners
<1>3. Top(h) = own[h].journal
  BY <1>1 DEF Placed, Pc, Top
<1>4. Known(own[h].journal) /\ Tracked(h)
  BY <1>1 DEF Sound, Rotations, Tracked, Pc
<1>5. own[h].journal = own[h].vault.vault /\ own[h].journal \in Vaults
  BY <1>4, KnownSettled, TopTyped DEF Sound, Guarding
<1>6. account.vault \in Nat /\ own[h].journal \in Nat /\ own[h].journal <= account.vault
  BY <1>4, <1>5, KnownBelow, RowClean DEF Sound, Guarding
<1>7. /\ Top(h)' = own'[h].vault.vault /\ own'[h].journal = own'[h].vault.vault
      /\ \/ /\ account.revision > own[h].vault.revision
            /\ own'[h].vault.revision = account.revision
            /\ own'[h].vault.vault = IF own[h].journal > account.vault
                                     THEN own[h].journal ELSE account.vault
         \/ /\ account.revision <= own[h].vault.revision
            /\ own'[h].vault.revision = own[h].vault.revision
            /\ own'[h].vault.vault = IF own[h].journal > own[h].vault.vault
                                     THEN own[h].journal ELSE own[h].vault.vault
  BY <1>1 DEF Boots
<1>8. CASE account.revision > own[h].vault.revision
  <2>1. own'[h].vault.revision = account.revision
    BY <1>7, <1>8, TopTyped, RowClean DEF Revisions, Sound, Guarding
  <2>2. own'[h].vault.vault = account.vault
    BY <1>6, <1>7, <1>8, TopTyped, RowClean DEF Revisions, Sound, Guarding
  <2>3. own'[h].vault = [revision |-> account.revision, vault |-> account.vault]
    BY <1>2, <2>1, <2>2 DEF Credential
  <2> QED
    BY <1>1, <1>7, <1>8, <2>2, <2>3 DEF Caught
<1>9. CASE ~(account.revision > own[h].vault.revision)
  <2>1. /\ account.revision <= own[h].vault.revision
        /\ own'[h].vault.revision = own[h].vault.revision
        /\ own'[h].vault.vault = own[h].vault.vault
    BY <1>5, <1>7, <1>9
  <2>2. own'[h].vault = own[h].vault
    BY <1>2, <2>1 DEF Credential
  <2>3. Clean(own[h].vault)
    <3>1. own[h].vault.revision >= account.revision
      BY <2>1, TopTyped, RowClean DEF Revisions, Sound, Guarding
    <3> QED
      BY <1>4, <1>5, <3>1 DEF Tracked
  <2> QED
    BY <1>3, <1>5, <1>7, <2>2, <2>3 DEF Same
<1> QED
  BY <1>8, <1>9

\* A boot.
LEMMA BootsRotations ==
  ASSUME Sound, NEW h \in Replicas, Boots(h)
  PROVE  Rotations'
<1>1. /\ Moves(h) /\ UNCHANGED <<account, committed, provider>>
      /\ Based(h) /\ op'[h].pc # "down"
  BY DEF Boots, Based, Working
<1> QED
  BY <1>1, BootsView, SameRotations, CaughtRotations

\* A publication of a new revision records the provider's newest generation.
LEMMA PublishedIsNewest ==
  ASSUME Sound, NEW h \in Replicas, Publication(h), account.revision < own'[h].vault.revision
  PROVE  /\ Uncommitted /\ Top(h) = provider /\ own'[h].vault.vault = provider
         /\ own'[h].journal = provider /\ Top(h)' = provider
<1>1. /\ own'[h].vault.vault = Top(h) /\ own'[h].journal = Top(h) /\ Top(h)' = Top(h)
  BY DEF Publication, Same, Tells, Told, Top
<1>2. Top(h) \in Vaults /\ own'[h].vault.revision \in Revisions
  BY TopTyped DEF Publication, Moves, Owners, Credential, Sound, Guarding
<1>3. committed[own'[h].vault.revision] = NoVault
  BY <1>2 DEF Sound, Guarding, Typed, IInv, RowCommitted
<1>4. own'[h].vault.revision >= account.revision
  BY <1>2, RowClean DEF Revisions, Sound, Guarding
<1>5. ~Known(Top(h))
  <2>1. SUFFICES ASSUME Known(Top(h)) PROVE FALSE
    OBVIOUS
  <2>2. committed[own'[h].vault.revision] = own'[h].vault.vault
    <3>1. CASE Tells(h)
      BY <1>4, <2>1, <3>1, ToldClean
    <3>2. CASE Same(h) /\ own[h].journal = own[h].vault.vault /\ Top(h) = own[h].journal
      BY <1>4, <2>1, <3>2 DEF Same, Sound, Rotations, Tracked, Clean
    <3> QED
      BY <3>1, <3>2 DEF Publication
  <2> QED
    BY <1>1, <1>2, <1>3, <2>2
<1> QED
  BY <1>1, <1>5, OneRotationIs DEF AllKnown

\* A publication.
LEMMA PublicationRotations ==
  ASSUME Sound, NEW h \in Replicas, Publication(h)
  PROVE  Rotations'
<1>1. /\ Moves(h) /\ provider' = provider /\ op'[h].pc # "down"
      /\ op[h].pc \in Working /\ (op'[h].pc \in Working => op'[h].before = op[h].before)
  BY DEF Publication, Working
<1>2. CASE RowKept
  <2>1. Based(h)
    BY <1>1 DEF Based
  <2> QED
    BY <1>1, <1>2, <2>1, TellsRotations, SameRotations DEF Publication, RowKept
<1>3. CASE /\ account.revision < own'[h].vault.revision
           /\ committed' = [committed EXCEPT ![own'[h].vault.revision] = own'[h].vault.vault]
  <2> DEFINE s == own'[h].vault.revision
  <2>1. /\ Uncommitted /\ Top(h) = provider /\ own'[h].vault.vault = provider
        /\ own'[h].journal = provider /\ Top(h)' = provider
    BY <1>3, PublishedIsNewest
  <2>2. /\ s \in Revisions /\ account.revision \in Revisions /\ account'.revision = s
        /\ provider \in Nat /\ account.revision < s
    BY <1>1, <1>3, TopTyped, RowClean DEF Publication, Moves, Owners, Credential, Sound, Guarding
  <2>3. committed' = [committed EXCEPT ![s] = provider] /\ own'[h].vault.revision = s
    BY <1>3, <2>1
  <2> HIDE DEF s
  <2>4. \A r \in Revisions : committed'[r] = IF r = s THEN provider ELSE committed[r]
    BY <2>2, <2>3 DEF Sound, Guarding, Typed, IInv, TypeOK
  <2>5. Lasting
    BY StepLasting DEF StepView, Sound, Guarding
  <2>6. Known(provider)' /\ ~Uncommitted'
    BY <1>1, <2>2, <2>4 DEF Known, Uncommitted
  <2>7. RevisionsOrdered'
    <3> SUFFICES ASSUME NEW q \in Revisions, NEW r \in Revisions, q < r,
                        committed'[q] # NoVault, committed'[r] # NoVault
        PROVE  committed'[q] < committed'[r]
      BY DEF RevisionsOrdered
    <3>1. CASE r = s
      <4>1. q # s /\ committed'[q] = committed[q] /\ committed'[r] = provider
        BY <2>4, <3>1 DEF Revisions
      <4>2. committed[q] # NoVault /\ committed[q] # provider /\ committed[q] <= provider
        BY <2>1, <4>1 DEF Uncommitted, Sound, Generations
      <4>3. committed[q] \in Nat
        BY CommittedTyped DEF Sound, Guarding
      <4> QED
        BY <2>2, <4>1, <4>2, <4>3
    <3>2. CASE r # s
      <4>1. committed[r] # NoVault
        BY <2>4, <3>2
      <4>2. ~(r > account.revision)
        BY <4>1 DEF Sound, Guarding, Typed, IInv, RowCommitted
      <4>3. q # s
        BY <2>2, <4>2 DEF Revisions
      <4> QED
        BY <2>4, <3>2, <4>3 DEF Sound, Rotations, RevisionsOrdered
    <3> QED
      BY <3>1, <3>2
  <2>8. ASSUME NEW k \in Replicas \ {h} PROVE AllKnown(k)' /\ Tracked(k)'
    <3>1. own'[k] = own[k] /\ op'[k] = op[k]
      BY <1>1 DEF Moves
    <3>2. Top(k)' = Top(k) /\ Pc(k)' = Pc(k) /\ own[k].vault \in Credential
          /\ own[k].vault.vault \in Vaults /\ own[k].journal \in Vaults /\ Top(k) \in Vaults
      BY <3>1, TopTyped DEF Top, Pc, Sound, Guarding
    <3>3. AllKnown(k)
      BY <2>1, OneRotationIs
    <3>4. Top(k) = own[k].journal /\ own[k].journal = own[k].vault.vault /\ Tracked(k)
      BY <3>3, KnownSettled DEF AllKnown, Sound, Rotations
    <3>5. Known(own[k].vault.vault) /\ Known(own[k].vault.vault)'
      BY <2>5, <3>1, <3>2, <3>3, LastingIs DEF AllKnown, Known
    <3>6. AllKnown(k)'
      BY <3>1, <3>2, <3>4, <3>5 DEF AllKnown, Known
    <3>7. own[k].vault.revision >= s => Clean(own[k].vault)'
      <4>1. SUFFICES ASSUME own[k].vault.revision >= s PROVE Clean(own[k].vault)'
        OBVIOUS
      <4>2. own[k].vault.revision >= account.revision
        BY <2>2, <4>1, TopTyped DEF Revisions, Sound, Guarding
      <4>3. Clean(own[k].vault)
        BY <3>4, <3>5, <4>2 DEF Tracked
      <4> QED
        BY <2>5, <3>1, <3>2, <4>3, LastingIs DEF Clean
    <3>8. Tracked(k)'
      BY <2>2, <3>1, <3>2, <3>4, <3>6, <3>7 DEF Tracked, AllKnown, Working
    <3> QED
      BY <3>6, <3>8
  <2>9. AllKnown(h)'
    BY <1>1, <2>1, <2>6 DEF AllKnown, Known
  <2>10. Tracked(h)'
    <3>1. Clean(own[h].vault)'
      BY <2>1, <2>2, <2>3, <2>4 DEF Clean
    <3>2. op'[h].pc \in Working => /\ own'[h].vault.revision >= op'[h].before.revision
                                   /\ own'[h].journal >= op'[h].before.vault
      BY <1>1, TellsAhead, BaselineIs DEF Publication, Same
    <3> QED
      BY <1>1, <2>1, <3>1, <3>2 DEF Tracked, Pc, Working
  <2>11. \A k \in Replicas : AllKnown(k)' /\ Tracked(k)'
    BY <2>8, <2>9, <2>10
  <2>12. OneRotation'
    BY <2>6, <2>11 DEF OneRotation, AllKnown
  <2> QED
    BY <2>7, <2>11, <2>12 DEF Rotations
<1> QED
  BY <1>2, <1>3 DEF Publication

---------------------------------------------------------------------------
(* Owners that are open hold what is committed. *)

\* Where a rotation is, said of a state.
Tracking == ~forfeited /\ account.status = "active" => Rotations
Durable == Serving /\ Generations /\ WorkingClean /\ Tracking

\* What was given up stays given up.
LEMMA StepForfeits ==
  ASSUME NEW h \in Replicas, StepView(h)
  PROVE  forfeited => forfeited'
<1>1. CASE forfeited' = forfeited
  BY <1>1
<1>2. CASE Drops(h)
  BY <1>2 DEF Drops
<1>3. forfeited' = forfeited \/ Drops(h)
  BY DEF StepView, Plain, Lifts, Probes, Refreshes, Boots, Tells, Publication
<1> QED
  BY <1>1, <1>2, <1>3

\* What a baseline is taken from is a credential at rest, or the row's.
LEMMA StepWorking ==
  ASSUME Durable, NEW h \in Replicas, StepView(h)
  PROVE  WorkingClean'
<1>1. /\ Guarding /\ Typed /\ Lasting /\ PublishedClean /\ own[h] \in Owners /\ op[h] \in Ops
      /\ Placed(h) /\ Agreeing(h)
  BY StepLasting, Present DEF Durable, Serving, Guarding
<1>2. Moves(h) /\ (forfeited => forfeited')
  BY StepForfeits DEF StepView, Plain, Lifts, Probes, Drops, Refreshes, Boots, Common, Publication
<1> SUFFICES ASSUME ~forfeited' PROVE WorkingClean'
  BY DEF WorkingClean
<1>3. \A k \in Replicas :
        /\ Pc(k) \in Resting /\ Usable(own[k]) => Clean(own[k].vault)
        /\ Pc(k) \in Working => Clean(op[k].before)
  BY <1>2 DEF Durable, WorkingClean, Resting, Working
<1>4. \A c \in Credential : Clean(c) => committed'[c.revision] = c.vault
  BY <1>1, LastingIs DEF Clean
<1>5. own[h].vault \in Credential /\ op[h].before \in Credential /\ own'[h].vault \in Credential
  BY <1>1, <1>2 DEF Owners, Ops, Moves
<1>6. ASSUME Caught(h) PROVE Clean(own'[h].vault)
  BY <1>1, <1>6, RowClean DEF Caught, Clean
<1>7. op[h].pc \in Resting => own[h].child = NoVault
  BY <1>1 DEF Placed, Pc, Resting
<1>8. op'[h].pc \in Resting /\ Usable(own'[h]) => Clean(own'[h].vault)
  <2>1. CASE Opens(h)
    BY <1>1, <1>3, <1>6, <2>1 DEF Opens, PublishedClean, Pc
  <2>2. CASE Boots(h)
    <3>1. CASE account.status = "active"
      <4>1. Sound
        BY <1>1, <1>2, <3>1 DEF Sound, Durable, Tracking
      <4> QED
        BY <1>6, <2>2, <4>1, BootsView DEF Same
    <3>2. CASE account.status # "active"
      BY <1>1, <2>2, <3>2 DEF Boots, Agreeing, Pc
    <3> QED
      BY <3>1, <3>2
  <2>3. CASE Publication(h)
    BY <2>3 DEF Publication, Resting
  <2> QED
    BY <2>1, <2>2, <2>3 DEF StepView, Plain, Lifts, Probes, Drops, Refreshes, Common
<1>9. op'[h].pc \in Working => Clean(op'[h].before)
  <2>1. CASE op[h].pc \in Working /\ op'[h].before = op[h].before
    BY <1>3, <2>1 DEF Pc
  <2>2. ASSUME op'[h].before = own'[h].vault, op[h].pc \in Resting, Usable(own[h]),
               own'[h].vault = own[h].vault \/ Caught(h)
        PROVE  Clean(op'[h].before)
    BY <1>3, <1>6, <2>2 DEF Pc
  <2>3. CASE Publication(h)
    BY <2>1, <2>3 DEF Publication, Working
  <2>4. CASE Boots(h)
    BY <2>4 DEF Boots, Working
  <2>5. CASE Plain(h) \/ Lifts(h) \/ Refreshes(h)
    BY <2>1, <2>2, <2>5 DEF Plain, Lifts, Refreshes, Common, Based, Same
  <2>6. CASE Probes(h) \/ (Tells(h) /\ Common(h))
    BY <2>1, <2>6 DEF Probes, Tells, Common, Based, Resting
  <2>7. CASE Drops(h)
    <3>1. op[h].pc \in Resting => own'[h].vault = own[h].vault
      BY <1>5, <1>7, <2>7 DEF Drops, Credential
    <3> QED
      BY <2>1, <2>2, <2>7, <3>1 DEF Drops, Common, Based
  <2> QED
    BY <2>3, <2>4, <2>5, <2>6, <2>7 DEF StepView
<1>10. op'[h] \in Ops /\ op'[h].before \in Credential
  BY <1>2 DEF Moves, Ops
<1>11. ASSUME NEW k \in Replicas
       PROVE  /\ op'[k].pc \in Resting /\ Usable(own'[k]) =>
                   committed'[own'[k].vault.revision] = own'[k].vault.vault
              /\ op'[k].pc \in Working =>
                   committed'[op'[k].before.revision] = op'[k].before.vault
  <2>1. CASE k = h
    BY <1>4, <1>5, <1>8, <1>9, <1>10, <2>1
  <2>2. CASE k # h
    <3>1. own'[k] = own[k] /\ op'[k] = op[k]
      BY <1>2, <2>2 DEF Moves
    <3>2. own[k].vault \in Credential /\ op[k].before \in Credential
      BY <1>1, Present DEF Owners, Ops
    <3> QED
      BY <1>3, <1>4, <3>1, <3>2 DEF Pc
  <2> QED
    BY <2>1, <2>2
<1> QED
  BY <1>11 DEF WorkingClean, Clean, Usable, Recoverable, Pc, Resting, Working

\* A rotation is tracked by every step.
LEMMA StepTracking ==
  ASSUME Durable, NEW h \in Replicas, StepView(h)
  PROVE  Tracking'
<1> SUFFICES ASSUME ~forfeited', account'.status = "active" PROVE Rotations'
  BY DEF Tracking
<1>1. ~forfeited /\ account.status = "active"
  <2>1. ~forfeited
    BY StepForfeits
  <2>2. account.status = "active"
    BY DEF StepView, Plain, Lifts, Probes, Drops, Refreshes, Boots, Common, Publication
  <2> QED
    BY <2>1, <2>2
<1>2. Sound
  BY <1>1 DEF Sound, Durable, Serving, Tracking
<1> QED
  BY <1>2, PlainRotations, LiftsRotations, ProbesRotations, DropsRotations, RefreshesRotations,
     BootsRotations, TellsRotations, PublicationRotations DEF StepView, Common

\* A step of time, or none, leaves every credential alone.
LEMMA UnmovedDurable ==
  ASSUME Durable, own' = own, RowKept, provider' = provider, forfeited' = forfeited,
         \A k \in Replicas : op'[k].pc = op[k].pc /\ op'[k].before = op[k].before
  PROVE  Generations' /\ WorkingClean' /\ Tracking'
<1>1. \A k \in Replicas : Pc(k)' = Pc(k) /\ Top(k)' = Top(k)
  BY DEF Pc, Top
<1>2. Generations'
  BY <1>1 DEF Durable, Generations, Ordered, RowKept
<1>3. WorkingClean'
  BY <1>1 DEF Durable, WorkingClean, Clean, Usable, Recoverable, RowKept
<1>4. Tracking'
  <2> SUFFICES ASSUME ~forfeited, account.status = "active" PROVE Rotations'
    BY DEF Tracking, RowKept
  <2>1. Rotations
    BY DEF Durable, Tracking
  <2>2. RevisionsOrdered'
    BY <2>1 DEF Rotations, RevisionsOrdered, RowKept
  <2>3. OneRotation'
    BY <1>1, <2>1 DEF Rotations, OneRotation, Uncommitted, Known, RowKept
  <2>4. \A k \in Replicas : Tracked(k)'
    BY <1>1, <2>1 DEF Rotations, Tracked, Known, Clean, RowKept
  <2> QED
    BY <2>2, <2>3, <2>4 DEF Rotations
<1> QED
  BY <1>2, <1>3, <1>4

\* Every step keeps what is durable.
LEMMA NextDurable == Durable /\ [CNext]_allVars => Durable'
<1> SUFFICES ASSUME Durable, [CNext]_allVars PROVE Generations' /\ WorkingClean' /\ Tracking'
  BY NextServing DEF Durable
<1>1. CASE UNCHANGED allVars
  <2>1. /\ own' = own /\ RowKept /\ provider' = provider /\ forfeited' = forfeited /\ op' = op
    BY <1>1 DEF allVars, localVars, vars, RowKept
  <2> QED
    BY <2>1, UnmovedDurable
<1>2. CASE Tick /\ UNCHANGED scope
  <2>1. /\ own' = own /\ HistoryKept /\ RowKept
        /\ \A k \in Replicas : op'[k].pc = op[k].pc /\ op'[k].before = op[k].before
    BY <1>2, TickIs DEF Durable, Serving, Guarding
  <2> QED
    BY <2>1, UnmovedDurable DEF HistoryKept
<1>3. ASSUME NEW h \in Replicas, UNCHANGED scope,
             Progress(h) \/ SettleRound(h) \/ ReplicaStep(h)
      PROVE  Generations' /\ WorkingClean' /\ Tracking'
  <2>1. StepView(h) /\ Typed
    BY <1>3, ViewOf DEF Durable, Serving, Guarding
  <2> QED
    BY <2>1, StepGenerations, StepWorking, StepTracking DEF Durable
<1> QED
  BY <1>1, <1>2, <1>3 DEF CNext

\* Initially there is one generation, which is committed.
LEMMA InitDurable == CustodyInit => Durable
<1> SUFFICES ASSUME CustodyInit PROVE Durable
  OBVIOUS
<1>1. Serving
  BY InitServing
<1>2. /\ provider = 1 /\ forfeited = FALSE /\ account.revision = 1
      /\ committed = [r \in Revisions |-> IF r = 1 THEN 1 ELSE NoVault]
  BY DEF CustodyInit
<1>3. ASSUME NEW h \in Replicas
      PROVE  /\ own[h].vault.vault = 1 /\ own[h].vault.revision = 1 /\ own[h].journal = 1
             /\ own[h].child = NoVault /\ op[h].pc = "idle"
  BY DEF CustodyInit, First, NoOp
<1>4. 1 \in Revisions /\ committed[1] = 1
  BY <1>2 DEF Revisions
<1>5. Generations
  BY <1>2, <1>3 DEF Generations, Ordered, Top
<1>6. WorkingClean
  BY <1>3, <1>4 DEF WorkingClean, Clean, Pc
<1>7. RevisionsOrdered
  BY <1>2 DEF RevisionsOrdered, Revisions
<1>8. Known(1) /\ ~Uncommitted
  BY <1>2, <1>4 DEF Known, Uncommitted
<1>9. OneRotation
  BY <1>3, <1>8 DEF OneRotation, Top
<1>10. \A h \in Replicas : Tracked(h)
  BY <1>3, <1>4, <1>8 DEF Tracked, Top, Clean, Pc
<1> QED
  BY <1>1, <1>5, <1>6, <1>7, <1>9, <1>10 DEF Durable, Tracking, Rotations

\* What is kept of the credential's generations, in every reachable state.
THEOREM CustodyDurable == CSpec => []Durable
  BY InitDurable, NextDurable, PTL DEF CSpec

\* An owner that is open for requests, with nothing under way, holds a credential that was
\* committed under its revision, unless a rotation was visibly given up.
THEOREM ReopensDurable == CSpec => []ReopenedDurable
<1>1. Durable => ReopenedDurable
  BY DEF Durable, WorkingClean, ReopenedDurable, Selectable, Usable, Clean
<1> QED
  BY <1>1, CustodyDurable, PTL

---------------------------------------------------------------------------
(* A rotation that is not on record is held under a lease. *)

\* The parts of Held, said of the requests of an active account.
Holder(h) == Top(h) = provider /\ op[h].pc \in Requesting
Behind(h) == op[h].pc \in Requesting =>
  \/ account.revision <= op[h].before.revision
  \/ op[h].pc # "native" /\ own[h].child = NoVault /\ Known(own[h].journal)
Holds ==
  /\ Uncommitted => \E h \in Replicas : Holder(h)
  /\ \A h \in Replicas : Behind(h)
Requests == Sound /\ ~scope.recovery /\ Holds

\* Without recovery a request's operation has its lease.
LEMMA RequestingLeased ==
  ASSUME Guarding, ~scope.recovery, account.status = "active", NEW h \in Replicas,
         op[h].pc \in Requesting
  PROVE  LeaseValid(MyLease(h))
<1>1. Placed(h) /\ Watched(h)
  BY DEF Guarding, Typed
<1> QED
  BY <1>1 DEF Placed, Watched, Pc, Requesting

\* What is not committed now was not committed before.
LEMMA UncommittedBefore ==
  ASSUME Sound, Lasting, provider' = provider, Uncommitted'
  PROVE  Uncommitted
<1>1. provider # NoVault
  BY TopTyped DEF Sound, Guarding, Typed, CustodyTypeOK
<1> QED
  BY <1>1 DEF Lasting, Uncommitted

\* What a step of one replica has to show, when the row stays as it is.
LEMMA LocalHolds ==
  ASSUME Requests, NEW h \in Replicas, Moves(h), committed' = committed,
         account' = account, provider' = provider, Behind(h)',
         Uncommitted /\ Holder(h) => Holder(h)'
  PROVE  Holds'
<1>1. \A k \in Replicas \ {h} : own'[k] = own[k] /\ op'[k] = op[k]
  BY DEF Moves
<1>2. ASSUME NEW k \in Replicas PROVE Behind(k)'
  <2>1. CASE k = h
    BY <2>1
  <2>2. CASE k # h
    BY <1>1, <2>2 DEF Behind, Known, Requests, Holds
  <2> QED
    BY <2>1, <2>2
<1>3. ASSUME Uncommitted' PROVE \E k \in Replicas : Holder(k)'
  <2>1. Uncommitted
    BY <1>3 DEF Uncommitted
  <2>2. PICK k \in Replicas : Holder(k)
    BY <2>1 DEF Requests, Holds
  <2>3. CASE k = h
    BY <2>1, <2>2, <2>3
  <2>4. CASE k # h
    BY <1>1, <2>2, <2>4 DEF Holder, Top
  <2> QED
    BY <2>3, <2>4
<1> QED
  BY <1>2, <1>3 DEF Holds

\* A settlement does not give up a rotation: its lease is there, and its record is newer
\* than the row.
LEMMA TellsHolds ==
  ASSUME Requests, NEW h \in Replicas, Tells(h), Common(h), account' = account, Ended(h)
  PROVE  Holds'
<1>1. /\ own'[h].vault.vault = Top(h) /\ own'[h].child = NoVault /\ own'[h].journal = Top(h)
      /\ committed' = committed /\ provider' = provider /\ Moves(h)
      /\ op[h].pc \in Requesting /\ op[h].pc \in Working
  BY DEF Tells, Told, Common, Working, Requesting
<1>2. Top(h)' = Top(h)
  BY <1>1 DEF Top
<1>3. op'[h].pc \in Working => op'[h].before = op[h].before
  BY <1>1 DEF Common, Based, Requesting, Resting
<1>4. Behind(h)'
  <2> SUFFICES ASSUME op'[h].pc = "stopped", op[h].pc = "native"
      PROVE  account.revision <= op'[h].before.revision
    BY DEF Ended, Behind, Requesting
  <2>1. Behind(h)
    BY DEF Requests, Holds
  <2> QED
    BY <1>3, <2>1 DEF Behind, Requesting, Working
<1>5. ASSUME Uncommitted, Holder(h) PROVE Holder(h)'
  <2>1. CASE op'[h].pc = "stopped"
    BY <1>1, <1>2, <1>5, <2>1 DEF Holder, Requesting
  <2>2. CASE op'[h].pc = "idle"
    <3> DEFINE b == op[h].before
    <3>1. ~(account.revision < own'[h].vault.revision)
      BY <1>1, <2>2, RequestingLeased DEF Ended, Requests, Sound
    <3>2. Top(h) = provider /\ ~Known(provider)
      BY <1>5 DEF Holder, Uncommitted, Known
    <3>3. /\ Known(b.vault) /\ b.revision \in Revisions /\ own[h].vault.revision \in Revisions
          /\ own[h].vault.revision >= b.revision /\ account.revision \in Revisions
      BY <1>1, BaselineIs, TopTyped, RowClean DEF Clean, Known, Requests, Sound, Guarding
    <3>4. own'[h].vault.revision > b.revision
      <4>1. own'[h].vault.revision = IF own[h].vault.revision > b.revision
                                     THEN own[h].vault.revision ELSE b.revision + 1
        BY <3>2, <3>3 DEF Tells, Told
      <4>2. b.revision \in Nat
        BY <3>3 DEF Revisions
      <4> HIDE DEF b
      <4> QED
        BY <4>1, <4>2
    <3>5. account.revision <= b.revision
      <4>1. Behind(h)
        BY DEF Requests, Holds
      <4>2. own[h].child = NoVault => own[h].journal = Top(h)
        BY DEF Top
      <4> QED
        BY <1>1, <3>2, <4>1, <4>2 DEF Behind
    <3>6. own'[h].vault.revision \in Nat /\ b.revision \in Nat /\ account.revision \in Nat
      BY <1>1, <3>3 DEF Revisions, Moves, Owners, Credential
    <3> HIDE DEF b
    <3> QED
      BY <3>1, <3>4, <3>5, <3>6
  <2> QED
    BY <2>1, <2>2 DEF Ended
<1> QED
  BY <1>1, <1>4, <1>5, LocalHolds

\* A request's operation that goes on keeps its hold.
LEMMA PlainHolds ==
  ASSUME Requests, NEW h \in Replicas, Plain(h)
  PROVE  Holds'
<1>1. /\ Moves(h) /\ committed' = committed /\ account' = account /\ provider' = provider
      /\ Behind(h) /\ account.status = "active" /\ ~scope.recovery /\ Stays(h)
  BY DEF Plain, Common, Requests, Sound, Holds
<1>2. CASE op[h].pc \in Requesting
  <2>1. /\ Same(h) /\ op'[h].pc \in Requesting /\ op'[h].before = op[h].before
        /\ op[h].pc # "native" => op'[h].pc # "native" /\ own'[h].child = own[h].child
    BY <1>1, <1>2 DEF Stays
  <2>2. Behind(h)'
    BY <1>1, <1>2, <2>1 DEF Behind, Same, Known
  <2>3. Holder(h) => Holder(h)'
    BY <1>1, <2>1 DEF Holder, Same
  <2> QED
    BY <1>1, <2>2, <2>3, LocalHolds
<1>3. CASE op[h].pc \notin Requesting
  <2>1. Behind(h)' /\ ~Holder(h)
    BY <1>1, <1>3 DEF Behind, Stays, Holder
  <2> QED
    BY <1>1, <2>1, LocalHolds
<1> QED
  BY <1>2, <1>3

\* The child's writes, its rotation, its end and a boot.
LEMMA ChildHolds ==
  ASSUME Requests, NEW h \in Replicas, ~forfeited', account'.status = "active",
         Lifts(h) \/ Probes(h) \/ Drops(h) \/ Boots(h)
  PROVE  Holds'
<1>1. Behind(h) /\ Sound /\ Placed(h) /\ ~scope.recovery /\ account.status = "active"
  BY DEF Requests, Holds, Sound, Guarding, Typed
<1>2. CASE Lifts(h)
  <2>1. Behind(h)' /\ (Holder(h) => Holder(h)')
    BY <1>1, <1>2 DEF Lifts, Common, Behind, Holder
  <2> QED
    BY <1>2, <2>1, LocalHolds DEF Lifts, Common
<1>3. CASE Probes(h)
  BY <1>1, <1>3 DEF Probes, Placed, Pc
<1>4. CASE Boots(h)
  <2>1. Behind(h)' /\ ~Holder(h)
    BY <1>4 DEF Boots, Behind, Holder, Requesting
  <2> QED
    BY <1>4, <2>1, LocalHolds DEF Boots
<1>5. CASE Drops(h)
  <2>1. /\ own'[h].journal = own[h].journal /\ Top(h)' = own[h].journal
        /\ own'[h].child = NoVault /\ (op'[h].pc \in Requesting => op' = op)
        /\ committed' = committed /\ account' = account /\ provider' = provider /\ Moves(h)
    BY <1>5 DEF Drops, Common
  <2>2. Behind(h)'
    BY <1>1, <2>1 DEF Behind, Known
  <2>3. ASSUME Uncommitted, Holder(h) PROVE Holder(h)'
    <3>1. CASE GivesUp(h)
      BY <2>3, <3>1 DEF Holder, GivesUp, HoldsRotation, Top
    <3>2. CASE KillForfeits(h) /\ op' = op
      BY <2>1, <2>3, <3>2 DEF Holder, KillForfeits, Top
    <3> QED
      BY <1>1, <1>5, <3>1, <3>2 DEF Drops
  <2> QED
    BY <2>1, <2>2, <2>3, LocalHolds
<1> QED
  BY <1>2, <1>3, <1>4, <1>5

\* A rotation is made by the child of a request.
LEMMA RefreshesHolds ==
  ASSUME Requests, NEW h \in Replicas, Refreshes(h)
  PROVE  Holds'
<1>1. /\ Top(h)' = provider' /\ op' = op /\ committed' = committed /\ account' = account
      /\ own'[h].vault = own[h].vault /\ own'[h].journal = own[h].journal /\ Moves(h)
      /\ own[h].child # NoVault
  BY DEF Refreshes, Common
<1>2. op[h].pc \in Requesting
  BY <1>1 DEF Requests, Sound, Guarding, Typed, Placed, Pc, Requesting
<1>3. Holder(h)'
  BY <1>1, <1>2 DEF Holder
<1>4. ASSUME NEW k \in Replicas PROVE Behind(k)'
  <2>1. Behind(k)
    BY DEF Requests, Holds
  <2>2. CASE k = h
    BY <1>1, <2>1, <2>2 DEF Behind
  <2>3. CASE k # h
    BY <1>1, <2>1, <2>3 DEF Behind, Known, Moves
  <2> QED
    BY <2>2, <2>3
<1> QED
  BY <1>3, <1>4 DEF Holds

\* While a replica publishes, no other one has a lease, nor a request's operation.
LEMMA PublicationHolds ==
  ASSUME Requests, NEW h \in Replicas, Publication(h)
  PROVE  Holds'
<1>1. /\ Moves(h) /\ provider' = provider /\ own'[h].child = NoVault
      /\ LeaseValid(MyLease(h)) /\ account.status = "active" /\ op'[h].pc # "native"
      /\ own'[h].vault.vault = Top(h) /\ own'[h].journal = own'[h].vault.vault
      /\ committed'[own'[h].vault.revision] = own'[h].vault.vault
      /\ own'[h].vault.revision \in Revisions /\ Sound /\ Typed
  BY DEF Publication, Same, Tells, Told, Moves, Owners, Credential, Requests, Sound, Guarding
<1>2. Behind(h)'
  BY <1>1 DEF Behind, Known
<1>3. ASSUME NEW k \in Replicas \ {h} PROVE op[k].pc \notin Requesting
  <2>1. ~LeaseValid(MyLease(k))
    BY <1>1, Foreign
  <2> QED
    BY <1>1, <2>1, RequestingLeased DEF Requests, Sound
<1>4. ASSUME NEW k \in Replicas PROVE Behind(k)'
  <2>1. CASE k = h
    BY <1>2, <2>1
  <2>2. CASE k # h
    BY <1>1, <1>3, <2>2 DEF Behind, Moves
  <2> QED
    BY <2>1, <2>2
<1>5. ~Uncommitted'
  <2> SUFFICES ASSUME Uncommitted' PROVE FALSE
    OBVIOUS
  <2>1. Uncommitted
    BY <1>1, StepLasting, UncommittedBefore DEF StepView
  <2>2. PICK k \in Replicas : Holder(k)
    BY <2>1 DEF Requests, Holds
  <2>3. k = h
    BY <1>3, <2>2 DEF Holder
  <2>4. committed'[own'[h].vault.revision] = provider'
    BY <1>1, <2>2, <2>3 DEF Holder
  <2> QED
    BY <1>1, <2>4 DEF Uncommitted
<1> QED
  BY <1>4, <1>5 DEF Holds

\* So every step keeps the hold on a rotation.
LEMMA StepHolds ==
  ASSUME Requests, NEW h \in Replicas, StepView(h), ~forfeited', account'.status = "active"
  PROVE  Holds'
  BY PlainHolds, ChildHolds, TellsHolds, RefreshesHolds, PublicationHolds DEF StepView

\* The requests' part of the invariant is the one that names the hold.
LEMMA HeldIs == (~scope.recovery => Holds) <=> Held
  BY DEF Holds, Held, Holder, Behind, Pc, Requesting

\* The inductive invariant, in the parts that the lemmas are about.
Holding == ~forfeited /\ account.status = "active" /\ ~scope.recovery => Holds
LEMMA CustodyIInvIs == Durable /\ Holding <=> CustodyIInv
<1>1. Durable /\ Holding => CustodyIInv
  BY HeldIs DEF Durable, Holding, Serving, Guarding, Tracking, Rotations, CustodyIInv
<1>2. CustodyIInv => Durable /\ Holding
  BY HeldIs DEF Durable, Holding, Serving, Guarding, Tracking, Rotations, CustodyIInv
<1> QED
  BY <1>1, <1>2

\* The invariant is inductive.
LEMMA NextCustody == Durable /\ Holding /\ [CNext]_allVars => Holding'
<1> SUFFICES ASSUME Durable, Holding, [CNext]_allVars, ~forfeited',
                    account'.status = "active", ~scope'.recovery
    PROVE  Holds'
  BY DEF Holding
<1>1. ASSUME own' = own, RowKept, provider' = provider, forfeited' = forfeited, scope' = scope,
             \A k \in Replicas : op'[k].pc = op[k].pc /\ op'[k].before = op[k].before
      PROVE  Holds'
  <2>1. Holds
    BY <1>1 DEF Holding, RowKept
  <2>2. ASSUME NEW k \in Replicas
        PROVE  Top(k)' = Top(k) /\ Holder(k)' = Holder(k) /\ Behind(k)'
    <3>1. Top(k)' = Top(k)
      BY <1>1 DEF Top
    <3> QED
      BY <1>1, <2>1, <3>1 DEF Holder, Behind, Known, RowKept, Holds
  <2>3. Uncommitted' = Uncommitted
    BY <1>1 DEF Uncommitted, RowKept
  <2> QED
    BY <2>1, <2>2, <2>3 DEF Holds
<1>2. CASE UNCHANGED allVars
  <2>1. /\ own' = own /\ RowKept /\ provider' = provider /\ forfeited' = forfeited /\ op' = op
        /\ scope' = scope
    BY <1>2 DEF allVars, localVars, vars, RowKept
  <2> QED
    BY <1>1, <2>1
<1>3. CASE Tick /\ UNCHANGED scope
  <2>1. /\ own' = own /\ HistoryKept /\ RowKept
        /\ \A k \in Replicas : op'[k].pc = op[k].pc /\ op'[k].before = op[k].before
    BY <1>3, TickIs DEF Durable, Serving, Guarding
  <2> QED
    BY <1>1, <1>3, <2>1 DEF HistoryKept
<1>4. ASSUME NEW h \in Replicas, UNCHANGED scope,
             Progress(h) \/ SettleRound(h) \/ ReplicaStep(h)
      PROVE  Holds'
  <2>1. StepView(h)
    BY <1>4, ViewOf DEF Durable, Serving
  <2>2. ~forfeited
    BY <2>1, StepForfeits
  <2>3. account.status = "active"
    BY <2>1 DEF StepView, Plain, Lifts, Probes, Drops, Refreshes, Boots, Common, Publication
  <2>4. Requests
    BY <1>4, <2>2, <2>3 DEF Requests, Sound, Durable, Serving, Tracking, Holding
  <2> QED
    BY <2>1, <2>4, StepHolds
<1> QED
  BY <1>2, <1>3, <1>4 DEF CNext

\* Initially the one generation is committed and nothing is under way.
LEMMA InitCustody == CustodyInit => Holds
<1> SUFFICES ASSUME CustodyInit PROVE Holds
  OBVIOUS
<1>1. provider = 1 /\ committed = [r \in Revisions |-> IF r = 1 THEN 1 ELSE NoVault]
  BY DEF CustodyInit
<1>2. \A h \in Replicas : op[h].pc = "idle"
  BY DEF CustodyInit, NoOp
<1>3. ~Uncommitted
  <2>1. 1 \in Revisions
    BY DEF Revisions
  <2> QED
    BY <1>1, <2>1 DEF Uncommitted
<1> QED
  BY <1>2, <1>3 DEF Holds, Behind, Requesting

\* The inductive invariant holds in every reachable state.
THEOREM CustodyInvariant == CSpec => []CustodyIInv
<1>1. CustodyInit => Durable /\ Holding
  BY InitDurable, InitCustody DEF Holding
<1>2. Durable /\ Holding /\ [CNext]_allVars => Durable' /\ Holding'
  BY NextDurable, NextCustody
<1> QED
  BY <1>1, <1>2, CustodyIInvIs, PTL DEF CSpec

\* The current refresh token is never silently lost: it is committed, or a live operation
\* holds it under its lease, or custody was visibly given up, or the account was removed.
THEOREM HoldsRotations == CSpec => []RotationHeld
<1>1. Durable /\ Holding => RotationHeld
  <2> SUFFICES ASSUME Durable, Holding, ~scope.recovery, Uncommitted, ~forfeited,
                      account.status # "removed"
      PROVE  \E h \in Replicas :
               /\ HoldsRotation(h)
               /\ Pc(h) \in {"native", "stopped", "settling", "probing"}
               /\ LeaseValid(MyLease(h))
    BY DEF RotationHeld
  <2>1. account.status = "active" /\ Guarding
    <3>1. account \in Accounts /\ account.status # "missing" /\ Guarding
      BY DEF Durable, Serving, Guarding, Typed, IInv, TypeOK, Imported
    <3> QED
      BY <3>1 DEF Accounts, Statuses
  <2>2. PICK h \in Replicas : Holder(h)
    BY <2>1 DEF Holding, Holds
  <2>3. HoldsRotation(h)
    BY <2>2 DEF Holder, HoldsRotation, Top
  <2>4. LeaseValid(MyLease(h))
    BY <2>1, <2>2, RequestingLeased DEF Holder
  <2> QED
    BY <2>2, <2>3, <2>4 DEF Holder, Pc, Requesting
<1> QED
  BY <1>1, CustodyInvariant, CustodyIInvIs, PTL
=============================================================================
