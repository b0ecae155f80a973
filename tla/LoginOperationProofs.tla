------------------------ MODULE LoginOperationProofs ------------------------
(***************************************************************************)
(* Theorems about LoginOperation, for every set of replicas and holders    *)
(* and every bound of the epochs: the invariant IInv, and the order of the *)
(* receipt.  A step is described by what it does to the receipt, to the    *)
(* device and to its own process (Onward, DeviceOnward, Advanced, SupStep, *)
(* RequestStep); the lemmas of the first part say what every copy of the   *)
(* receipt and every other process keeps under such a step, and each       *)
(* action then has a lemma of its own.                                     *)
(***************************************************************************)
EXTENDS LoginOperation, TLAPS

USE EpochAssumption, BootAssumption, NoneAssumption

\* Before a candidate there is nothing to claim.
Unclaimed == {"none"} \cup Polling \cup {"replica_lost", "failed", "canceled"}

\* What every step of the receipt does: it is of the same epoch or of a new one,
\* and a phase or a grant changes under another sequence number.
Onward ==
  /\ row.epoch <= row'.epoch
  /\ row'.epoch = row.epoch =>
       /\ row.seq <= row'.seq /\ row'.holder = row.holder
       /\ row'.seq = row.seq => row'.phase = row.phase /\ row'.grant = row.grant
  /\ row.phase \in Ended => row'.phase \in Ended
  /\ row.phase \in Decided => row'.phase \in Decided
  /\ row.grant \/ row.phase = "completed" => row'.grant \/ row'.phase = "completed"

\* What every step of the device does.
DeviceOnward ==
  /\ sup.pc = "done" => sup'.pc = "done"
  /\ sup.pc = "unpublished" => sup'.pc \in {"unpublished", "done"}
  /\ sup.pc = "canceling" => sup'.pc \in {"canceling", "done"}
  /\ granted => granted'
  /\ granted' => granted \/ sup.pc \in {"spawned", "poll"}

Ordered == row'.phase \in {row.phase} \cup After(row.phase)

\* One worker goes from one step to another, or ends.
Works(r, w) ==
  /\ worker' = [worker EXCEPT ![r] = w]
  /\ w = Idle \/ (w.pc # "idle" /\ ~At(r, "idle") /\ w.op.epoch = worker[r].op.epoch)

-----------------------------------------------------------------------------
(* Types of what the operators make.                                       *)

LEMMA Constants ==
  /\ NoOp \in Ops /\ Idle \in Workings /\ NoSup \in Sups /\ NoPoll \in Polls
  /\ NoRow \in Rows /\ NoLease \in Leases
  /\ NoOp.epoch = 0 /\ Idle.op = NoOp /\ Idle.pc = "idle" /\ Idle.result = None
BY DEF NoOp, Ops, Idle, Workings, NoSup, Sups, NoPoll, Polls, NoRow, Rows, NoLease, Leases

LEMMA RowOp ==
  ASSUME NEW rw \in Rows
  PROVE  /\ OpOf(rw) \in Ops
         /\ OpOf(rw).phase = rw.phase /\ OpOf(rw).holder = rw.holder
         /\ OpOf(rw).epoch = rw.epoch /\ OpOf(rw).seq = rw.seq
         /\ OpOf(rw).grant = rw.grant /\ OpOf(rw).clear = rw.clear
BY DEF OpOf, Rows, Ops, NoOp

LEMMA SavedOpIs ==
  ASSUME NEW op \in Ops, NEW phase \in Phases
  PROVE  LET o == SavedOp(op, phase) IN
         /\ o \in Ops /\ o.phase = phase /\ o.seq = op.seq + 1
         /\ o.epoch = op.epoch /\ o.holder = op.holder /\ o.grant = op.grant
         /\ o.clear = op.clear
<1>0. op.seq + 1 \in Nat
  BY DEF Ops
<1>1. SavedOp(op, phase).phase = phase /\ SavedOp(op, phase).seq = op.seq + 1
  BY DEF SavedOp, Ops
<1>2. SavedOp(op, phase).epoch = op.epoch /\ SavedOp(op, phase).holder = op.holder
  BY DEF SavedOp, Ops
<1>3. SavedOp(op, phase).grant = op.grant /\ SavedOp(op, phase).clear = op.clear
  BY DEF SavedOp, Ops
<1>4. SavedOp(op, phase) \in Ops
  BY <1>0 DEF SavedOp, Ops
<1> QED
  BY <1>1, <1>2, <1>3, <1>4

LEMMA UnsavedOpIs ==
  ASSUME NEW op \in Ops, NEW phase \in Phases
  PROVE  LET o == UnsavedOp(op, phase) IN
         /\ o \in Ops /\ o.phase \in {op.phase, "unresolved"} /\ o.seq = op.seq
         /\ phase # "unresolved" => o = op
         /\ o.epoch = op.epoch /\ o.holder = op.holder /\ o.grant = op.grant
         /\ o.clear = op.clear
BY DEF UnsavedOp, Ops, Phases

\* What a save makes of the receipt.
LEMMA SavedIs ==
  ASSUME TypeOK, NEW op \in Ops, NEW phase \in Phases
  PROVE  LET s == Saved(op, phase) IN
         /\ s \in Rows /\ s.phase = phase /\ s.seq = row.seq + 1
         /\ s.holder = row.holder /\ s.epoch = row.epoch
         /\ s.grant = op.grant /\ s.identified = op.grant
         /\ s.clear = row.clear /\ s.live = row.live /\ s.reserved = row.reserved
         /\ s.cancel = row.cancel /\ s.reported = row.reported
<1>0. row \in Rows /\ op.grant \in BOOLEAN /\ row.seq + 1 \in Nat
  BY DEF TypeOK, Rows, Ops
<1>1. Saved(op, phase).phase = phase /\ Saved(op, phase).seq = row.seq + 1
  BY <1>0 DEF Saved, Rows
<1>2. Saved(op, phase).holder = row.holder /\ Saved(op, phase).epoch = row.epoch
  BY <1>0 DEF Saved, Rows
<1>3. Saved(op, phase).grant = op.grant /\ Saved(op, phase).identified = op.grant
  BY <1>0 DEF Saved, Rows
<1>4. /\ Saved(op, phase).clear = row.clear /\ Saved(op, phase).live = row.live
      /\ Saved(op, phase).reserved = row.reserved
  BY <1>0 DEF Saved, Rows
<1>5. Saved(op, phase).cancel = row.cancel /\ Saved(op, phase).reported = row.reported
  BY <1>0 DEF Saved, Rows
<1>6. Saved(op, phase) \in Rows
  BY <1>0 DEF Saved, Rows
<1> QED
  BY <1>1, <1>2, <1>3, <1>4, <1>5, <1>6

LEMMA ExpiredIs ==
  ASSUME TypeOK
  PROVE  /\ Expired \in Rows
         /\ \/ Expired = row
            \/ /\ row.phase \in Polling /\ ~row.live
               /\ Expired.phase = "replica_lost" /\ Expired.seq = row.seq + 1
         /\ Expired.holder = row.holder /\ Expired.epoch = row.epoch
         /\ Expired.grant = row.grant /\ Expired.identified = row.identified
         /\ Expired.clear = row.clear /\ Expired.live = row.live
         /\ Expired.reserved = row.reserved /\ Expired.cancel = row.cancel
         /\ Expired.reported = row.reported
<1>1. row \in Rows /\ row.seq + 1 \in Nat /\ "replica_lost" \in Phases
  BY DEF TypeOK, Rows, Phases, Terminal
<1>2. CASE row.phase \in Polling /\ ~row.live
  <2>1. Expired = [row EXCEPT !.phase = "replica_lost", !.seq = @ + 1]
    BY <1>2 DEF Expired
  <2>2. Expired.phase = "replica_lost" /\ Expired.seq = row.seq + 1
    BY <1>1, <2>1 DEF Rows
  <2>3. Expired.holder = row.holder /\ Expired.epoch = row.epoch
        /\ Expired.grant = row.grant /\ Expired.identified = row.identified
    BY <1>1, <2>1 DEF Rows
  <2>4. Expired.clear = row.clear /\ Expired.live = row.live
        /\ Expired.reserved = row.reserved /\ Expired.cancel = row.cancel
        /\ Expired.reported = row.reported
    BY <1>1, <2>1 DEF Rows
  <2>5. Expired \in Rows
    BY <1>1, <2>1 DEF Rows
  <2> QED
    BY <1>2, <2>2, <2>3, <2>4, <2>5
<1>3. CASE ~(row.phase \in Polling /\ ~row.live)
  BY <1>1, <1>3 DEF Expired
<1> QED
  BY <1>2, <1>3

LEMMA StageIs ==
  ASSUME TypeOK, NEW r \in Replicas, NEW op \in Ops,
         NEW pc \in {"idle", "launch", "poll", "stop", "read", "capture", "canceling",
                     "publish", "verify", "leased", "settled", "verifying", "abort",
                     "release", "settle", "report", "grantless"}
  PROVE  LET w == Stage(r, pc, op) IN
         /\ w \in Workings /\ w.pc = pc
         /\ pc = "idle" => w = Idle
         /\ pc # "idle" => w.op = op
         /\ pc \in {"read", "capture"} => w.result = worker[r].result
         /\ pc \notin {"read", "capture"} => w.result = None
<1>1. worker[r] \in Workings
  BY DEF TypeOK
<1>2. CASE pc = "idle"
  BY <1>2, Constants DEF Stage
<1>3. CASE pc \in {"read", "capture"}
  BY <1>1, <1>3 DEF Stage, Workings
<1>4. CASE pc \notin {"idle", "read", "capture"}
  BY <1>1, <1>4 DEF Stage, Workings
<1> QED
  BY <1>2, <1>3, <1>4

\* Where a write of a worker that saves its outcome leads.
LEMMA SaveAsDoes ==
  ASSUME TypeOK, NEW r \in Replicas, NEW op \in Ops, NEW phase \in Phases, NEW pc, NEW failed,
         SaveAs(r, op, phase, pc, failed)
  PROVE  \/ /\ Savable(op) /\ row' = Saved(op, phase)
            /\ worker' = [worker EXCEPT ![r] = Stage(r, pc, SavedOp(op, phase))]
         \/ /\ Savable(op) /\ row' = Saved(op, phase)
            /\ worker' = [worker EXCEPT ![r] = Stage(r, failed, UnsavedOp(op, phase))]
         \/ /\ row' = row
            /\ worker' = [worker EXCEPT ![r] = Stage(r, failed, UnsavedOp(op, phase))]
BY DEF SaveAs, Write, Set

LEMMA EarlyRow ==
  ASSUME IInv, row.phase \in Unclaimed
  PROVE  /\ \A s \in Replicas : worker[s].pc \notin Claiming
         /\ lease.kind # "login" /\ ~rotated
<1>1. \A s \in Replicas : worker[s].pc \notin Claiming
  BY DEF IInv, Claimed, LoginLease, Leased, Unclaimed, Decided, Candidacy, Polling
<1>2. lease.kind # "login" /\ ~rotated
  BY DEF IInv, Leased, Rotation, Unclaimed, Decided, Candidacy, Polling
<1> QED
  BY <1>1, <1>2

-----------------------------------------------------------------------------
(* What a step keeps of the parts it does not touch.                       *)

LEMMA CopiedKept ==
  ASSUME TypeOK, row' \in Rows, NEW op \in Ops, Copied(op), Onward, DeviceOnward
  PROVE  Copied(op)'
<1> SUFFICES ASSUME op.epoch > 0 PROVE Copied(op)'
  BY DEF Copied
<1>1. /\ op.epoch \in Nat /\ op.seq \in Nat /\ row.epoch \in Nat /\ row.seq \in Nat
      /\ row'.epoch \in Nat /\ row'.seq \in Nat
  BY DEF TypeOK, Rows, Ops
<1>2. op.epoch <= row'.epoch /\ (op.grant => granted')
  BY <1>1 DEF Copied, Onward, DeviceOnward
<1>3. op.clear => ~granted' /\ sup'.pc \in {"canceling", "done"}
  BY DEF Copied, DeviceOnward
<1>4. ASSUME op.epoch = row'.epoch
      PROVE  /\ op.holder = row'.holder /\ op.seq <= row'.seq
             /\ op.phase \in Terminal => row'.phase \in Ended
             /\ op.seq = row'.seq => /\ op.phase \in {row'.phase, "unresolved"}
                                     /\ row'.grant => op.grant
  <2>1. op.epoch = row.epoch /\ row'.epoch = row.epoch
    BY <1>1, <1>4 DEF Copied, Onward
  <2> QED
    BY <1>1, <2>1 DEF Copied, Onward
<1> QED
  BY <1>2, <1>3, <1>4 DEF Copied

LEMMA WorkerKept ==
  ASSUME TypeOK, row' \in Rows, NEW s \in Replicas, Worker(s), Copied(worker[s].op),
         worker'[s] = worker[s], Onward, DeviceOnward,
         sup.pc = "none" => /\ sup'.pc \in {"none", "done"} \/ worker[s].pc \in {"idle", "poll"}
                            /\ sup'.pc = "none" \/ worker[s].pc # "launch"
  PROVE  Worker(s)'
<1> DEFINE w == worker[s]
<1>1. w \in Workings /\ w.op \in Ops
  BY DEF TypeOK, Workings
<1>2. w.op.epoch \in Nat /\ row.epoch \in Nat /\ row'.epoch \in Nat
  BY <1>1 DEF Ops, TypeOK, Rows
<1>3. w.pc = "report" /\ w.op.epoch = row'.epoch => row'.phase \in Ended
  <2>1. SUFFICES ASSUME w.pc = "report", w.op.epoch = row'.epoch PROVE row'.phase \in Ended
    OBVIOUS
  <2>2. w.op.epoch > 0
    BY <2>1 DEF Worker
  <2>3. w.op.epoch <= row.epoch
    BY <2>2 DEF Copied
  <2>4. w.op.epoch = row.epoch
    BY <1>2, <2>1, <2>3 DEF Onward
  <2> QED
    BY <2>1, <2>4 DEF Worker, Onward
<1> HIDE DEF w
<1>4. DEFINE f == worker'[s]
<1>5. f = w
  BY DEF w, f
<1> HIDE DEF f
<1>6. /\ w.pc = "launch" => sup'.pc = "none"
      /\ w.pc \in {"read", "capture", "canceling", "publish"} => sup'.pc = "done"
      /\ w.pc \notin {"idle", "launch", "poll", "stop"} => sup'.pc \in {"none", "unpublished", "done"}
  BY DEF Worker, DeviceOnward, w
<1>7. w.pc \in {"canceling", "settle", "report", "grantless"} /\ ~w.op.grant /\ w.op.phase \in Polling
       => ~granted'
  BY DEF Worker, DeviceOnward, w
<1>8. w.pc \in {"launch", "poll", "stop", "read"} /\ w.op.grant => row'.grant \/ row'.phase = "completed"
  BY DEF Worker, Onward, w
<1> QED
  BY <1>3, <1>5, <1>6, <1>7, <1>8 DEF Worker, w, f

LEMMA RequestKept ==
  ASSUME TypeOK, row' \in Rows, Request, Copied(poll.op), poll' = poll, Onward
  PROVE  Request'
<1>1. poll.op.epoch \in Nat /\ row.epoch \in Nat /\ row'.epoch \in Nat
  BY DEF TypeOK, Polls, Ops, Rows
<1>2. ASSUME poll.pc = "report", poll.op.epoch = row'.epoch PROVE row'.phase \in Ended
  <2>1. poll.op.epoch > 0
    BY <1>2 DEF Request
  <2>2. poll.op.epoch = row.epoch
    BY <1>1, <1>2, <2>1 DEF Copied, Onward
  <2> QED
    BY <1>2, <2>2 DEF Request, Onward
<1> QED
  BY <1>2 DEF Request

\* Before a candidate nothing is claimed, so nothing can be disturbed.
LEMMA UnclaimedKept ==
  ASSUME IInv, row.phase \in Unclaimed, lease' = lease, refresh' = refresh,
         rotated' = rotated, \A s \in Replicas : worker'[s].pc \notin Claiming
  PROVE  (\A s \in Replicas : Claimed(s)') /\ Leased' /\ Rotation' /\ SoleUser'
<1>1. lease.kind # "login" /\ ~rotated /\ Leased
  BY EarlyRow DEF IInv
<1>2. \A s \in Replicas : Claimed(s)'
  BY DEF Claimed, Claiming, Owning
<1>3. Leased'
  BY <1>1 DEF Leased
<1>4. Rotation'
  BY <1>1 DEF Rotation
<1>5. SoleUser'
  BY DEF SoleUser, Using, Claiming
<1> QED
  BY <1>2, <1>3, <1>4, <1>5

\* The receipt keeps its phase and its epoch, and the lease its holder.
Still ==
  /\ row'.phase = row.phase /\ row'.epoch = row.epoch /\ row'.holder = row.holder
  /\ lease'.kind = lease.kind /\ lease'.by = lease.by /\ lease'.released = lease.released
  /\ refresh' \in {refresh, None}

LEMMA ClaimedKept ==
  ASSUME NEW s \in Replicas, Claimed(s), Still, worker'[s] = worker[s],
         \A q \in Replicas : worker'[q].op.epoch = worker[q].op.epoch \/ worker'[q].op.epoch # row.epoch
  PROVE  Claimed(s)'
<1>0. PICK w : w = worker[s]
  OBVIOUS
<1>1. w.pc \in Claiming => LoginLease(w.op)' \/ row'.phase \in Decided
  BY <1>0 DEF Claimed, Still, LoginLease
<1>2. w.pc \in Claiming /\ w.op.epoch # row'.epoch => row'.phase \in Decided
  BY <1>0 DEF Claimed, Still
<1>3. w.pc \in Owning => LoginLease(w.op)'
  BY <1>0 DEF Claimed, Still, LoginLease
<1>4. w.pc \in Owning /\ w.op.epoch = row'.epoch =>
        row'.phase = IF w.pc = "verifying" THEN "verifying" ELSE "candidate"
  BY <1>0 DEF Claimed, Still
<1>5. w.pc \in Owning /\ w.op.epoch # row'.epoch =>
        row'.phase = "unresolved" /\ \A q \in Replicas : worker'[q].op.epoch # row'.epoch
  BY <1>0 DEF Claimed, Still
<1>6. w.pc = "release" => refresh' # s
  BY <1>0 DEF Claimed, Still
<1>7. worker'[s] = w
  BY <1>0
<1> QED
  BY <1>1, <1>2, <1>3, <1>4, <1>5, <1>6, <1>7 DEF Claimed, LoginLease

LEMMA LeasedKept ==
  ASSUME Leased, Still,
         \A s \in Replicas :
           /\ worker'[s].pc \in Claiming => worker[s].pc \in Claiming
           /\ worker'[s].op.epoch = worker[s].op.epoch \/ worker'[s].op.epoch # row.epoch
  PROVE  Leased'
BY DEF Leased, Still

\* Whoever claims the account is alone to.
LEMMA DistinctKept ==
  ASSUME IInv, NEW r \in Replicas, NEW w \in Workings, Works(r, w),
         w.pc \in Claiming => \/ worker[r].pc \in Claiming
                              \/ \A s \in Replicas \ {r} : worker[s].pc \notin Claiming
  PROVE  Distinct'
<1>1. \A s \in Replicas : worker'[s] = IF s = r THEN w ELSE worker[s]
  BY DEF IInv, TypeOK, Works
<1>2. Idle.pc = "idle"
  BY Constants
<1> QED
  BY <1>1, <1>2 DEF IInv, Distinct, Works, At

\* A receipt whose marks alone change.
LEMMA ReceiptMarked ==
  ASSUME IInv, row' \in Rows, DeviceOnward,
         row'.phase = row.phase, row'.holder = row.holder, row'.epoch = row.epoch,
         row'.seq = row.seq, row'.grant = row.grant, row'.identified = row.identified,
         row.phase = "none" => row' = row,
         row.clear => row'.clear,
         row'.clear => row.clear \/ (~granted' /\ sup'.pc \in {"canceling", "done"}),
         row'.reported => \/ row.reported \/ (row.phase \in Ended /\ row.phase # "completed")
                          \/ row.phase \in Polling /\ row'.clear,
         row.phase \in {"failed", "canceled"} => sup'.pc \in {"none", "unpublished", "done"},
         \/ home' \in {"grant", "unreadable"} \/ home' = home
         \/ ~granted' \/ row.grant \/ row.phase = "completed",
         granted' => granted \/ home' \in {"grant", "unreadable"},
         rotated' => rotated \/ row.phase # "rejected"
  PROVE  Onward /\ Ordered /\ Receipt' /\ GrantKept' /\ FailureTruthful'
<1>0. row.epoch \in Nat /\ row.seq \in Nat
  BY DEF IInv, TypeOK, Rows
<1>1. Onward /\ Ordered
  BY <1>0 DEF Onward, Ordered
<1>2. Receipt /\ GrantKept /\ FailureTruthful
  BY DEF IInv
<1>3. row'.clear => sup'.pc \in {"canceling", "done"} /\ ~granted'
  BY <1>2 DEF Receipt, DeviceOnward, GrantKept
<1>4. row'.phase \in Candidacy => sup'.pc \in {"unpublished", "done"}
  BY <1>2 DEF Receipt, DeviceOnward
<1>5. row'.epoch > 1 => sup'.pc \in {"canceling", "unpublished", "done"}
  BY <1>2 DEF Receipt, DeviceOnward
<1>6. row'.reported => row'.phase \in Ended \/ (row'.phase \in Polling /\ row'.clear)
  BY <1>2 DEF Receipt
<1>7. row'.grant \/ row'.phase \in Candidacy \cup {"completed"} => granted'
  BY <1>2 DEF Receipt, DeviceOnward
<1>8. Receipt'
  BY <1>2, <1>3, <1>4, <1>5, <1>6, <1>7 DEF Receipt
<1>9. GrantKept'
  <2>1. granted' => row'.phase \notin {"failed", "canceled"}
    BY <1>2 DEF Receipt, DeviceOnward, GrantKept
  <2>2. granted' => home' \in {"grant", "unreadable"} \/ row'.grant \/ row'.phase = "completed"
    BY <1>2 DEF GrantKept
  <2> QED
    BY <1>3, <2>1, <2>2 DEF GrantKept
<1>10. FailureTruthful'
  BY <1>2 DEF FailureTruthful, Polling
<1> QED
  BY <1>1, <1>8, <1>9, <1>10

\* A device login that nobody renews is lost.
LEMMA ReceiptExpired ==
  ASSUME IInv, row' = Expired, DeviceOnward,
         row.phase \in {"failed", "canceled"} => sup'.pc \in {"none", "unpublished", "done"},
         \/ home' = home
         \/ ~granted' \/ row.grant \/ row.phase = "completed",
         granted' = granted, rotated' = rotated
  PROVE  row' \in Rows /\ Onward /\ Ordered /\ Receipt' /\ GrantKept' /\ FailureTruthful'
<1>0. TypeOK /\ Receipt /\ GrantKept /\ FailureTruthful
  BY DEF IInv
<1>1. CASE Expired = row
  BY <1>0, <1>1, ExpiredIs, ReceiptMarked
<1>2. CASE Expired # row
  <2>1. /\ row' \in Rows /\ row.phase \in Polling /\ row'.phase = "replica_lost"
        /\ row'.seq = row.seq + 1 /\ row'.holder = row.holder /\ row'.epoch = row.epoch
        /\ row'.grant = row.grant /\ row'.clear = row.clear /\ row'.reported = row.reported
    BY <1>0, <1>2, ExpiredIs
  <2>2. row.epoch \in Nat /\ row.seq \in Nat
    BY <1>0 DEF TypeOK, Rows
  <2>3. Onward
    BY <2>1, <2>2 DEF Onward, Ended, Decided, Polling, Terminal
  <2>4. Ordered
    BY <2>1 DEF Ordered, After, Polling
  <2>5. Receipt'
    BY <1>0, <2>1 DEF Receipt, Ended, Terminal, Candidacy, DeviceOnward, Polling
  <2>6. GrantKept'
    BY <1>0, <2>1 DEF GrantKept, Polling
  <2>7. FailureTruthful'
    BY <2>1 DEF FailureTruthful
  <2> QED
    BY <2>1, <2>3, <2>4, <2>5, <2>6, <2>7
<1> QED
  BY <1>1, <1>2

\* A save moves the receipt on: to a candidate only from a login that is still open,
\* to a failure only when nothing was issued, to a rejection only of an unused grant.
LEMMA ReceiptSaved ==
  ASSUME IInv, NEW op \in Ops, Copied(op), op.epoch > 0, Savable(op),
         NEW phase \in {"pending", "candidate", "unresolved", "rejected", "failed", "canceled"},
         row' = Saved(op, phase), DeviceOnward, granted' = granted, rotated' = rotated,
         phase = "pending" => row.phase = "starting" /\ op.phase = "starting",
         phase = "candidate" => /\ row.phase \in Polling /\ op.grant
                                /\ sup'.pc \in {"unpublished", "done"},
         phase = "rejected" => ~rotated,
         phase \in {"failed", "canceled"} =>
           row.phase \in Polling /\ ~granted /\ sup'.pc \in {"none", "unpublished", "done"},
         home' = home \/ ~granted \/ op.grant
  PROVE  row' \in Rows /\ Onward /\ Ordered /\ Receipt' /\ GrantKept' /\ FailureTruthful'
<1>0. TypeOK /\ Receipt /\ GrantKept /\ FailureTruthful /\ phase \in Phases
  BY DEF IInv, Phases, Terminal, Running, Polling
<1>1. /\ row' \in Rows /\ row'.phase = phase /\ row'.seq = row.seq + 1
      /\ row'.holder = row.holder /\ row'.epoch = row.epoch
      /\ row'.grant = op.grant /\ row'.identified = op.grant
      /\ row'.clear = row.clear /\ row'.reported = row.reported
  BY <1>0, SavedIs
<1>2. row.epoch \in Nat /\ row.seq \in Nat /\ row \in Rows
  BY <1>0 DEF TypeOK, Rows
<1>3. /\ op.epoch = row.epoch /\ op.seq = row.seq /\ row.phase \notin Terminal /\ row.live
      /\ row.grant => op.grant
      /\ op.phase \in {row.phase, "unresolved"}
      /\ op.grant => granted
  BY DEF Savable, Unchanged, Mine, Copied
<1>4. row.phase # "none" /\ row.phase \in Running \cup {"unresolved"}
  <2>1. row.phase # "none"
    BY <1>0, <1>3 DEF Receipt, NoRow
  <2> QED
    BY <1>2, <1>3, <2>1 DEF Rows, Phases
<1>5. Onward
  BY <1>1, <1>2, <1>3, <1>4 DEF Onward, Ended, Decided, Running, Polling, Terminal
<1>6. Ordered
  BY <1>1, <1>4 DEF Ordered, After, Running, Polling
<1>7. row'.reported => row'.phase \in Ended \/ (row'.phase \in Polling /\ row'.clear)
  BY <1>0, <1>1, <1>3 DEF Receipt, Ended, Terminal, Polling, GrantKept
<1>8. row'.clear => sup'.pc \in {"canceling", "done"}
  BY <1>0, <1>1 DEF Receipt, DeviceOnward
<1>9. row'.phase \in Candidacy => row'.grant /\ row'.identified /\ sup'.pc \in {"unpublished", "done"}
  BY <1>0, <1>1, <1>3 DEF Candidacy
<1>10. row'.epoch > 1 => sup'.pc \in {"canceling", "unpublished", "done"}
  BY <1>0, <1>1 DEF Receipt, DeviceOnward
<1>11. Receipt'
  BY <1>0, <1>1, <1>3, <1>4, <1>7, <1>8, <1>9, <1>10 DEF Receipt, Candidacy
<1>12. GrantKept'
  BY <1>0, <1>1, <1>3, <1>4 DEF GrantKept, Running, Polling
<1>13. FailureTruthful'
  BY <1>1 DEF FailureTruthful
<1> QED
  BY <1>1, <1>5, <1>6, <1>11, <1>12, <1>13

\* A copy of the receipt as the step leaves it.
LEMMA CopiedAfter ==
  ASSUME row' \in Rows, Receipt', GrantKept', NEW op \in Ops,
         op.epoch = row'.epoch, op.holder = row'.holder, op.seq = row'.seq,
         op.phase = row'.phase, op.grant = row'.grant, op.clear = row'.clear
  PROVE  Copied(op)'
<1>1. op.epoch \in Nat /\ op.seq \in Nat
  BY DEF Ops
<1>2. op.phase \in Terminal => row'.phase \in Ended
  BY DEF Ended
<1> QED
  BY <1>1, <1>2 DEF Copied, Receipt, GrantKept

\* The same copy, with a grant found or given up as unresolved.
LEMMA CopiedLike ==
  ASSUME NEW op \in Ops, NEW o \in Ops, Copied(op)',
         o.epoch = op.epoch, o.holder = op.holder, o.seq = op.seq, o.clear = op.clear,
         o.phase \in {op.phase, "unresolved"},
         op.grant => o.grant, o.grant => op.grant \/ granted'
  PROVE  Copied(o)'
BY DEF Copied, Terminal, Candidacy

\* What a step of one worker keeps of the others and of the request.
LEMMA Others ==
  ASSUME IInv, NEW r \in Replicas, NEW w \in Workings, Works(r, w), row' \in Rows,
         Onward, DeviceOnward, poll' = poll,
         \A s \in Replicas \ {r} :
           sup.pc = "none" => /\ sup'.pc \in {"none", "done"} \/ worker[s].pc \in {"idle", "poll"}
                              /\ sup'.pc = "none" \/ worker[s].pc # "launch"
  PROVE  /\ worker' \in [Replicas -> Workings] /\ worker'[r] = w
         /\ \A s \in Replicas \ {r} :
              worker'[s] = worker[s] /\ Copied(worker[s].op)' /\ Worker(s)'
         /\ Request' /\ Copied(poll.op)'
         /\ sup'.op = sup.op => Copied(sup.op)'
<1>0. TypeOK
  BY DEF IInv
<1>1. worker' \in [Replicas -> Workings] /\ worker'[r] = w
      /\ \A s \in Replicas \ {r} : worker'[s] = worker[s]
  BY <1>0 DEF TypeOK, Works
<1>2. ASSUME NEW s \in Replicas \ {r} PROVE Copied(worker[s].op)' /\ Worker(s)'
  <2>0. Copied(worker[s].op) /\ Worker(s) /\ worker[s].op \in Ops /\ worker'[s] = worker[s]
    BY <1>0, <1>1 DEF IInv, TypeOK, Workings
  <2>1. PICK o \in Ops : o = worker[s].op
    BY <2>0
  <2>2. Copied(o)'
    BY <1>0, <2>0, <2>1, CopiedKept
  <2>3. Copied(worker[s].op)'
    BY <2>0, <2>1, <2>2
  <2>4. Worker(s)'
    BY <1>0, <2>0, WorkerKept
  <2> QED
    BY <2>3, <2>4
<1>3. Request'
  BY <1>0, RequestKept DEF IInv
<1>4. Copied(poll.op)'
  <2>1. PICK o \in Ops : o = poll.op
    BY <1>0 DEF TypeOK, Polls
  <2>2. Copied(o)'
    BY <1>0, <2>1, CopiedKept DEF IInv
  <2> QED
    BY <2>1, <2>2
<1>5. sup'.op = sup.op => Copied(sup.op)'
  <2>1. PICK o \in Ops : o = sup.op
    BY <1>0 DEF TypeOK, Sups
  <2>2. Copied(o)'
    BY <1>0, <2>1, CopiedKept DEF IInv
  <2> QED
    BY <2>1, <2>2
<1> QED
  BY <1>1, <1>2, <1>3, <1>4, <1>5

\* What a worker that owns the receipt's epoch finds of the others.
LEMMA Alone ==
  ASSUME IInv, NEW r \in Replicas, ~At(r, "idle"), worker[r].op.epoch = row.epoch,
         NEW s \in Replicas \ {r}
  PROVE  /\ worker[s].op.epoch # row.epoch
         /\ worker[s].pc \notin Owning
         /\ worker[s].pc \in Claiming => row.phase \in Decided
<1>1. worker[s].op.epoch # row.epoch
  <2>1. CASE At(s, "idle")
    BY <2>1, Constants DEF At, IInv, Worker
  <2>2. CASE ~At(s, "idle")
    BY <2>2 DEF IInv, Distinct
  <2> QED
    BY <2>1, <2>2
<1>2. Claimed(s) /\ worker[r].op.epoch = row.epoch
  BY DEF IInv
<1> QED
  BY <1>1, <1>2 DEF Claimed

\* The receipt changes within its epoch, and the lease stays with its holder.
Within ==
  /\ row'.epoch = row.epoch
  /\ row.phase \in Candidacy => row'.phase \in Candidacy \cup Decided
  /\ lease'.kind = lease.kind /\ lease'.by = lease.by /\ lease'.released = lease.released
  /\ refresh' \in {refresh, None}

LEMMA ClaimedWrite ==
  ASSUME IInv, NEW r \in Replicas, ~At(r, "idle"), worker[r].op.epoch = row.epoch,
         NEW s \in Replicas \ {r}, worker'[s] = worker[s], Onward, Within
  PROVE  Claimed(s)'
<1>0. PICK w : w = worker[s]
  OBVIOUS
<1>1. w.pc \notin Owning /\ (w.pc \in Claiming => row'.phase \in Decided)
  BY <1>0, Alone DEF Onward
<1>2. w.pc = "release" => refresh' # s
  BY <1>0 DEF IInv, Claimed, Within
<1>3. worker'[s] = w
  BY <1>0
<1> QED
  BY <1>1, <1>2, <1>3 DEF Claimed

LEMMA LeasedWrite ==
  ASSUME IInv, Within, Onward,
         \A s \in Replicas :
           /\ worker'[s].pc \in Claiming => worker[s].pc \in Claiming
           /\ worker'[s].op.epoch = worker[s].op.epoch \/ worker'[s].op.epoch # row.epoch
  PROVE  Leased'
<1>1. Leased
  BY DEF IInv
<1>2. row'.phase \in Candidacy /\ lease.kind = "login" => row.phase \in Candidacy
  BY <1>1 DEF Leased, Onward, Decided, Candidacy
<1>3. row'.holder = row.holder
  BY DEF Within, Onward
<1>4. lease'.released <=> lease'.kind = "none"
  BY <1>1 DEF Leased, Within
<1>5. lease'.kind = "login" =>
        row'.phase \in Decided \/ (row'.phase \in Candidacy /\ lease'.by = row'.holder)
  BY <1>1, <1>3 DEF Leased, Within, Onward
<1>6. ASSUME refresh' # None
      PROVE  \/ lease'.kind = "refresh" /\ lease'.by = refresh'
             \/ /\ lease'.kind = "login"
                /\ \A s \in Replicas \ {refresh'} :
                     /\ worker'[s].pc \notin Claiming
                     /\ row'.phase \in Candidacy => worker'[s].op.epoch # row'.epoch
  <2>1. refresh' = refresh
    BY <1>6 DEF Within
  <2>2. CASE lease.kind = "refresh" /\ lease.by = refresh
    BY <2>1, <2>2 DEF Within
  <2>3. CASE lease.kind # "refresh" \/ lease.by # refresh
    <3>1. lease.kind = "login" /\ \A s \in Replicas \ {refresh} :
             /\ worker[s].pc \notin Claiming
             /\ row.phase \in Candidacy => worker[s].op.epoch # row.epoch
      BY <1>1, <1>6, <2>1, <2>3 DEF Leased
    <3> QED
      BY <1>2, <2>1, <3>1 DEF Within
  <2> QED
    BY <2>2, <2>3
<1> QED
  BY <1>4, <1>5, <1>6 DEF Leased

LEMMA RotationWrite ==
  ASSUME IInv, NEW r \in Replicas, row'.epoch = row.epoch, Ordered, DeviceOnward,
         rotated' = rotated,
         row'.phase = "rejected" => row.phase = "rejected" \/ ~rotated,
         \A s \in Replicas \ {r} : worker'[s] = worker[s],
         worker'[r].pc \in Logging \cup {"verify", "leased", "settled"}
           /\ worker'[r].op.epoch = row.epoch => ~rotated,
         worker'[r].pc = "abort" /\ worker'[r].result = "refused" => ~rotated
  PROVE  Rotation'
<1>1. Rotation
  BY DEF IInv
<1>2. rotated => row'.phase \in {"verifying", "unresolved", "completed"}
  BY <1>1 DEF Rotation, Ordered, After
<1>3. rotated => sup'.pc \in {"unpublished", "done"}
  BY <1>1 DEF Rotation, DeviceOnward
<1> QED
  BY <1>1, <1>2, <1>3 DEF Rotation

LEMMA SoleUserKept ==
  ASSUME IInv, NEW r \in Replicas, refresh' \in {refresh, None},
         \A s \in Replicas \ {r} : worker'[s] = worker[s],
         worker'[r].pc \in {"settled", "verifying"} => worker[r].pc \in {"settled", "verifying"}
  PROVE  SoleUser'
BY DEF IInv, SoleUser, Using

Pcs == {"idle", "launch", "poll", "stop", "read", "capture", "canceling", "publish",
        "verify", "leased", "settled", "verifying", "abort", "release", "settle",
        "report", "grantless"}

\* What the receipt and what is told of it need after a step.
ReceiptStep ==
  /\ row' \in Rows /\ Onward /\ Ordered /\ Receipt' /\ GrantKept' /\ FailureTruthful'

\* One worker has moved, and everything that does not depend on what it claims holds.
Advanced(r, w) ==
  /\ Works(r, w) /\ worker'[r] = w /\ Copied(w.op)'
  /\ worker' \in [Replicas -> Workings]
  /\ row'.identified => row'.grant \/ row'.phase = "completed"
  /\ ReceiptStep /\ DeviceOnward
  /\ \A s \in Replicas \ {r} :
       worker'[s] = worker[s] /\ Copied(worker[s].op)' /\ Worker(s)'
  /\ Request' /\ Copied(poll.op)' /\ Copied(sup.op)'

LEMMA Advances ==
  ASSUME IInv, NEW r \in Replicas, NEW w \in Workings, Works(r, w), Copied(w.op)',
         ReceiptStep, DeviceOnward, UNCHANGED <<sup, poll>>,
         row'.identified => row'.grant \/ row'.phase = "completed"
  PROVE  Advanced(r, w)
BY Others DEF Advanced, ReceiptStep

\* Where a worker and the receipt are after it saved its outcome, or did not.
Saves(r, w, phase, pc, failed) ==
  /\ row'.epoch = row.epoch
  /\ row' = row \/ (worker[r].op.epoch = row.epoch /\ row'.phase = phase)
  /\ w.pc \notin {"read", "capture"} => w.result = None
  /\ w.pc # "idle" => /\ w.op.epoch = worker[r].op.epoch
                      /\ w.op.holder = worker[r].op.holder
                      /\ w.op.grant = worker[r].op.grant
  /\ w.pc = "idle" => w = Idle
  /\ \/ /\ row'.phase = phase /\ worker[r].op.epoch = row.epoch
        /\ w.pc = pc /\ (w = Idle \/ w.op.phase = phase)
     \/ /\ w.pc = failed /\ w.op.phase \in {worker[r].op.phase, "unresolved"}
        /\ phase # "unresolved" => w.op = worker[r].op

\* A worker that saves its outcome, in every way its write can go.
LEMMA SaveWorker ==
  ASSUME IInv, NEW r \in Replicas, ~At(r, "idle"),
         NEW phase \in {"candidate", "unresolved", "rejected", "failed", "canceled"},
         NEW pc \in Pcs, NEW failed \in Pcs \ {"idle"},
         SaveAs(r, worker[r].op, phase, pc, failed),
         UNCHANGED <<sup, granted, poll, rotated>>,
         worker'[r].pc = failed => home' = home,
         Savable(worker[r].op) =>
           /\ phase = "candidate" => /\ row.phase \in Polling /\ worker[r].op.grant
                                     /\ sup.pc \in {"unpublished", "done"}
           /\ phase = "rejected" => ~rotated
           /\ phase \in {"failed", "canceled"} =>
                row.phase \in Polling /\ ~granted /\ sup.pc \in {"none", "unpublished", "done"}
           /\ home' = home \/ ~granted \/ worker[r].op.grant
  PROVE  \E w \in Workings : Advanced(r, w) /\ Saves(r, w, phase, pc, failed)
<1>0. /\ TypeOK /\ worker[r].op \in Ops /\ phase \in Phases /\ Copied(worker[r].op)
      /\ Worker(r) /\ row \in Rows
  BY DEF IInv, TypeOK, Workings, Phases, Terminal, Running
<1>1. PICK op \in Ops : op = worker[r].op
  BY <1>0
<1>2. op.epoch > 0
  BY <1>0, <1>1 DEF Worker, At
<1>3. DeviceOnward
  BY DEF DeviceOnward
<1>4. /\ SavedOp(op, phase) \in Ops /\ SavedOp(op, phase).epoch = op.epoch
      /\ UnsavedOp(op, phase) \in Ops /\ UnsavedOp(op, phase).epoch = op.epoch
  BY SavedOpIs, UnsavedOpIs, <1>0
<1>5. ASSUME Savable(op), row' = Saved(op, phase)
      PROVE  /\ ReceiptStep /\ op.epoch = row.epoch /\ row'.epoch = row.epoch
             /\ row'.phase = phase /\ (row'.identified => row'.grant)
  <2>1. ReceiptStep
    BY <1>0, <1>1, <1>2, <1>3, <1>5, ReceiptSaved DEF ReceiptStep
  <2>2. op.epoch = row.epoch
    BY <1>5 DEF Savable, Unchanged, Mine
  <2> QED
    BY <2>1, <2>2, <1>0, <1>5, SavedIs
<1>6. ASSUME row' = row, worker'[r].pc = failed PROVE ReceiptStep
  BY <1>0, <1>3, <1>6, ReceiptMarked DEF ReceiptStep, IInv, Receipt
<1>7. ASSUME NEW w \in Workings, Works(r, w), ReceiptStep
      PROVE  /\ worker' \in [Replicas -> Workings] /\ worker'[r] = w
             /\ \A s \in Replicas \ {r} :
                  worker'[s] = worker[s] /\ Copied(worker[s].op)' /\ Worker(s)'
             /\ Request' /\ Copied(poll.op)' /\ Copied(sup.op)'
  BY <1>3, <1>7, Others DEF ReceiptStep
<1>8. ASSUME ReceiptStep PROVE Copied(op)'
  BY <1>0, <1>1, <1>3, <1>8, CopiedKept DEF ReceiptStep
<1>9. CASE /\ Savable(op) /\ row' = Saved(op, phase)
           /\ worker' = [worker EXCEPT ![r] = Stage(r, pc, SavedOp(op, phase))]
  <2>1. PICK w \in Workings : w = Stage(r, pc, SavedOp(op, phase))
    BY <1>0, <1>4, StageIs DEF Pcs
  <2>2. w = Idle \/ (w.pc # "idle" /\ w.op = SavedOp(op, phase))
    BY <1>0, <1>4, <2>1, StageIs DEF Pcs
  <2>3. Works(r, w)
    BY <1>1, <1>4, <1>9, <2>1, <2>2 DEF Works
  <2>4. Copied(w.op)'
    <3>1. CASE w = Idle
      BY <3>1, Constants DEF Copied
    <3>2. CASE w.op = SavedOp(op, phase)
      <4>1. PICK o \in Ops : o = w.op
        BY <1>4, <3>2
      <4>2. /\ o.epoch = row'.epoch /\ o.holder = row'.holder /\ o.seq = row'.seq
            /\ o.phase = row'.phase /\ o.grant = row'.grant
        <5>1. /\ o.phase = phase /\ o.seq = op.seq + 1 /\ o.epoch = op.epoch
              /\ o.holder = op.holder /\ o.grant = op.grant
          BY <1>0, <3>2, <4>1, SavedOpIs
        <5>2. /\ row'.phase = phase /\ row'.seq = row.seq + 1 /\ row'.epoch = row.epoch
              /\ row'.holder = row.holder /\ row'.grant = op.grant
          BY <1>0, <1>9, SavedIs
        <5> QED
          BY <1>9, <5>1, <5>2 DEF Savable, Unchanged, Mine
      <4>3. o.clear => ~granted' /\ sup'.pc \in {"canceling", "done"}
        BY <1>0, <1>1, <1>2, <3>2, <4>1, SavedOpIs DEF Copied
      <4>4. o.epoch \in Nat /\ o.seq \in Nat
        BY DEF Ops
      <4>5. Receipt' /\ GrantKept'
        BY <1>5, <1>9 DEF ReceiptStep
      <4>6. o.grant => granted'
        BY <4>2, <4>5 DEF Receipt
      <4>7. o.phase \in Candidacy => o.grant
        BY <4>2, <4>5 DEF Receipt
      <4>8. o.phase \in Terminal => row'.phase \in Ended
        BY <4>2 DEF Ended
      <4>9. Copied(o)'
        BY <4>2, <4>3, <4>4, <4>6, <4>7, <4>8 DEF Copied
      <4> QED
        BY <4>1, <4>9
    <3> QED
      BY <2>2, <3>1, <3>2
  <2>5. /\ w.pc = pc /\ (pc = "idle" => w = Idle)
        /\ w.pc \notin {"read", "capture"} => w.result = None
    BY <1>0, <1>4, <2>1, StageIs DEF Pcs
  <2>6. w.op = SavedOp(op, phase) =>
          /\ w.op.epoch = op.epoch /\ w.op.holder = op.holder /\ w.op.grant = op.grant
          /\ w.op.phase = phase
    BY <1>0, SavedOpIs
  <2>7. Saves(r, w, phase, pc, failed)
    BY <1>1, <1>5, <1>9, <2>2, <2>5, <2>6, Constants DEF Saves
  <2> QED
    BY <1>1, <1>3, <1>5, <1>7, <1>9, <2>1, <2>3, <2>4, <2>7 DEF Advanced
<1>10. CASE /\ worker' = [worker EXCEPT ![r] = Stage(r, failed, UnsavedOp(op, phase))]
            /\ row' = row \/ (Savable(op) /\ row' = Saved(op, phase))
  <2>1. PICK w \in Workings : w = Stage(r, failed, UnsavedOp(op, phase))
    BY <1>0, <1>4, StageIs DEF Pcs
  <2>2. w.pc = failed /\ w.op = UnsavedOp(op, phase)
    BY <1>0, <1>4, <2>1, StageIs DEF Pcs
  <2>3. Works(r, w) /\ worker'[r].pc = failed
    BY <1>0, <1>1, <1>4, <1>10, <2>1, <2>2 DEF Works, TypeOK
  <2>4. ReceiptStep
    BY <1>5, <1>6, <1>10, <2>3
  <2>5. Copied(w.op)'
    <3>1. PICK o \in Ops : o = w.op
      BY <1>4, <2>2
    <3>2. Copied(o)'
      BY <1>0, <1>8, <2>2, <2>4, <3>1, UnsavedOpIs, CopiedLike
    <3> QED
      BY <3>1, <3>2
  <2>6. row'.identified => row'.grant \/ row'.phase = "completed"
    BY <1>0, <1>5, <1>10 DEF TypeOK
  <2>7. row'.epoch = row.epoch /\ (row' = row \/ row'.phase = phase)
    BY <1>5, <1>10
  <2>8. row' = row \/ (op.epoch = row.epoch /\ row' = Saved(op, phase))
    BY <1>5, <1>10
  <2>9. w.pc \notin {"read", "capture"} => w.result = None
    BY <1>0, <1>4, <2>1, StageIs DEF Pcs
  <2>10. /\ w.op.epoch = op.epoch /\ w.op.holder = op.holder /\ w.op.grant = op.grant
         /\ w.op.phase \in {op.phase, "unresolved"} /\ (phase # "unresolved" => w.op = op)
    BY <1>0, <2>2, UnsavedOpIs
  <2>11. Saves(r, w, phase, pc, failed)
    BY <1>1, <2>2, <2>7, <2>8, <2>9, <2>10 DEF Saves
  <2> QED
    BY <1>1, <1>3, <1>7, <1>10, <2>1, <2>3, <2>4, <2>5, <2>6, <2>11 DEF Advanced
<1> QED
  BY <1>0, <1>1, <1>9, <1>10, SaveAsDoes

LEMMA Assembled ==
  ASSUME IInv, NEW r \in Replicas, NEW w \in Workings, Advanced(r, w),
         holders' \in [Holders -> {"unregistered", "live", "expired"}],
         lease' \in Leases, browser' \in BOOLEAN, current' \in [Replicas -> Holders],
         sup' \in Sups, native' \in {"none", "running", "recorded", "exited"},
         home' \in {"empty", "grant", "unreadable", "removed"}, poll' \in Polls,
         refresh' \in Replicas \cup {None}, granted' \in BOOLEAN, rotated' \in BOOLEAN,
         Worker(r)', \A s \in Replicas : Claimed(s)', Distinct', Leased', Rotation',
         SoleUser', Device', Supervisor'
  PROVE  IInv' /\ Ordered
<1>1. TypeOK'
  BY DEF Advanced, ReceiptStep, TypeOK
<1>2. ASSUME NEW s \in Replicas PROVE Copied(worker[s].op)' /\ Worker(s)' /\ Claimed(s)'
  BY DEF Advanced
<1>3. Receipt' /\ GrantKept' /\ FailureTruthful' /\ Ordered
  BY DEF Advanced, ReceiptStep
<1>4. Request' /\ Copied(poll.op)' /\ Copied(sup.op)'
  BY DEF Advanced
<1> QED
  BY <1>1, <1>2, <1>3, <1>4 DEF IInv

\* A step of one worker that takes nothing of the account.
LEMMA PlainStep ==
  ASSUME IInv, NEW r \in Replicas, NEW w \in Workings, Advanced(r, w), ~At(r, "idle"),
         worker[r].op.epoch = row.epoch \/ row' = row \/ row.phase \in Unclaimed,
         row'.epoch = row.epoch,
         UNCHANGED <<holders, lease, browser, current, poll, rotated>>,
         refresh' \in {refresh, None},
         sup' \in Sups, native' \in {"none", "running", "recorded", "exited"},
         home' \in {"empty", "grant", "unreadable", "removed"}, granted' \in BOOLEAN,
         Device', Supervisor',
         Worker(r)', Claimed(r)',
         w.pc \in Claiming => worker[r].pc \in Claiming,
         \/ SoleUser'
         \/ w.pc \in {"settled", "verifying"} => worker[r].pc \in {"settled", "verifying"},
         w.pc \in Logging \cup {"verify", "leased", "settled"} /\ w.op.epoch = row.epoch
           => ~rotated,
         w.pc = "abort" /\ w.result = "refused" => ~rotated
  PROVE  IInv' /\ Ordered
<1>1. TypeOK
  BY DEF IInv
<1>2. Onward /\ Ordered /\ DeviceOnward /\ worker'[r] = w
  BY DEF Advanced, ReceiptStep
<1>3. w.op.epoch = worker[r].op.epoch \/ w.op.epoch # row.epoch \/ row.phase = "none"
  <2>1. CASE w = Idle
    <3>1. w.op.epoch = 0
      BY <2>1, Constants
    <3>2. row.phase = "none" \/ row.epoch > 0
      BY DEF IInv, Receipt
    <3> QED
      BY <3>1, <3>2
  <2>2. CASE w # Idle
    BY <2>2 DEF Advanced, Works
  <2> QED
    BY <2>1, <2>2
<1>5. row.phase # "none"
  <2>1. worker[r].op.epoch > 0 /\ worker[r].op.epoch <= row.epoch
    BY DEF IInv, Worker, At, Copied
  <2>2. row.phase = "none" => row.epoch = 0
    BY DEF IInv, Receipt, NoRow
  <2>3. worker[r].op.epoch \in Nat /\ row.epoch \in Nat
    BY <1>1 DEF TypeOK, Workings, Ops, Rows
  <2> QED
    BY <2>1, <2>2, <2>3
<1>6. ASSUME NEW s \in Replicas
      PROVE  worker'[s].op.epoch = worker[s].op.epoch \/ worker'[s].op.epoch # row.epoch
  <2>1. CASE s = r
    BY <1>2, <1>3, <1>5, <2>1
  <2>2. CASE s # r
    BY <2>2 DEF Advanced
  <2> QED
    BY <2>1, <2>2
<1>7. Within
  BY <1>2 DEF Within, Ordered, After, Candidacy, Decided
<1>8. \A s \in Replicas : Claimed(s)'
  <2>1. ASSUME NEW s \in Replicas \ {r} PROVE Claimed(s)'
    <3>0. Claimed(s) /\ worker'[s] = worker[s]
      BY DEF IInv, Advanced
    <3>1. CASE worker[r].op.epoch = row.epoch
      BY <1>2, <1>7, <3>0, <3>1, ClaimedWrite
    <3>2. CASE row' = row
      BY <1>6, <3>0, <3>2, ClaimedKept DEF Still
    <3>3. CASE row.phase \in Unclaimed
      <4>1. worker[s].pc \notin Claiming
        BY <3>3, EarlyRow
      <4> QED
        BY <3>0, <4>1 DEF Claimed, Claiming, Owning
    <3> QED
      BY <3>1, <3>2, <3>3
  <2> QED
    BY <2>1
<1>9. Leased'
  <2>1. \A s \in Replicas : worker'[s].pc \in Claiming => worker[s].pc \in Claiming
    BY <1>2 DEF Advanced
  <2> QED
    BY <1>2, <1>6, <1>7, <2>1, LeasedWrite
<1>10. Rotation'
  BY <1>2, RotationWrite DEF Advanced, ReceiptStep, FailureTruthful
<1>11. SoleUser'
  BY <1>2, SoleUserKept DEF Advanced
<1>12. Distinct'
  BY DistinctKept DEF Advanced
<1> QED
  BY <1>1, <1>2, <1>8, <1>9, <1>10, <1>11, <1>12, Assembled DEF TypeOK

\* The same, when the device is left alone or its home removed after the login.
LEMMA PlainWrite ==
  ASSUME IInv, NEW r \in Replicas, NEW w \in Workings, Advanced(r, w), ~At(r, "idle"),
         worker[r].op.epoch = row.epoch \/ row' = row \/ row.phase \in Unclaimed,
         row'.epoch = row.epoch,
         UNCHANGED <<holders, lease, browser, current, sup, native, granted, poll, rotated>>,
         refresh' \in {refresh, None},
         home' = home \/ (home' = "removed" /\ sup.pc = "done"),
         Worker(r)', Claimed(r)',
         w.pc \in Claiming => worker[r].pc \in Claiming,
         \/ SoleUser'
         \/ w.pc \in {"settled", "verifying"} => worker[r].pc \in {"settled", "verifying"},
         w.pc \in Logging \cup {"verify", "leased", "settled"} /\ w.op.epoch = row.epoch
           => ~rotated,
         w.pc = "abort" /\ w.result = "refused" => ~rotated
  PROVE  IInv' /\ Ordered
<1>1. TypeOK /\ Device /\ Supervisor /\ Ordered
  BY DEF IInv, Advanced, ReceiptStep
<1>2. Device'
  BY <1>1 DEF Device
<1>3. Supervisor'
  BY <1>1 DEF Supervisor, Ordered, After
<1>4. /\ sup' \in Sups /\ native' \in {"none", "running", "recorded", "exited"}
      /\ home' \in {"empty", "grant", "unreadable", "removed"} /\ granted' \in BOOLEAN
  BY <1>1 DEF TypeOK
<1> QED
  BY <1>2, <1>3, <1>4, PlainStep

-----------------------------------------------------------------------------
(* The worker.                                                             *)

LEMMA SaveStoppedInv ==
  ASSUME IInv, NEW r \in Replicas, SaveStopped(r)
  PROVE  IInv' /\ Ordered
<1> DEFINE phase == IF worker[r].op.grant THEN "rejected" ELSE "canceled"
<1>0. TypeOK /\ Worker(r) /\ Rotation /\ worker[r].pc = "canceling" /\ worker[r].op \in Ops
  BY DEF IInv, SaveStopped, At, TypeOK, Workings
<1>1. /\ sup.pc = "done"
      /\ ~worker[r].op.grant => worker[r].op.phase \in Polling /\ ~granted
  BY <1>0 DEF Worker
<1>2. Savable(worker[r].op) =>
        /\ worker[r].op.epoch = row.epoch
        /\ worker[r].op.phase \in {row.phase, "unresolved"}
  BY <1>0 DEF Savable, Unchanged, Mine, IInv, Copied, Worker
<1>3. Savable(worker[r].op) => ~rotated
  BY <1>0, <1>2 DEF Rotation, Logging
<1>4. \E w \in Workings : Advanced(r, w) /\ Saves(r, w, phase, "idle", "settle")
  <2>1. worker'[r].pc = "settle" => home' = home
    BY DEF SaveStopped
  <2>2. SaveAs(r, worker[r].op, phase, "idle", "settle")
    BY DEF SaveStopped
  <2>3. Savable(worker[r].op) =>
          /\ phase = "rejected" => ~rotated
          /\ phase \in {"failed", "canceled"} =>
               row.phase \in Polling /\ ~granted /\ sup.pc \in {"none", "unpublished", "done"}
          /\ home' = home \/ ~granted \/ worker[r].op.grant
    BY <1>1, <1>2, <1>3 DEF Polling
  <2>4. ~At(r, "idle") /\ UNCHANGED <<sup, granted, poll, rotated>>
    BY <1>0 DEF At, SaveStopped
  <2>5. phase \in {"rejected", "canceled"} /\ "idle" \in Pcs /\ "settle" \in Pcs \ {"idle"}
    BY DEF Pcs
  <2> HIDE DEF phase
  <2> QED
    BY <2>1, <2>2, <2>3, <2>4, <2>5, SaveWorker
<1>5. PICK w \in Workings : Advanced(r, w) /\ Saves(r, w, phase, "idle", "settle")
  BY <1>4
<1>7. \/ w = Idle
      \/ w.pc = "settle" /\ w.op.epoch = worker[r].op.epoch /\ w.op.grant = worker[r].op.grant
  BY <1>5 DEF Saves
<1> HIDE DEF phase
<1>8. worker'[r] = w
  BY <1>5 DEF Advanced
<1>9. Worker(r)'
  BY <1>0, <1>1, <1>7, <1>8, Constants DEF Worker, SaveStopped, Logging, Owning, Claiming
<1>10. Claimed(r)'
  BY <1>7, <1>8, Constants DEF Claimed, Claiming, Owning
<1> QED
  BY <1>0, <1>1, <1>5, <1>7, <1>9, <1>10, Constants, PlainWrite DEF SaveStopped, Saves, At, Logging, Claiming

LEMMA PublishInv ==
  ASSUME IInv, NEW r \in Replicas, Publish(r)
  PROVE  IInv' /\ Ordered
<1>0. TypeOK /\ Worker(r) /\ Rotation /\ worker[r].pc = "publish" /\ worker[r].op \in Ops
  BY DEF IInv, Publish, At, TypeOK, Workings
<1>1. /\ sup.pc = "done" /\ worker[r].op.grant
      /\ worker[r].op.phase \notin Candidacy \cup {"unresolved"}
  BY <1>0 DEF Worker
<1>2. Savable(worker[r].op) => row.phase \in Polling
  <2>1. SUFFICES ASSUME Savable(worker[r].op) PROVE row.phase \in Polling
    OBVIOUS
  <2>2. row.phase = worker[r].op.phase /\ row.phase \notin Terminal /\ row.live
    BY <1>0, <1>1, <2>1 DEF Savable, Unchanged, Mine, IInv, Copied, Worker
  <2>3. row.phase # "none"
    BY <2>2 DEF IInv, Receipt, NoRow
  <2> QED
    BY <1>0, <1>1, <2>2, <2>3 DEF TypeOK, Rows, Phases, Running, Candidacy
<1>3. \E w \in Workings : Advanced(r, w) /\ Saves(r, w, "candidate", "verify", "settle")
  <2>1. SaveAs(r, worker[r].op, "candidate", "verify", "settle")
    BY DEF Publish
  <2>2. worker'[r].pc = "settle" => home' = home
    BY DEF Publish
  <2>3. ~At(r, "idle") /\ UNCHANGED <<sup, granted, poll, rotated>>
    BY <1>0 DEF At, Publish
  <2>4. "verify" \in Pcs /\ "settle" \in Pcs \ {"idle"}
    BY DEF Pcs
  <2> QED
    BY <1>1, <1>2, <2>1, <2>2, <2>3, <2>4, SaveWorker
<1>4. PICK w \in Workings : Advanced(r, w) /\ Saves(r, w, "candidate", "verify", "settle")
  BY <1>3
<1>5. /\ w.pc \in {"verify", "settle"} /\ w.op.epoch = worker[r].op.epoch /\ w.op.grant
      /\ worker'[r] = w
  BY <1>1, <1>4, Constants DEF Saves, Advanced
<1>6. Worker(r)'
  BY <1>0, <1>1, <1>5 DEF Worker, Publish, Logging, Owning, Claiming
<1>7. Claimed(r)'
  BY <1>5 DEF Claimed, Claiming, Owning
<1>8. w.op.epoch = row.epoch => ~rotated
  BY <1>0, <1>5 DEF Rotation, Logging
<1> QED
  BY <1>0, <1>1, <1>4, <1>5, <1>6, <1>7, <1>8, PlainWrite
     DEF Publish, Saves, At, Logging, Claiming

\* A worker that only goes on.
LEMMA GoAdvances ==
  ASSUME IInv, NEW r \in Replicas, ~At(r, "idle"), NEW op \in Ops, NEW pc \in Pcs,
         op.epoch = worker[r].op.epoch, Copied(op)', Go(r, pc, op),
         ReceiptStep, DeviceOnward, UNCHANGED <<sup, poll>>,
         row'.identified => row'.grant \/ row'.phase = "completed"
  PROVE  \E w \in Workings :
           /\ Advanced(r, w) /\ w.pc = pc
           /\ IF pc = "idle" THEN w = Idle ELSE w.op = op
           /\ pc \in {"read", "capture"} => w.result = worker[r].result
           /\ pc \notin {"read", "capture"} => w.result = None
<1>0. TypeOK
  BY DEF IInv
<1>1. PICK w \in Workings : w = Stage(r, pc, op)
  BY <1>0, StageIs DEF Pcs
<1>2. /\ w.pc = pc /\ IF pc = "idle" THEN w = Idle ELSE w.op = op
      /\ pc \in {"read", "capture"} => w.result = worker[r].result
      /\ pc \notin {"read", "capture"} => w.result = None
  BY <1>0, <1>1, StageIs DEF Pcs
<1>3. Works(r, w)
  BY <1>1, <1>2 DEF Works, Go, Set
<1>4. Copied(w.op)'
  <2>1. CASE pc = "idle"
    BY <1>2, <2>1, Constants DEF Copied
  <2>2. CASE pc # "idle"
    BY <1>2, <2>2
  <2> QED
    BY <2>1, <2>2
<1> QED
  BY <1>2, <1>3, <1>4, Advances

\* A step that leaves the receipt and the device alone.
LEMMA QuietStep ==
  ASSUME IInv, row' = row, UNCHANGED <<sup, home, granted>>,
         rotated' => rotated \/ row.phase # "rejected"
  PROVE  /\ ReceiptStep /\ DeviceOnward
         /\ row'.identified => row'.grant \/ row'.phase = "completed"
<1>0. row \in Rows /\ (row.identified => row.grant \/ row.phase = "completed") /\ Receipt
  BY DEF IInv, TypeOK
<1>1. DeviceOnward
  BY DEF DeviceOnward
<1>2. ReceiptStep
  BY <1>0, <1>1, ReceiptMarked DEF ReceiptStep, Receipt
<1> QED
  BY <1>0, <1>1, <1>2

\* The worker's own copy stays one.
LEMMA OwnCopy ==
  ASSUME IInv, NEW r \in Replicas, ReceiptStep, DeviceOnward
  PROVE  \A op \in Ops : op = worker[r].op => Copied(op)'
<1>1. TypeOK /\ Copied(worker[r].op)
  BY DEF IInv
<1> QED
  BY <1>1, CopiedKept DEF ReceiptStep

LEMMA GoQuietly ==
  ASSUME IInv, NEW r \in Replicas, ~At(r, "idle"), NEW pc \in Pcs,
         Go(r, pc, worker[r].op), UNCHANGED <<row, sup, home, granted, poll, rotated>>
  PROVE  \E w \in Workings :
           /\ Advanced(r, w) /\ w.pc = pc
           /\ IF pc = "idle" THEN w = Idle ELSE w.op = worker[r].op
           /\ pc \in {"read", "capture"} => w.result = worker[r].result
           /\ pc \notin {"read", "capture"} => w.result = None
<1>1. /\ ReceiptStep /\ DeviceOnward
      /\ row'.identified => row'.grant \/ row'.phase = "completed"
  BY QuietStep
<1>2. PICK op \in Ops : op = worker[r].op
  BY DEF IInv, TypeOK, Workings
<1>3. Copied(op)'
  BY <1>1, <1>2, OwnCopy
<1> QED
  BY <1>1, <1>2, <1>3, GoAdvances

\* The claim: only the worker of the receipt's epoch finds the lease its own or free,
\* and then no other has claimed the account and no other replica refreshes it.
LEMMA ClaimInv ==
  ASSUME IInv, NEW r \in Replicas, At(r, "verify"), Claimable(r, worker[r].op),
         NEW pc \in {"leased", "settle"}, Go(r, pc, worker[r].op),
         lease' = [kind |-> "login", by |-> worker[r].op.holder, live |-> TRUE, released |-> FALSE],
         UNCHANGED <<row, holders, browser, current, device, poll, refresh, rotated>>
  PROVE  IInv' /\ Ordered
<1>0. /\ TypeOK /\ Worker(r) /\ Rotation /\ Leased /\ worker[r].pc = "verify"
      /\ ~At(r, "idle") /\ worker[r].op \in Ops
  BY DEF IInv, At, TypeOK, Workings
<1>1. /\ worker[r].op.epoch = row.epoch /\ worker[r].op.holder = row.holder
      /\ row.phase = "candidate" /\ row.holder \in Holders
      /\ worker[r].op.grant /\ worker[r].op.epoch > 0
      /\ sup.pc \in {"none", "unpublished", "done"}
  BY <1>0 DEF Claimable, Mine, IInv, Receipt, Worker, Owning
<1>2. /\ pc \in Pcs /\ UNCHANGED <<sup, home, granted>>
      /\ native' = native
  BY DEF Pcs, device
<1>3. PICK w \in Workings :
        Advanced(r, w) /\ w.pc = pc /\ w.op = worker[r].op /\ w.result = None
  BY <1>0, <1>2, GoQuietly
<1>4. worker'[r] = w /\ \A s \in Replicas \ {r} : worker'[s] = worker[s]
  BY <1>3 DEF Advanced
<1>5. \A s \in Replicas \ {r} : worker[s].op.epoch # row.epoch /\ worker[s].pc \notin Claiming
  BY <1>0, <1>1, Alone DEF Decided
<1>6. refresh \in {None, r}
  <2>1. SUFFICES ASSUME refresh # None PROVE refresh = r
    OBVIOUS
  <2>2. CASE lease.kind = "refresh" /\ lease.by = refresh
    BY <1>0, <2>2 DEF Claimable, Leased, LoginLease
  <2>3. CASE lease.kind # "refresh" \/ lease.by # refresh
    BY <1>0, <1>1, <2>1, <2>3 DEF Leased, Candidacy
  <2> QED
    BY <2>2, <2>3
<1>7. Worker(r)'
  BY <1>1, <1>3, <1>4, <1>2 DEF Worker, Logging, Owning, Claiming
<1>8. Claimed(r)'
  BY <1>1, <1>3, <1>4 DEF Claimed, Claiming, Owning, LoginLease
<1>9. \A s \in Replicas : Claimed(s)'
  <2>1. ASSUME NEW s \in Replicas \ {r} PROVE Claimed(s)'
    BY <1>4, <1>5 DEF Claimed, Claiming, Owning
  <2> QED
    BY <1>8, <2>1
<1>10. Leased'
  BY <1>0, <1>1, <1>4, <1>5, <1>6 DEF Leased, Candidacy
<1>11. Distinct'
  BY <1>3, <1>5, DistinctKept DEF Advanced
<1>12. SoleUser'
  BY <1>3, <1>4, SoleUserKept
<1>13. Rotation'
  BY <1>0, <1>3, <1>4, RotationWrite DEF Advanced, ReceiptStep, Rotation
<1>14. Device' /\ Supervisor'
  BY <1>2 DEF IInv, Device, Supervisor
<1>15. lease' \in Leases
  BY <1>1 DEF Leases
<1> QED
  BY <1>0, <1>2, <1>3, <1>7, <1>9, <1>10, <1>11, <1>12, <1>13, <1>14, <1>15, Assembled DEF TypeOK

LEMMA AdmitInv ==
  ASSUME IInv, NEW r \in Replicas, Admit(r)
  PROVE  IInv' /\ Ordered
<1>0. /\ TypeOK /\ Worker(r) /\ Rotation /\ worker[r].pc = "verify" /\ ~At(r, "idle")
      /\ UNCHANGED <<holders, browser, current, sup, native, home, granted, poll, refresh, rotated>>
  BY DEF IInv, Admit, At, device
<1>1. /\ worker[r].op.grant /\ sup.pc \in {"none", "unpublished", "done"}
      /\ worker[r].op.epoch = row.epoch => ~rotated
  BY <1>0 DEF Worker, Rotation
<1>2. ASSUME NEW w \in Workings, Advanced(r, w), w.pc \in {"idle", "settle", "report"},
             w = Idle \/ (w.op.epoch = worker[r].op.epoch /\ w.op.grant),
             w.pc = "idle" => w = Idle,
             w.pc = "report" => row'.phase \in Ended,
             worker[r].op.epoch = row.epoch \/ row' = row, row'.epoch = row.epoch, lease' = lease
      PROVE  IInv' /\ Ordered
  <2>0. worker'[r] = w
    BY <1>2 DEF Advanced
  <2>1. Worker(r)'
    BY <1>0, <1>1, <1>2, <2>0, Constants DEF Worker, Logging, Owning, Claiming
  <2>2. Claimed(r)'
    BY <1>2, <2>0 DEF Claimed, Claiming, Owning
  <2> QED
    BY <1>0, <1>2, <2>1, <2>2, PlainWrite DEF Logging, Claiming
<1>3. CASE Go(r, "settle", worker[r].op) /\ UNCHANGED <<row, lease>>
  <2>1. "settle" \in Pcs
    BY DEF Pcs
  <2>2. PICK w \in Workings : Advanced(r, w) /\ w.pc = "settle" /\ w.op = worker[r].op
    BY <1>0, <1>3, <2>1, GoQuietly
  <2> QED
    BY <1>1, <1>2, <1>3, <2>2
<1>4. ASSUME NEW pc \in {"report", "idle"}, lease' = lease,
             SaveAs(r, worker[r].op, "rejected", pc, "settle")
      PROVE  IInv' /\ Ordered
  <2>1. pc \in Pcs /\ "settle" \in Pcs \ {"idle"}
    BY DEF Pcs
  <2>2. Savable(worker[r].op) => ~rotated
    BY <1>1 DEF Savable, Unchanged, Mine
  <2>3. PICK w \in Workings : Advanced(r, w) /\ Saves(r, w, "rejected", pc, "settle")
    BY <1>0, <1>4, <2>1, <2>2, SaveWorker
  <2>4. /\ w.pc \in {"idle", "settle", "report"} /\ (w.pc = "idle" => w = Idle)
        /\ w = Idle \/ (w.op.epoch = worker[r].op.epoch /\ w.op.grant)
        /\ w.pc = "report" => row'.phase \in Ended
        /\ worker[r].op.epoch = row.epoch \/ row' = row
        /\ row'.epoch = row.epoch
    BY <1>1, <2>3 DEF Saves, Ended, Terminal
  <2> QED
    BY <1>2, <1>4, <2>3, <2>4
<1>5. CASE /\ Claimable(r, worker[r].op) /\ UNCHANGED row
           /\ lease' = [kind |-> "login", by |-> worker[r].op.holder, live |-> TRUE, released |-> FALSE]
           /\ Go(r, "leased", worker[r].op) \/ Go(r, "settle", worker[r].op)
  BY <1>0, <1>5, ClaimInv DEF Admit, device
<1> QED
  BY <1>3, <1>4, <1>5 DEF Admit

LEMMA SettleOwnerInv ==
  ASSUME IInv, NEW r \in Replicas, SettleOwner(r)
  PROVE  IInv' /\ Ordered
<1>0. /\ TypeOK /\ Worker(r) /\ Claimed(r) /\ Rotation /\ Leased /\ worker[r].pc = "leased"
      /\ ~At(r, "idle")
      /\ UNCHANGED <<row, holders, lease, browser, current, sup, native, home, granted, poll, rotated>>
  BY DEF IInv, SettleOwner, At, device
<1>1. PICK pc \in {"settled", "abort"} :
        /\ Go(r, pc, worker[r].op)
        /\ refresh' = IF pc = "settled" /\ refresh = r THEN None ELSE refresh
  BY DEF SettleOwner
<1>2. pc \in Pcs
  BY DEF Pcs
<1>3. PICK w \in Workings :
        Advanced(r, w) /\ w.pc = pc /\ w.op = worker[r].op /\ w.result = None
  BY <1>0, <1>1, <1>2, GoQuietly
<1>4. worker'[r] = w /\ \A s \in Replicas \ {r} : worker'[s] = worker[s]
  BY <1>3 DEF Advanced
<1>5. Worker(r)'
  BY <1>0, <1>3, <1>4 DEF Worker, Logging, Owning, Claiming
<1>6. refresh \in {None, r}
  BY <1>0 DEF Leased, Claimed, Owning, Claiming, LoginLease
<1>7. SoleUser'
  <2>1. \A s \in Replicas \ {r} : worker[s].pc \notin Claiming
    BY <1>0 DEF IInv, Distinct, At, Claiming
  <2>2. \A s \in Replicas \ {r} : worker'[s].pc \notin {"settled", "verifying"}
    BY <1>4, <2>1 DEF Claiming
  <2> QED
    BY <1>1, <1>3, <1>4, <1>6, <2>2 DEF SoleUser, Using
<1>8. Claimed(r)'
  <2>1. PICK o : o = worker[r].op
    OBVIOUS
  <2>2. /\ LoginLease(o) /\ (o.epoch = row.epoch => row.phase = "candidate")
        /\ o.epoch # row.epoch => /\ row.phase = "unresolved"
                                  /\ \A s \in Replicas : worker[s].op.epoch # row.epoch
    BY <1>0, <2>1 DEF Claimed, Owning
  <2>3. \A s \in Replicas : worker'[s].op.epoch = worker[s].op.epoch
    BY <1>3, <1>4
  <2>4. worker'[r].op = o /\ worker'[r].pc = pc
    BY <1>3, <1>4, <2>1
  <2> QED
    BY <1>0, <2>2, <2>3, <2>4 DEF Claimed, Claiming, Owning, LoginLease, Decided
<1>9. w.op.epoch = row.epoch => ~rotated
  BY <1>0, <1>3 DEF Rotation
<1> QED
  BY <1>0, <1>1, <1>3, <1>5, <1>7, <1>8, <1>9, PlainWrite DEF Claiming

\* Verification begins, once, on a candidate; and completes.
LEMMA ReceiptBegun ==
  ASSUME IInv, row.phase = "candidate", UNCHANGED <<sup, home, granted, rotated>>,
         row' = [row EXCEPT !.phase = "verifying", !.seq = @ + 1]
  PROVE  /\ ReceiptStep /\ DeviceOnward /\ row'.phase = "verifying"
         /\ row'.epoch = row.epoch /\ row'.holder = row.holder /\ row'.seq = row.seq + 1
         /\ row'.grant = row.grant /\ row'.clear = row.clear
         /\ row'.identified => row'.grant \/ row'.phase = "completed"
<1>0. /\ row \in Rows /\ row.epoch \in Nat /\ row.seq \in Nat /\ row.seq + 1 \in Nat
      /\ Receipt /\ GrantKept /\ FailureTruthful
      /\ row.identified => row.grant \/ row.phase = "completed"
  BY DEF IInv, TypeOK, Rows
<1>1. /\ row'.phase = "verifying" /\ row'.epoch = row.epoch /\ row'.holder = row.holder
      /\ row'.seq = row.seq + 1
  BY <1>0 DEF Rows
<1>2. /\ row'.grant = row.grant /\ row'.clear = row.clear
      /\ row'.identified = row.identified /\ row'.reported = row.reported
  BY <1>0 DEF Rows
<1>3. row' \in Rows
  BY <1>0 DEF Rows, Phases, Running
<1>4. Onward /\ Ordered /\ DeviceOnward
  BY <1>0, <1>1, <1>2 DEF Onward, Ordered, DeviceOnward, After, Ended, Decided, Terminal
<1>5. Receipt'
  BY <1>0, <1>1, <1>2 DEF Receipt, Candidacy, Ended, Terminal, Polling
<1>6. GrantKept' /\ FailureTruthful'
  BY <1>0, <1>1, <1>2 DEF GrantKept, FailureTruthful
<1> QED
  BY <1>0, <1>1, <1>2, <1>3, <1>4, <1>5, <1>6 DEF ReceiptStep

LEMMA ReceiptCompleted ==
  ASSUME IInv, row.phase = "verifying", UNCHANGED <<sup, home, granted, rotated>>,
         row' = [row EXCEPT !.phase = "completed", !.seq = @ + 1, !.grant = FALSE]
  PROVE  /\ ReceiptStep /\ DeviceOnward /\ row'.phase = "completed"
         /\ row'.epoch = row.epoch /\ row'.holder = row.holder /\ row'.seq = row.seq + 1
         /\ ~row'.grant /\ row'.clear = row.clear
         /\ row'.identified => row'.grant \/ row'.phase = "completed"
<1>0. /\ row \in Rows /\ row.epoch \in Nat /\ row.seq \in Nat /\ row.seq + 1 \in Nat
      /\ Receipt /\ GrantKept /\ FailureTruthful
  BY DEF IInv, TypeOK, Rows
<1>1. /\ row'.phase = "completed" /\ row'.epoch = row.epoch /\ row'.holder = row.holder
      /\ row'.seq = row.seq + 1
  BY <1>0 DEF Rows
<1>2. ~row'.grant /\ row'.clear = row.clear /\ row'.reported = row.reported
  BY <1>0 DEF Rows
<1>3. row' \in Rows
  BY <1>0 DEF Rows, Phases, Terminal
<1>4. Onward /\ Ordered /\ DeviceOnward
  BY <1>0, <1>1, <1>2 DEF Onward, Ordered, DeviceOnward, After, Ended, Decided, Terminal
<1>5. ~row.reported
  BY <1>0 DEF Receipt, Ended, Terminal, Polling
<1>6. Receipt'
  BY <1>0, <1>1, <1>2, <1>5 DEF Receipt, Candidacy
<1>7. GrantKept' /\ FailureTruthful'
  BY <1>0, <1>1, <1>2, <1>5 DEF GrantKept, FailureTruthful
<1> QED
  BY <1>1, <1>2, <1>3, <1>4, <1>6, <1>7 DEF ReceiptStep

LEMMA BeginVerificationInv ==
  ASSUME IInv, NEW r \in Replicas, BeginVerification(r)
  PROVE  IInv' /\ Ordered
<1>0. /\ TypeOK /\ Worker(r) /\ Claimed(r) /\ Rotation /\ worker[r].pc = "settled"
      /\ ~At(r, "idle") /\ worker[r].op \in Ops /\ Copied(worker[r].op)
      /\ UNCHANGED <<holders, lease, browser, current, sup, native, home, granted, poll, refresh, rotated>>
  BY DEF IInv, BeginVerification, At, device, TypeOK, Workings
<1>1. PICK op \in Ops : op = worker[r].op
  BY <1>0
<1>2. /\ op.grant /\ op.epoch > 0 /\ LoginLease(op)
      /\ sup.pc \in {"none", "unpublished", "done"}
      /\ op.epoch = row.epoch => row.phase = "candidate" /\ ~rotated
      /\ op.epoch # row.epoch => row.phase = "unresolved"
  BY <1>0, <1>1 DEF Worker, Claimed, Owning, Claiming, Rotation
<1>3. /\ "verifying" \in Pcs /\ "abort" \in Pcs /\ "verifying" \in Phases
      /\ SavedOp(op, "verifying") \in Ops
  BY SavedOpIs DEF Pcs, Phases, Running
<1>4. ASSUME Beginnable(op), row' = [row EXCEPT !.phase = "verifying", !.seq = @ + 1]
      PROVE  /\ ReceiptStep /\ DeviceOnward /\ row'.phase = "verifying" /\ op.epoch = row.epoch
             /\ row'.epoch = row.epoch /\ row'.holder = row.holder /\ row'.seq = row.seq + 1
             /\ row'.grant = row.grant /\ row'.clear = row.clear
             /\ row'.identified => row'.grant \/ row'.phase = "completed"
  BY <1>0, <1>4, ReceiptBegun DEF Beginnable, Unchanged, Mine
<1>5. CASE /\ Beginnable(op) /\ row' = [row EXCEPT !.phase = "verifying", !.seq = @ + 1]
           /\ Set(r, Stage(r, "verifying", SavedOp(op, "verifying")))
  <2>1. PICK o \in Ops : o = SavedOp(op, "verifying")
    BY <1>3
  <2>2. /\ o.phase = "verifying" /\ o.seq = op.seq + 1 /\ o.epoch = op.epoch
        /\ o.holder = op.holder /\ o.grant = op.grant /\ o.clear = op.clear
    BY <1>3, <2>1, SavedOpIs
  <2>3. op.seq = row.seq /\ op.holder = row.holder /\ op.epoch = row.epoch
    BY <1>5 DEF Beginnable, Unchanged, Mine
  <2>4. Copied(o)'
    <3>1. o.epoch \in Nat /\ o.seq \in Nat
      BY DEF Ops
    <3>2. o.clear => ~granted' /\ sup'.pc \in {"canceling", "done"}
      BY <1>0, <1>1, <1>2, <2>2 DEF Copied
    <3>3. o.grant => granted'
      BY <1>0, <1>1, <1>2, <2>2 DEF Copied
    <3> QED
      BY <1>2, <1>4, <1>5, <2>2, <2>3, <3>1, <3>2, <3>3 DEF Copied, Terminal
  <2>5. Go(r, "verifying", o) /\ o.epoch = worker[r].op.epoch
    BY <1>1, <1>5, <2>1, <2>2 DEF Go
  <2>6. PICK w \in Workings : Advanced(r, w) /\ w.pc = "verifying" /\ w.op = o
    BY <1>0, <1>3, <1>4, <1>5, <2>4, <2>5, GoAdvances
  <2>7. worker'[r] = w
    BY <2>6 DEF Advanced
  <2>8. Worker(r)'
    BY <1>0, <1>2, <2>2, <2>6, <2>7 DEF Worker, Logging, Owning, Claiming
  <2>9. Claimed(r)'
    BY <1>0, <1>2, <1>4, <1>5, <2>2, <2>3, <2>6, <2>7 DEF Claimed, Claiming, Owning, LoginLease
  <2> QED
    BY <1>0, <1>1, <1>4, <1>5, <2>6, <2>8, <2>9, PlainWrite DEF Claiming, Logging
<1>6. CASE /\ row' = row \/ (Beginnable(op) /\ row' = [row EXCEPT !.phase = "verifying", !.seq = @ + 1])
           /\ Set(r, Stage(r, "abort", op))
  <2>1. /\ ReceiptStep /\ DeviceOnward
        /\ row'.identified => row'.grant \/ row'.phase = "completed"
        /\ row'.epoch = row.epoch /\ (row' = row \/ op.epoch = row.epoch)
    BY <1>0, <1>4, <1>6, QuietStep
  <2>2. Copied(op)'
    BY <1>1, <2>1, OwnCopy
  <2>3. Go(r, "abort", op)
    BY <1>6 DEF Go
  <2>4. PICK w \in Workings :
          Advanced(r, w) /\ w.pc = "abort" /\ w.op = op /\ w.result = None
    BY <1>0, <1>1, <1>3, <2>1, <2>2, <2>3, GoAdvances
  <2>5. worker'[r] = w
    BY <2>4 DEF Advanced
  <2>6. Worker(r)'
    BY <1>0, <1>2, <2>4, <2>5 DEF Worker, Logging, Owning, Claiming
  <2>7. Claimed(r)'
    BY <1>0, <1>2, <2>1, <2>4, <2>5 DEF Claimed, Claiming, Owning, LoginLease, Decided
  <2> QED
    BY <1>0, <1>1, <2>1, <2>4, <2>6, <2>7, PlainWrite DEF Claiming, Logging
<1> QED
  BY <1>1, <1>5, <1>6 DEF BeginVerification, Write

\* The provider may have rotated the grant from here on; the worker that asked it is
\* alone with the account, and nothing of the login is left to write the receipt.
LEMMA ProviderInv ==
  ASSUME IInv, NEW r \in Replicas, Provider(r)
  PROVE  IInv' /\ Ordered
<1>0. /\ TypeOK /\ Worker(r) /\ Claimed(r) /\ Rotation /\ Receipt /\ worker[r].pc = "verifying"
      /\ ~At(r, "idle") /\ worker[r] \in Workings /\ worker[r].op \in Ops /\ Copied(worker[r].op)
      /\ UNCHANGED <<row, holders, lease, browser, current, sup, native, home, granted, poll, refresh>>
  BY DEF IInv, Provider, At, device, TypeOK, Workings
<1>1. PICK op \in Ops : op = worker[r].op
  BY <1>0
<1>2. /\ op.grant /\ op.epoch > 0 /\ op.epoch <= row.epoch /\ LoginLease(op)
      /\ op.epoch \in Nat /\ row.epoch \in Nat
      /\ sup.pc \in {"none", "unpublished", "done"}
      /\ op.epoch = row.epoch => row.phase = "verifying"
      /\ op.epoch # row.epoch => /\ row.phase = "unresolved"
                                 /\ \A s \in Replicas : worker[s].op.epoch # row.epoch
  BY <1>0, <1>1 DEF Worker, Claimed, Owning, Claiming, Copied, TypeOK, Rows, Ops
<1>3. /\ ReceiptStep /\ DeviceOnward
      /\ row'.identified => row'.grant \/ row'.phase = "completed"
  BY <1>0, <1>2, QuietStep
<1>4. Copied(op)'
  BY <1>1, <1>3, OwnCopy
<1>5. CASE rotated' = TRUE /\ UNCHANGED worker
  <2>1. PICK w \in Workings : w = worker[r]
    BY <1>0
  <2>2. worker' = [worker EXCEPT ![r] = w]
    BY <1>0, <1>5, <2>1 DEF TypeOK
  <2>3. Works(r, w) /\ Copied(w.op)'
    BY <1>0, <1>1, <1>4, <2>1, <2>2 DEF Works
  <2>4. Advanced(r, w)
    BY <1>0, <1>3, <2>3, Advances
  <2>5. Worker(r)' /\ Distinct' /\ SoleUser'
    BY <1>0, <1>5 DEF Worker, IInv, Distinct, SoleUser, Using, At
  <2>6. \A s \in Replicas : Claimed(s)'
    BY <1>0, <1>5 DEF IInv, Claimed, LoginLease
  <2>7. Leased' /\ Device' /\ Supervisor'
    BY <1>0, <1>5 DEF IInv, Leased, Device, Supervisor
  <2>8. Rotation'
    <3>1. row.phase \in {"verifying", "unresolved"} /\ sup.pc \in {"unpublished", "done"}
      <4>1. CASE op.epoch = row.epoch
        BY <1>0, <1>2, <4>1 DEF Receipt, Candidacy
      <4>2. CASE op.epoch # row.epoch
        BY <1>0, <1>2, <4>2 DEF Receipt
      <4> QED
        BY <4>1, <4>2
    <3>2. ASSUME NEW s \in Replicas
          PROVE  /\ ~(/\ worker[s].pc \in Logging \cup {"verify", "leased", "settled"}
                      /\ worker[s].op.epoch = row.epoch)
                 /\ worker[s].pc # "abort"
      <4>1. CASE s = r
        BY <1>0, <4>1 DEF Logging
      <4>2. CASE s # r
        <5>1. worker[s].op.epoch # row.epoch
          BY <1>0, <1>1, <1>2, <4>2, Alone
        <5>2. worker[s].pc # "abort"
          BY <1>0, <4>2 DEF IInv, Distinct, At, Claiming
        <5> QED
          BY <5>1, <5>2
      <4> QED
        BY <4>1, <4>2
    <3> QED
      BY <1>0, <1>5, <3>1, <3>2 DEF Rotation
  <2>9. rotated' \in BOOLEAN
    BY <1>5
  <2> QED
    BY <1>0, <2>4, <2>5, <2>6, <2>7, <2>8, <2>9, Assembled DEF TypeOK
<1>6. CASE /\ ~rotated /\ UNCHANGED rotated
           /\ Set(r, [worker[r] EXCEPT !.pc = "abort", !.result = "refused"])
  <2>1. PICK w \in Workings : /\ w = [worker[r] EXCEPT !.pc = "abort", !.result = "refused"]
                              /\ w.pc = "abort" /\ w.op = op
    <3>1. PICK v \in Workings : v = worker[r]
      BY <1>0
    <3>2. /\ [v EXCEPT !.pc = "abort", !.result = "refused"] \in Workings
          /\ [v EXCEPT !.pc = "abort", !.result = "refused"].pc = "abort"
          /\ [v EXCEPT !.pc = "abort", !.result = "refused"].op = v.op
      BY DEF Workings
    <3> QED
      BY <1>1, <3>1, <3>2
  <2>2. Works(r, w) /\ Copied(w.op)'
    BY <1>0, <1>1, <1>4, <1>6, <2>1 DEF Works, Set
  <2>3. Advanced(r, w)
    BY <1>0, <1>3, <2>2, Advances
  <2>4. worker'[r] = w
    BY <2>3 DEF Advanced
  <2>5. Worker(r)'
    BY <1>0, <1>2, <2>1, <2>4 DEF Worker, Logging, Owning, Claiming
  <2>6. Claimed(r)'
    BY <1>0, <1>2, <2>1, <2>4 DEF Claimed, Claiming, Owning, LoginLease, Decided
  <2> QED
    BY <1>0, <1>6, <2>1, <2>3, <2>5, <2>6, PlainWrite DEF Claiming, Logging
<1> QED
  BY <1>5, <1>6 DEF Provider

LEMMA CompleteInv ==
  ASSUME IInv, NEW r \in Replicas, Complete(r)
  PROVE  IInv' /\ Ordered
<1>0. /\ TypeOK /\ Worker(r) /\ Claimed(r) /\ Rotation /\ worker[r].pc = "verifying"
      /\ ~At(r, "idle") /\ worker[r].op \in Ops /\ Copied(worker[r].op) /\ refresh = None
      /\ UNCHANGED <<holders, lease, browser, current, sup, native, home, granted, poll, refresh, rotated>>
  BY DEF IInv, Complete, At, device, TypeOK, Workings, SoleUser, Using
<1>1. PICK op \in Ops : op = worker[r].op
  BY <1>0
<1>2. /\ op.grant /\ op.epoch > 0 /\ LoginLease(op)
      /\ sup.pc \in {"none", "unpublished", "done"}
      /\ op.epoch # row.epoch => row.phase = "unresolved"
  BY <1>0, <1>1 DEF Worker, Claimed, Owning, Claiming, Rotation
<1>3. /\ "release" \in Pcs /\ "abort" \in Pcs /\ "completed" \in Phases
      /\ SavedOp(op, "completed") \in Ops
  BY SavedOpIs DEF Pcs, Phases, Terminal
<1> DEFINE new == [row EXCEPT !.phase = "completed", !.seq = @ + 1, !.grant = FALSE]
<1>4. ASSUME Completable(op), row' = new
      PROVE  /\ ReceiptStep /\ DeviceOnward /\ row'.phase = "completed" /\ op.epoch = row.epoch
             /\ row'.epoch = row.epoch /\ row'.holder = row.holder /\ row'.seq = row.seq + 1
             /\ ~row'.grant /\ row'.clear = row.clear
             /\ row'.identified => row'.grant \/ row'.phase = "completed"
  BY <1>0, <1>4, ReceiptCompleted DEF Completable, Unchanged, Mine
<1>5. CASE /\ Completable(op) /\ row' = new
           /\ Set(r, Stage(r, "release", SavedOp(op, "completed")))
  <2>1. PICK o \in Ops : o = SavedOp(op, "completed")
    BY <1>3
  <2>2. /\ o.phase = "completed" /\ o.seq = op.seq + 1 /\ o.epoch = op.epoch
        /\ o.holder = op.holder /\ o.grant = op.grant /\ o.clear = op.clear
    BY <1>3, <2>1, SavedOpIs
  <2>3. op.seq = row.seq /\ op.holder = row.holder /\ op.epoch = row.epoch
    BY <1>5 DEF Completable, Unchanged, Mine
  <2>4. Copied(o)'
    <3>1. o.epoch \in Nat /\ o.seq \in Nat
      BY DEF Ops
    <3>2. o.clear => ~granted' /\ sup'.pc \in {"canceling", "done"}
      BY <1>0, <1>1, <1>2, <2>2 DEF Copied
    <3>3. o.grant => granted'
      BY <1>0, <1>1, <1>2, <2>2 DEF Copied
    <3> QED
      BY <1>2, <1>4, <1>5, <2>2, <2>3, <3>1, <3>2, <3>3 DEF Copied, Ended, Terminal
  <2>5. Go(r, "release", o) /\ o.epoch = worker[r].op.epoch
    BY <1>1, <1>5, <2>1, <2>2 DEF Go
  <2>6. PICK w \in Workings : Advanced(r, w) /\ w.pc = "release" /\ w.op = o
    BY <1>0, <1>3, <1>4, <1>5, <2>4, <2>5, GoAdvances
  <2>7. worker'[r] = w
    BY <2>6 DEF Advanced
  <2>8. Worker(r)'
    BY <1>0, <1>2, <2>2, <2>6, <2>7 DEF Worker, Logging, Owning, Claiming
  <2>9. Claimed(r)'
    BY <1>0, <1>4, <1>5, <2>6, <2>7 DEF Claimed, Claiming, Owning, Decided
  <2> QED
    BY <1>0, <1>1, <1>4, <1>5, <2>6, <2>8, <2>9, PlainWrite DEF Claiming, Logging
<1>6. CASE /\ row' = row \/ (Completable(op) /\ row' = new)
           /\ Set(r, Stage(r, "abort", op))
  <2>1. /\ ReceiptStep /\ DeviceOnward
        /\ row'.identified => row'.grant \/ row'.phase = "completed"
        /\ row'.epoch = row.epoch /\ (row' = row \/ op.epoch = row.epoch)
    BY <1>0, <1>4, <1>6, QuietStep
  <2>2. Copied(op)'
    BY <1>1, <2>1, OwnCopy
  <2>3. Go(r, "abort", op)
    BY <1>6 DEF Go
  <2>4. PICK w \in Workings :
          Advanced(r, w) /\ w.pc = "abort" /\ w.op = op /\ w.result = None
    BY <1>0, <1>1, <1>3, <2>1, <2>2, <2>3, GoAdvances
  <2>5. worker'[r] = w
    BY <2>4 DEF Advanced
  <2>6. Worker(r)'
    BY <1>0, <1>2, <2>4, <2>5 DEF Worker, Logging, Owning, Claiming
  <2>7. Claimed(r)'
    BY <1>0, <1>2, <2>1, <2>4, <2>5 DEF Claimed, Claiming, Owning, LoginLease, Decided
  <2> QED
    BY <1>0, <1>1, <2>1, <2>4, <2>6, <2>7, PlainWrite DEF Claiming, Logging
<1> QED
  BY <1>1, <1>5, <1>6 DEF Complete, Write

LEMMA AbortInv ==
  ASSUME IInv, NEW r \in Replicas, Abort(r)
  PROVE  IInv' /\ Ordered
<1>0. /\ TypeOK /\ Worker(r) /\ Claimed(r) /\ Rotation /\ worker[r].pc = "abort"
      /\ ~At(r, "idle") /\ worker[r].op \in Ops
      /\ UNCHANGED <<holders, lease, browser, current, sup, native, home, granted, poll, rotated>>
  BY DEF IInv, Abort, At, device, TypeOK, Workings
<1>1. /\ worker[r].op.grant /\ worker[r].op.epoch > 0
      /\ sup.pc \in {"none", "unpublished", "done"}
      /\ LoginLease(worker[r].op) \/ row.phase \in Decided
      /\ worker[r].op.epoch # row.epoch => row.phase \in Decided
      /\ worker[r].result = "refused" => ~rotated
  BY <1>0 DEF Worker, Claimed, Owning, Claiming, Rotation
<1>2. ASSUME NEW w \in Workings, Advanced(r, w), refresh' \in {refresh, None},
             w.pc \in {"release", "settle"},
             w.op.epoch = worker[r].op.epoch, w.op.holder = worker[r].op.holder, w.op.grant,
             w.pc = "release" => refresh' # r,
             row'.epoch = row.epoch,
             row' = row \/ (worker[r].op.epoch = row.epoch /\ row'.phase \in Decided)
      PROVE  IInv' /\ Ordered
  <2>1. worker'[r] = w
    BY <1>2 DEF Advanced
  <2>2. Worker(r)'
    BY <1>0, <1>1, <1>2, <2>1 DEF Worker, Logging, Owning, Claiming
  <2>3. Claimed(r)'
    BY <1>0, <1>1, <1>2, <2>1 DEF Claimed, Claiming, Owning, LoginLease
  <2> QED
    BY <1>0, <1>2, <2>2, <2>3, PlainWrite DEF Claiming, Logging
<1>3. ASSUME NEW phase \in {"rejected", "unresolved"}, NEW pc \in {"release", "settle"},
             phase = "rejected" => worker[r].result = "refused",
             SaveAs(r, worker[r].op, phase, pc, pc), refresh' \in {refresh, None},
             pc = "release" => refresh' # r
      PROVE  IInv' /\ Ordered
  <2>1. pc \in Pcs \ {"idle"}
    BY DEF Pcs
  <2>2. PICK w \in Workings : Advanced(r, w) /\ Saves(r, w, phase, pc, pc)
    BY <1>0, <1>1, <1>3, <2>1, SaveWorker
  <2>3. w.pc = pc /\ w.op.epoch = worker[r].op.epoch /\ w.op.holder = worker[r].op.holder
        /\ w.op.grant
    BY <1>1, <2>1, <2>2 DEF Saves
  <2> QED
    BY <1>2, <1>3, <2>2, <2>3 DEF Saves, Decided
<1>4. CASE /\ worker[r].op.phase # "verifying" /\ refresh # r /\ UNCHANGED <<row, refresh>>
           /\ Go(r, "release", worker[r].op)
  <2>1. "release" \in Pcs
    BY DEF Pcs
  <2>2. PICK w \in Workings : Advanced(r, w) /\ w.pc = "release" /\ w.op = worker[r].op
    BY <1>0, <1>4, <2>1, GoQuietly
  <2> QED
    BY <1>1, <1>2, <1>4, <2>2
<1>5. CASE /\ refresh' = IF refresh = r THEN None ELSE refresh
           /\ \E phase \in {"rejected", "unresolved"} :
                /\ phase = "rejected" => worker[r].result = "refused"
                /\ SaveAs(r, worker[r].op, phase, "release", "release")
  BY <1>3, <1>5
<1>6. CASE UNCHANGED refresh /\ SaveAs(r, worker[r].op, "unresolved", "settle", "settle")
  BY <1>3, <1>6
<1> QED
  BY <1>4, <1>5, <1>6 DEF Abort

LEMMA ReleaseInv ==
  ASSUME IInv, NEW r \in Replicas, Release(r)
  PROVE  IInv' /\ Ordered
<1>0. /\ TypeOK /\ Worker(r) /\ Claimed(r) /\ Leased /\ Rotation /\ worker[r].pc = "release"
      /\ ~At(r, "idle") /\ worker[r].op \in Ops
      /\ UNCHANGED <<row, holders, browser, current, sup, native, home, granted, poll, refresh, rotated>>
  BY DEF IInv, Release, At, device, TypeOK, Workings
<1>1. /\ worker[r].op.grant /\ worker[r].op.epoch > 0 /\ refresh # r
      /\ sup.pc \in {"none", "unpublished", "done"}
  BY <1>0 DEF Worker, Claimed, Claiming
<1>2. PICK pc \in {"idle", "settle"} : Go(r, pc, worker[r].op)
  BY DEF Release
<1>3. pc \in Pcs
  BY DEF Pcs
<1>4. PICK w \in Workings :
        /\ Advanced(r, w) /\ w.pc = pc /\ w.result = None
        /\ IF pc = "idle" THEN w = Idle ELSE w.op = worker[r].op
  BY <1>0, <1>2, <1>3, GoQuietly
<1>5. worker'[r] = w /\ \A s \in Replicas \ {r} : worker'[s] = worker[s]
  BY <1>4 DEF Advanced
<1>6. Worker(r)'
  BY <1>0, <1>1, <1>4, <1>5, Constants DEF Worker, Logging, Owning, Claiming
<1>7. Claimed(r)'
  BY <1>4, <1>5 DEF Claimed, Claiming, Owning
<1>8. CASE lease' = lease
  BY <1>0, <1>4, <1>6, <1>7, <1>8, PlainWrite DEF Claiming, Logging
<1>9. CASE lease' = NoLease /\ LoginLease(worker[r].op)
  <2>1. \A s \in Replicas \ {r} : worker[s].pc \notin Claiming
    BY <1>0 DEF IInv, Distinct, At, Claiming
  <2>2. \A s \in Replicas : Claimed(s)'
    BY <1>5, <1>7, <2>1 DEF Claimed, Claiming, Owning
  <2>3. refresh = None
    BY <1>0, <1>1, <1>9 DEF Leased, LoginLease, Claiming
  <2>4. Leased'
    BY <1>0, <1>9, <2>3 DEF Leased, NoLease
  <2>5. Distinct' /\ SoleUser'
    BY <1>4, <1>5, <1>0, DistinctKept, SoleUserKept DEF Advanced, Claiming
  <2>6. Rotation'
    BY <1>0, <1>4, <1>5, RotationWrite DEF Advanced, ReceiptStep, Rotation, Logging
  <2>7. Device' /\ Supervisor'
    BY <1>0 DEF IInv, Device, Supervisor
  <2>8. lease' \in Leases
    BY <1>9, Constants
  <2> QED
    BY <1>0, <1>4, <1>6, <2>2, <2>4, <2>5, <2>6, <2>7, <2>8, Assembled DEF TypeOK
<1> QED
  BY <1>8, <1>9 DEF Release

LEMMA SettleInv ==
  ASSUME IInv, NEW r \in Replicas, Settle(r)
  PROVE  IInv' /\ Ordered
<1>0. /\ TypeOK /\ Worker(r) /\ Rotation /\ worker[r].pc = "settle"
      /\ ~At(r, "idle") /\ worker[r].op \in Ops /\ Copied(worker[r].op)
      /\ UNCHANGED <<holders, lease, browser, current, sup, native, home, granted, poll, refresh, rotated>>
  BY DEF IInv, Settle, At, device, TypeOK, Workings
<1>1. PICK op \in Ops : op = worker[r].op
  BY <1>0
<1>2. /\ op.epoch > 0 /\ sup.pc \in {"none", "unpublished", "done"}
      /\ ~op.grant /\ op.phase \in Polling => ~granted
  BY <1>0, <1>1 DEF Worker
<1>3. ASSUME NEW w \in Workings, Advanced(r, w),
             w.pc \in {"idle", "settle", "report", "grantless"}, w.pc = "idle" => w = Idle,
             w.pc # "idle" => /\ w.op.epoch = op.epoch /\ w.op.grant = op.grant
                              /\ w.op.phase \in Polling => op.phase \in Polling,
             w.pc = "report" /\ op.epoch = row'.epoch => row'.phase \in Ended,
             op.epoch = row.epoch \/ row' = row, row'.epoch = row.epoch
      PROVE  IInv' /\ Ordered
  <2>1. worker'[r] = w
    BY <1>3 DEF Advanced
  <2>2. Worker(r)'
    BY <1>0, <1>2, <1>3, <2>1, Constants DEF Worker, Logging, Claiming
  <2>3. Claimed(r)'
    BY <1>3, <2>1 DEF Claimed, Claiming, Owning
  <2> QED
    BY <1>0, <1>1, <1>3, <2>2, <2>3, PlainWrite DEF Claiming, Logging
<1>4. ASSUME NEW pc \in {"report", "idle", "grantless"}, Go(r, pc, op), UNCHANGED row,
             pc = "report" => op.phase \in Terminal
      PROVE  IInv' /\ Ordered
  <2>1. pc \in Pcs
    BY DEF Pcs
  <2>2. PICK w \in Workings :
          Advanced(r, w) /\ w.pc = pc /\ IF pc = "idle" THEN w = Idle ELSE w.op = op
    BY <1>0, <1>1, <1>4, <2>1, GoQuietly
  <2>3. pc = "report" /\ op.epoch = row.epoch => row.phase \in Ended
    BY <1>0, <1>1, <1>2, <1>4 DEF Copied
  <2> QED
    BY <1>3, <1>4, <2>2, <2>3
<1>5. CASE op.phase \notin Terminal /\ SaveAs(r, op, SettledPhase(op), "report", "settle")
  <2>1. PICK phase \in {"unresolved", "rejected", "failed"} : phase = SettledPhase(op)
    BY DEF SettledPhase
  <2>2. ASSUME Savable(op)
        PROVE  /\ phase = "rejected" => ~rotated
               /\ phase = "failed" => row.phase \in Polling /\ ~granted
    <3>1. /\ op.epoch = row.epoch /\ op.phase \in {row.phase, "unresolved"} /\ row.live
          /\ row.phase \notin Terminal
      BY <1>0, <1>1, <1>2, <2>2 DEF Savable, Unchanged, Mine, Copied
    <3>2. row.phase # "none" /\ row \in Rows
      BY <1>0, <3>1 DEF IInv, Receipt, NoRow, TypeOK
    <3>3. CASE phase = "rejected"
      BY <1>0, <2>1, <3>1, <3>3 DEF SettledPhase, Rotation, Terminal
    <3>4. CASE phase = "failed"
      <4>1. op.phase = row.phase /\ ~op.grant /\ op.phase \notin {"verifying", "unresolved"}
        BY <2>1, <3>1, <3>4 DEF SettledPhase
      <4>2. row.phase \in Polling
        BY <1>0, <1>1, <1>2, <3>1, <3>2, <4>1 DEF Copied, Rows, Phases, Running, Candidacy
      <4> QED
        BY <1>2, <3>4, <4>1, <4>2
    <3>5. CASE phase = "unresolved"
      BY <3>5
    <3> QED
      BY <3>3, <3>4, <3>5
  <2>3. "report" \in Pcs /\ "settle" \in Pcs \ {"idle"}
    BY DEF Pcs
  <2>4. SaveAs(r, worker[r].op, phase, "report", "settle")
    BY <1>1, <1>5, <2>1
  <2>5. PICK w \in Workings : Advanced(r, w) /\ Saves(r, w, phase, "report", "settle")
    BY <1>0, <1>1, <1>2, <2>2, <2>3, <2>4, SaveWorker
  <2>6. /\ w.pc \in {"report", "settle"} /\ w.op.epoch = op.epoch /\ w.op.grant = op.grant
        /\ w.op.phase \in Polling => op.phase \in Polling
        /\ w.pc = "report" => row'.phase \in Ended
        /\ op.epoch = row.epoch \/ row' = row
        /\ row'.epoch = row.epoch
    BY <1>1, <2>5, Constants DEF Saves, Ended, Terminal, Polling
  <2> QED
    BY <1>3, <2>5, <2>6
<1> QED
  BY <1>1, <1>4, <1>5 DEF Settle

LEMMA ReportInv ==
  ASSUME IInv, NEW r \in Replicas, Report(r)
  PROVE  IInv' /\ Ordered
<1>0. /\ TypeOK /\ Worker(r) /\ Rotation /\ Receipt /\ worker[r].pc \in {"report", "grantless"}
      /\ ~At(r, "idle") /\ worker[r].op \in Ops /\ Copied(worker[r].op) /\ row \in Rows
      /\ UNCHANGED <<holders, lease, browser, current, sup, native, home, granted, poll, refresh, rotated>>
  BY DEF IInv, Report, At, device, TypeOK, Workings
<1>1. PICK op \in Ops : op = worker[r].op
  BY <1>0
<1>2. /\ row' = row \/ (/\ Takable(op, op.holder, At(r, "grantless"))
                        /\ row' = [row EXCEPT !.reported = TRUE])
      /\ Set(r, Idle)
  BY <1>1 DEF Report, Write
<1>3. DeviceOnward
  BY <1>0 DEF DeviceOnward
<1>4. ASSUME Takable(op, op.holder, At(r, "grantless")), row' = [row EXCEPT !.reported = TRUE]
      PROVE  /\ ReceiptStep /\ row'.epoch = row.epoch /\ op.epoch = row.epoch
             /\ row'.identified => row'.grant \/ row'.phase = "completed"
  <2>1. /\ row' \in Rows /\ row'.phase = row.phase /\ row'.holder = row.holder
        /\ row'.epoch = row.epoch /\ row'.seq = row.seq
    BY <1>0, <1>4 DEF Rows
  <2>2. row'.grant = row.grant /\ row'.identified = row.identified /\ row'.clear = row.clear
    BY <1>0, <1>4 DEF Rows
  <2>3. op.epoch = row.epoch /\ op.epoch > 0 /\ row.phase \notin {"completed", "canceled"}
    BY <1>0, <1>1, <1>4 DEF Takable, Mine, Worker
  <2>4. row.phase # "none"
    BY <1>0, <2>3 DEF Receipt, NoRow
  <2>5. row.phase \in Ended \/ (row.phase \in Polling /\ row.clear)
    <3>1. CASE worker[r].pc = "report"
      BY <1>0, <1>1, <2>3, <3>1 DEF Worker
    <3>2. CASE worker[r].pc = "grantless"
      BY <1>0, <1>4, <2>3, <2>4, <3>2 DEF Takable, At, Rows, Phases, Running, Ended
    <3> QED
      BY <1>0, <3>1, <3>2
  <2>6. ReceiptStep
    BY <1>0, <1>3, <2>1, <2>2, <2>3, <2>4, <2>5, ReceiptMarked DEF ReceiptStep, Receipt
  <2>7. row'.identified => row'.grant \/ row'.phase = "completed"
    BY <1>0, <2>1, <2>2 DEF TypeOK
  <2> QED
    BY <2>1, <2>3, <2>6, <2>7
<1>5. /\ ReceiptStep /\ row'.epoch = row.epoch /\ (op.epoch = row.epoch \/ row' = row)
      /\ row'.identified => row'.grant \/ row'.phase = "completed"
  BY <1>0, <1>2, <1>4, QuietStep

<1>6. PICK w \in Workings : w = Idle
  BY Constants
<1>7. Works(r, w) /\ Copied(w.op)'
  BY <1>2, <1>6, Constants DEF Works, Set, Copied
<1>8. Advanced(r, w)
  BY <1>0, <1>3, <1>5, <1>7, Advances
<1>9. worker'[r] = w /\ w.pc = "idle" /\ w.op = NoOp
  BY <1>6, <1>8, Constants DEF Advanced
<1>10. Worker(r)' /\ Claimed(r)'
  BY <1>9, Constants DEF Worker, Claimed, Logging, Claiming, Owning
<1> QED
  BY <1>0, <1>1, <1>5, <1>8, <1>9, <1>10, PlainWrite DEF Claiming, Logging

\* The operation begins with nothing but the holders of the replicas.
LEMMA CreateInv ==
  ASSUME IInv, NEW r \in Replicas, Create(r)
  PROVE  IInv' /\ Ordered
<1> DEFINE new == [NoRow EXCEPT !.phase = "starting", !.holder = current[r],
                                !.epoch = 1, !.live = TRUE]
           w == [Idle EXCEPT !.pc = "launch", !.op = OpOf(new)]
<1>0. /\ TypeOK /\ Receipt /\ Device /\ Supervisor /\ row.phase = "none" /\ row = NoRow
      /\ current[r] \in Holders /\ worker[r] \in Workings /\ At(r, "idle")
      /\ UNCHANGED <<holders, lease, browser, current, sup, native, home, granted,
                     poll, refresh, rotated>>
  BY DEF IInv, Create, device, TypeOK, Receipt
<1>1. /\ row.epoch = 0 /\ row.seq = 0 /\ ~row.grant /\ ~row.reported /\ ~row.clear
      /\ ~row.identified /\ sup.pc = "none" /\ native = "none" /\ home = "empty" /\ ~granted
  BY <1>0 DEF NoRow, Supervisor, Device
<1>2. ASSUME NEW op \in Ops, Copied(op) PROVE op.epoch = 0
  BY <1>1, <1>2 DEF Copied, Ops
<1>3. /\ \A s \in Replicas : worker[s].pc = "idle" /\ worker[s].op = NoOp
      /\ sup.op.epoch = 0 /\ poll.op.epoch = 0
  <2>1. ASSUME NEW s \in Replicas PROVE worker[s].pc = "idle" /\ worker[s].op = NoOp
    <3>1. worker[s].op.epoch = 0
      BY <1>0, <1>2 DEF IInv, TypeOK, Workings
    <3> QED
      BY <3>1 DEF IInv, Worker
  <2> QED
    BY <1>0, <1>2, <2>1 DEF IInv, TypeOK, Sups, Polls
<1>4. /\ new \in Rows /\ new.phase = "starting" /\ new.holder = current[r] /\ new.epoch = 1
      /\ new.seq = 0 /\ ~new.grant /\ ~new.identified /\ ~new.clear /\ ~new.reported
  <2>1. 1 \in 0..MaxEpoch /\ 0 \in Nat
    BY DEF EpochAssumption
  <2> QED
    BY <1>0, <2>1 DEF NoRow, Rows, Phases, Running, Polling
<1>5. /\ OpOf(new) \in Ops /\ OpOf(new).phase = "starting" /\ OpOf(new).holder = current[r]
      /\ OpOf(new).epoch = 1 /\ OpOf(new).seq = 0 /\ ~OpOf(new).grant /\ ~OpOf(new).clear
  <2> HIDE DEF new
  <2> QED
    BY <1>4, RowOp
<1>6. w \in Workings /\ w.pc = "launch" /\ w.op = OpOf(new) /\ w.result = None
  BY <1>5, Constants DEF Idle, Workings
<1>7. /\ row' \in {row, new}
      /\ \/ row' = new /\ worker' = [worker EXCEPT ![r] = w]
         \/ worker' = [worker EXCEPT ![r] = Idle]
  BY DEF Create, Write, Set
<1> HIDE DEF new, w
<1>8. ReceiptStep /\ DeviceOnward /\ (row'.identified => row'.grant \/ row'.phase = "completed")
      /\ row'.phase \in {"none", "starting"} /\ row'.epoch \in {0, 1}
  <2>1. CASE row' = row
    BY <1>0, <1>1, <2>1, QuietStep
  <2>2. CASE row' = new
    <3>1. Onward /\ Ordered /\ DeviceOnward
      BY <1>0, <1>1, <1>4, <2>2 DEF Onward, Ordered, After, DeviceOnward, Ended, Decided, Terminal
    <3>2. Receipt' /\ GrantKept' /\ FailureTruthful'
      BY <1>0, <1>1, <1>4, <2>2 DEF Receipt, GrantKept, FailureTruthful, Candidacy
    <3> QED
      BY <1>4, <2>2, <3>1, <3>2 DEF ReceiptStep
  <2> QED
    BY <1>7, <2>1, <2>2
<1>9. PICK v \in {w, Idle} : worker' = [worker EXCEPT ![r] = v] /\ (v = w => row' = new \/ w = Idle)
  BY <1>7
<1>10. v \in Workings /\ worker' \in [Replicas -> Workings]
       /\ \A s \in Replicas : worker'[s] = IF s = r THEN v ELSE worker[s]
  BY <1>0, <1>6, <1>9, Constants DEF TypeOK
<1>11. ASSUME NEW s \in Replicas PROVE worker'[s].pc \in {"idle", "launch"}
                                       /\ (s # r => worker'[s].pc = "idle" /\ worker'[s].op = NoOp)
  BY <1>3, <1>6, <1>9, <1>10, Constants
<1>12. ASSUME NEW s \in Replicas PROVE Copied(worker[s].op)' /\ Worker(s)'
  <2>1. CASE worker'[s] = w /\ w.pc = "launch" /\ row' = new
    <3>1. Copied(worker[s].op)'
      BY <1>1, <1>4, <1>5, <1>6, <2>1 DEF Copied, Terminal, Candidacy
    <3>2. Worker(s)'
      BY <1>0, <1>1, <1>5, <1>6, <2>1 DEF Worker, Logging, Claiming
    <3> QED
      BY <3>1, <3>2
  <2>2. CASE worker'[s].pc = "idle" /\ worker'[s].op = NoOp
    BY <2>2, Constants DEF Copied, Worker, Logging, Claiming
  <2> QED
    BY <1>3, <1>6, <1>9, <1>10, <2>1, <2>2, Constants
<1>13. Copied(sup.op)' /\ Copied(poll.op)' /\ Request'
  <2>1. poll.pc = "idle"
    BY <1>3 DEF IInv, Request
  <2> QED
    BY <1>0, <1>3, <2>1 DEF Copied, Request
<1>14. Distinct'
  BY <1>11 DEF Distinct, At
<1>15. (\A s \in Replicas : Claimed(s)') /\ Leased' /\ Rotation' /\ SoleUser'
  BY <1>0, <1>11, UnclaimedKept DEF Unclaimed, Claiming
<1>16. Device' /\ Supervisor'
  BY <1>0, <1>1 DEF Device, Supervisor
<1>17. TypeOK'
  BY <1>0, <1>8, <1>10 DEF TypeOK, ReceiptStep
<1> QED
  BY <1>8, <1>12, <1>13, <1>14, <1>15, <1>16, <1>17 DEF IInv, ReceiptStep

LEMMA LaunchInv ==
  ASSUME IInv, NEW r \in Replicas, Launch(r)
  PROVE  IInv' /\ Ordered
<1>0. /\ TypeOK /\ Worker(r) /\ Rotation /\ Receipt /\ Device /\ worker[r].pc = "launch"
      /\ ~At(r, "idle") /\ worker[r].op \in Ops /\ Copied(worker[r].op) /\ row \in Rows
      /\ UNCHANGED <<holders, lease, browser, current, native, home, granted, poll, refresh, rotated>>
  BY DEF IInv, Launch, At, TypeOK, Workings
<1>1. PICK op \in Ops : op = worker[r].op
  BY <1>0
<1>2. /\ op.epoch = 1 /\ op.phase = "starting" /\ sup.pc = "none" /\ native = "none"
      /\ home = "empty" /\ ~granted /\ ~op.grant /\ ~op.clear /\ ~row.clear
      /\ row.phase \notin Candidacy /\ row.epoch <= 1
  BY <1>0, <1>1 DEF Worker, Logging, Device, Copied, Receipt, TypeOK, Rows
<1>3. CASE Go(r, "settle", op) /\ UNCHANGED <<row, sup>>
  <2>1. "settle" \in Pcs
    BY DEF Pcs
  <2>2. PICK w \in Workings : Advanced(r, w) /\ w.pc = "settle" /\ w.op = op
    BY <1>0, <1>1, <1>3, <2>1, GoQuietly
  <2>3. worker'[r] = w
    BY <2>2 DEF Advanced
  <2>4. Worker(r)' /\ Claimed(r)'
    BY <1>0, <1>2, <1>3, <2>2, <2>3 DEF Worker, Claimed, Logging, Claiming, Owning
  <2> QED
    BY <1>0, <1>3, <2>2, <2>4, PlainWrite DEF Claiming, Logging
<1>4. CASE SaveAs(r, op, "canceled", "idle", "settle") /\ UNCHANGED sup
  <2>1. Savable(op) => row.phase \in Polling /\ op.epoch = row.epoch
    BY <1>0, <1>1, <1>2 DEF Savable, Unchanged, Mine, Copied, Polling
  <2>2. "idle" \in Pcs /\ "settle" \in Pcs \ {"idle"}
    BY DEF Pcs
  <2>3. PICK w \in Workings : Advanced(r, w) /\ Saves(r, w, "canceled", "idle", "settle")
    BY <1>0, <1>1, <1>2, <1>4, <2>1, <2>2, SaveWorker
  <2>4. /\ w.pc \in {"idle", "settle"} /\ (w.pc = "idle" => w = Idle)
        /\ w.pc = "settle" => w.op.epoch = op.epoch
        /\ op.epoch = row.epoch \/ row' = row
        /\ row'.epoch = row.epoch /\ worker'[r] = w
    BY <1>1, <2>3, Constants DEF Saves, Advanced
  <2>5. Worker(r)' /\ Claimed(r)'
    BY <1>0, <1>2, <1>4, <2>4, Constants DEF Worker, Claimed, Logging, Claiming, Owning
  <2> QED
    BY <1>0, <1>1, <1>4, <2>3, <2>4, <2>5, PlainWrite DEF Claiming, Logging
<1>5. CASE /\ Heartbeat(op) /\ sup' = [sup EXCEPT !.pc = "start", !.op = op]
           /\ Go(r, "poll", op) /\ UNCHANGED row
  <2>1. row.phase \in Polling /\ op.epoch = row.epoch
    BY <1>2, <1>5 DEF Heartbeat, Running, Candidacy, Mine
  <2>2. \A s \in Replicas \ {r} : worker[s].pc = "idle"
    <3>1. SUFFICES ASSUME NEW s \in Replicas \ {r}, worker[s].pc # "idle" PROVE FALSE
      OBVIOUS
    <3>2. /\ Copied(worker[s].op) /\ Worker(s) /\ worker[s].op.epoch \in Nat
          /\ worker[s].op.epoch # op.epoch
      BY <1>0, <1>1, <3>1 DEF IInv, Distinct, At, TypeOK, Workings, Ops
    <3> QED
      BY <1>2, <2>1, <3>1, <3>2 DEF Worker, Copied
  <2>3. sup' \in Sups /\ sup'.pc = "start" /\ sup'.op = op
    <3>1. PICK v \in Sups : v = sup
      BY <1>0 DEF TypeOK
    <3> QED
      BY <1>5, <3>1 DEF Sups
  <2>4. DeviceOnward
    BY <1>0, <1>2, <2>3 DEF DeviceOnward
  <2>5. ReceiptStep /\ (row'.identified => row'.grant \/ row'.phase = "completed")
    <3>1. row.phase \notin {"failed", "canceled"} /\ row.phase # "none"
      BY <2>1 DEF Polling
    <3>2. Onward /\ Ordered /\ Receipt' /\ GrantKept' /\ FailureTruthful'
      BY <1>0, <1>5, <2>4, <3>1, ReceiptMarked
    <3> QED
      BY <1>0, <1>5, <3>2 DEF ReceiptStep, TypeOK
  <2>6. Copied(op)'
    BY <1>0, <1>1, <2>4, <2>5, OwnCopy
  <2>7. PICK w \in Workings : w = Stage(r, "poll", op)
    BY <1>0, StageIs
  <2>8. w.pc = "poll" /\ w.op = op
    BY <1>0, <2>7, StageIs
  <2>9. Works(r, w)
    BY <1>0, <1>1, <1>5, <2>7, <2>8 DEF Works, Go, Set
  <2>10. Advanced(r, w)
    <3>1. \A s \in Replicas \ {r} : sup.pc = "none" =>
             /\ sup'.pc \in {"none", "done"} \/ worker[s].pc \in {"idle", "poll"}
             /\ sup'.pc = "none" \/ worker[s].pc # "launch"
      BY <2>2
    <3>2. /\ worker' \in [Replicas -> Workings] /\ worker'[r] = w
          /\ \A s \in Replicas \ {r} :
               worker'[s] = worker[s] /\ Copied(worker[s].op)' /\ Worker(s)'
          /\ Request' /\ Copied(poll.op)'
      BY <1>0, <2>4, <2>5, <2>9, <3>1, Others DEF ReceiptStep
    <3> QED
      BY <2>3, <2>4, <2>5, <2>6, <2>8, <2>9, <3>2 DEF Advanced
  <2>11. worker'[r] = w
    BY <2>10 DEF Advanced
  <2>12. Worker(r)' /\ Claimed(r)'
    BY <1>2, <2>8, <2>11 DEF Worker, Claimed, Logging, Claiming, Owning
  <2>13. Device' /\ Supervisor'
    BY <1>0, <1>2, <1>5, <2>1, <2>3 DEF Device, Supervisor, Polling
  <2> QED
    BY <1>0, <1>1, <1>5, <2>1, <2>3, <2>8, <2>10, <2>12, <2>13, EarlyRow, PlainStep
       DEF Claiming, Logging, TypeOK, Unclaimed
<1> QED
  BY <1>1, <1>3, <1>4, <1>5 DEF Launch

\* A worker that watches the supervisor, and stops.
LEMMA PollTickInv ==
  ASSUME IInv, NEW r \in Replicas, PollTick(r)
  PROVE  IInv' /\ Ordered
<1>0. /\ TypeOK /\ Worker(r) /\ Rotation /\ Receipt /\ GrantKept /\ worker[r].pc = "poll"
      /\ ~At(r, "idle") /\ worker[r] \in Workings /\ worker[r].op \in Ops
      /\ Copied(worker[r].op) /\ row \in Rows
      /\ UNCHANGED <<holders, lease, browser, current, sup, native, home, granted, poll, refresh, rotated>>
  BY DEF IInv, PollTick, At, device, TypeOK, Workings
<1>1. PICK op \in Ops : op = worker[r].op
  BY <1>0
<1>2. /\ op.epoch = 1 /\ (op.grant => row.grant \/ row.phase = "completed")
      /\ op.epoch = row.epoch => ~rotated
  BY <1>0, <1>1 DEF Worker, Logging, Rotation
<1>3. CASE Heartbeat(op) /\ Go(r, "poll", OpOf(row)) /\ UNCHANGED row
  <2>1. /\ ReceiptStep /\ DeviceOnward
        /\ row'.identified => row'.grant \/ row'.phase = "completed"
    BY <1>0, <1>3, QuietStep
  <2>2. PICK o \in Ops : o = OpOf(row)
    BY <1>0, RowOp
  <2>3. /\ o.epoch = row.epoch /\ o.holder = row.holder /\ o.seq = row.seq
        /\ o.phase = row.phase /\ o.grant = row.grant /\ o.clear = row.clear
    BY <1>0, <2>2, RowOp
  <2>4. Copied(o)'
    BY <1>0, <1>3, <2>1, <2>3, CopiedAfter DEF ReceiptStep
  <2>5. o.epoch = op.epoch
    BY <1>3, <2>3 DEF Heartbeat, Mine
  <2>6. "poll" \in Pcs
    BY DEF Pcs
  <2>7. PICK w \in Workings : Advanced(r, w) /\ w.pc = "poll" /\ w.op = o
    BY <1>0, <1>1, <1>3, <2>1, <2>2, <2>4, <2>5, <2>6, GoAdvances
  <2>8. worker'[r] = w
    BY <2>7 DEF Advanced
  <2>9. Worker(r)' /\ Claimed(r)'
    BY <1>2, <1>3, <2>3, <2>5, <2>7, <2>8 DEF Worker, Claimed, Logging, Claiming, Owning
  <2> QED
    BY <1>0, <1>1, <1>2, <1>3, <2>5, <2>7, <2>9, PlainWrite DEF Claiming, Logging
<1>4. ASSUME NEW pc \in {"stop", "read"}, NEW result \in {"ok", "err", "stop"},
             Set(r, [worker[r] EXCEPT !.pc = pc, !.result = result]),
             pc = "read" => sup.pc = "done",
             ReceiptStep, row'.identified => row'.grant \/ row'.phase = "completed",
             row'.epoch = row.epoch, row' = row \/ op.epoch = row.epoch,
             op.grant => row'.grant \/ row'.phase = "completed"
      PROVE  IInv' /\ Ordered
  <2>1. PICK w \in Workings : /\ w = [worker[r] EXCEPT !.pc = pc, !.result = result]
                              /\ w.pc = pc /\ w.op = op
    <3>1. PICK v \in Workings : v = worker[r]
      BY <1>0
    <3>2. /\ [v EXCEPT !.pc = pc, !.result = result] \in Workings
          /\ [v EXCEPT !.pc = pc, !.result = result].pc = pc
          /\ [v EXCEPT !.pc = pc, !.result = result].op = v.op
      BY DEF Workings
    <3> QED
      BY <1>1, <3>1, <3>2
  <2>2. DeviceOnward
    BY <1>0 DEF DeviceOnward
  <2>3. Works(r, w) /\ Copied(w.op)'
    BY <1>0, <1>1, <1>4, <2>1, <2>2, OwnCopy DEF Works, Set
  <2>4. Advanced(r, w)
    BY <1>0, <1>4, <2>2, <2>3, Advances
  <2>5. worker'[r] = w
    BY <2>4 DEF Advanced
  <2>6. Worker(r)' /\ Claimed(r)'
    BY <1>0, <1>2, <1>4, <2>1, <2>5 DEF Worker, Claimed, Logging, Claiming, Owning
  <2> QED
    BY <1>0, <1>1, <1>2, <1>4, <2>1, <2>4, <2>6, PlainWrite DEF Claiming, Logging
<1>5. ASSUME row' = row
      PROVE  /\ ReceiptStep /\ (row'.identified => row'.grant \/ row'.phase = "completed")
  BY <1>0, <1>5, QuietStep
<1>6. ASSUME Heartbeat(op), NEW c \in BOOLEAN, row' = [row EXCEPT !.cancel = c]
      PROVE  /\ ReceiptStep /\ (row'.identified => row'.grant \/ row'.phase = "completed")
             /\ row'.epoch = row.epoch /\ op.epoch = row.epoch
             /\ op.grant => row'.grant \/ row'.phase = "completed"
  <2>1. /\ row' \in Rows /\ row'.phase = row.phase /\ row'.holder = row.holder
        /\ row'.epoch = row.epoch /\ row'.seq = row.seq
    BY <1>0, <1>6 DEF Rows
  <2>2. /\ row'.grant = row.grant /\ row'.identified = row.identified /\ row'.clear = row.clear
        /\ row'.reported = row.reported
    BY <1>0, <1>6 DEF Rows
  <2>3. row.phase # "none" /\ DeviceOnward
    BY <1>0, <1>6 DEF Heartbeat, Running, Polling, DeviceOnward
  <2>4. ReceiptStep
    BY <1>0, <2>1, <2>2, <2>3, ReceiptMarked DEF ReceiptStep, Receipt
  <2> QED
    BY <1>0, <1>2, <1>6, <2>1, <2>2, <2>4 DEF TypeOK, Heartbeat, Mine
<1>7. CASE /\ Heartbeat(op) /\ row' = [row EXCEPT !.cancel = @ \/ browser]
           /\ Set(r, [worker[r] EXCEPT !.pc = "stop", !.result = "stop"])
  <2>1. PICK c \in BOOLEAN : row' = [row EXCEPT !.cancel = c]
    BY <1>7
  <2> QED
    BY <1>4, <1>6, <1>7, <2>1
<1>8. CASE /\ Heartbeat(op) /\ row' \in {row, [row EXCEPT !.cancel = TRUE]}
           /\ Set(r, [worker[r] EXCEPT !.pc = "stop", !.result = "err"])
  BY <1>2, <1>4, <1>5, <1>6, <1>8
<1>9. CASE Set(r, [worker[r] EXCEPT !.pc = "stop", !.result = "err"]) /\ UNCHANGED row
  BY <1>2, <1>4, <1>5, <1>9
<1>10. CASE /\ sup.pc = "done" /\ UNCHANGED row
            /\ Set(r, [worker[r] EXCEPT !.pc = IF sup.outcome = "success" THEN "read" ELSE "stop",
                                        !.result = IF sup.outcome = "success" THEN "ok" ELSE "err"])
  BY <1>2, <1>4, <1>5, <1>10
<1> QED
  BY <1>1, <1>3, <1>7, <1>8, <1>9, <1>10 DEF PollTick

\* A copy that is given up as unresolved.
LEMMA GivenUp ==
  ASSUME NEW op \in Ops
  PROVE  \E o \in Ops : /\ o = [op EXCEPT !.phase = "unresolved"]
                       /\ o.epoch = op.epoch /\ o.holder = op.holder /\ o.seq = op.seq
                       /\ o.clear = op.clear /\ o.phase = "unresolved" /\ o.grant = op.grant
<1>1. [op EXCEPT !.phase = "unresolved"] \in Ops
  BY DEF Ops, Phases
<1>2. PICK o \in Ops : o = [op EXCEPT !.phase = "unresolved"]
  BY <1>1
<1>3. o.epoch = op.epoch /\ o.holder = op.holder /\ o.seq = op.seq
  BY <1>2 DEF Ops
<1>4. o.clear = op.clear /\ o.phase = "unresolved" /\ o.grant = op.grant
  BY <1>2 DEF Ops
<1> QED
  BY <1>2, <1>3, <1>4

\* The worker waits for its supervisor, or kills it.
LEMMA AwaitSupervisorInv ==
  ASSUME IInv, NEW r \in Replicas, AwaitSupervisor(r)
  PROVE  IInv' /\ Ordered
<1>0. /\ TypeOK /\ Worker(r) /\ Rotation /\ Receipt /\ Device /\ Supervisor
      /\ worker[r].pc = "stop" /\ ~At(r, "idle") /\ worker[r].op \in Ops
      /\ Copied(worker[r].op) /\ row \in Rows
      /\ UNCHANGED <<row, holders, lease, browser, current, home, granted, poll, refresh, rotated>>
  BY DEF IInv, AwaitSupervisor, At, TypeOK, Workings
<1>1. PICK op \in Ops : op = worker[r].op
  BY <1>0
<1>2. /\ op.epoch = 1 /\ (op.grant => row.grant \/ row.phase = "completed")
      /\ op.epoch = row.epoch => ~rotated
  BY <1>0, <1>1 DEF Worker, Logging, Rotation
<1>3. CASE sup.pc = "done" /\ Go(r, "read", op) /\ UNCHANGED <<sup, native>>
  <2>1. "read" \in Pcs
    BY DEF Pcs
  <2>2. PICK w \in Workings : Advanced(r, w) /\ w.pc = "read" /\ w.op = op
    BY <1>0, <1>1, <1>3, <2>1, GoQuietly
  <2>3. worker'[r] = w
    BY <2>2 DEF Advanced
  <2>4. Worker(r)' /\ Claimed(r)'
    BY <1>0, <1>2, <1>3, <2>2, <2>3 DEF Worker, Claimed, Logging, Claiming, Owning
  <2> QED
    BY <1>0, <1>1, <1>2, <1>3, <2>2, <2>4, PlainWrite DEF Claiming, Logging
<1>4. CASE /\ Go(r, "settle", [op EXCEPT !.phase = "unresolved"])
           /\ sup' = [NoSup EXCEPT !.pc = "done"] /\ native' = Exited
  <2>1. PICK o \in Ops : /\ o = [op EXCEPT !.phase = "unresolved"]
                         /\ o.epoch = op.epoch /\ o.holder = op.holder /\ o.seq = op.seq
                         /\ o.clear = op.clear /\ o.phase = "unresolved" /\ o.grant = op.grant
    BY GivenUp
  <2>2. sup' \in Sups /\ sup'.pc = "done" /\ sup'.op = NoOp
    BY <1>4, Constants DEF NoSup, Sups
  <2>3. DeviceOnward
    BY <1>0, <2>2 DEF DeviceOnward
  <2>4. ReceiptStep /\ (row'.identified => row'.grant \/ row'.phase = "completed")
    <3>1. Onward /\ Ordered /\ Receipt' /\ GrantKept' /\ FailureTruthful'
      BY <1>0, <2>2, <2>3, ReceiptMarked DEF Receipt
    <3> QED
      BY <1>0, <3>1 DEF ReceiptStep, TypeOK
  <2>5. Copied(o)'
    <3>1. Copied(op)'
      BY <1>0, <1>1, <2>3, <2>4, OwnCopy
    <3> QED
      BY <2>1, <3>1, CopiedLike
  <2>6. PICK w \in Workings : w = Stage(r, "settle", o)
    BY <1>0, StageIs
  <2>7. w.pc = "settle" /\ w.op = o
    BY <1>0, <2>6, StageIs
  <2>8. Works(r, w)
    BY <1>0, <1>1, <1>4, <2>1, <2>6, <2>7 DEF Works, Go, Set
  <2>9. Advanced(r, w)
    <3>1. ASSUME NEW s \in Replicas \ {r} PROVE worker[s].pc # "launch"
      <4>1. SUFFICES ASSUME worker[s].pc = "launch" PROVE FALSE
        OBVIOUS
      <4>2. worker[s].op.epoch = 1 /\ worker[s].op.epoch # op.epoch
        BY <1>0, <1>1, <4>1 DEF IInv, Worker, Logging, Distinct, At
      <4> QED
        BY <1>2, <4>2
    <3>2. /\ worker' \in [Replicas -> Workings] /\ worker'[r] = w
          /\ \A s \in Replicas \ {r} :
               worker'[s] = worker[s] /\ Copied(worker[s].op)' /\ Worker(s)'
          /\ Request' /\ Copied(poll.op)'
      BY <1>0, <2>2, <2>3, <2>4, <2>8, <3>1, Others DEF ReceiptStep
    <3>3. Copied(sup.op)'
      BY <2>2, Constants DEF Copied
    <3> QED
      BY <2>3, <2>4, <2>5, <2>7, <2>8, <3>2, <3>3 DEF Advanced
  <2>10. worker'[r] = w
    BY <2>9 DEF Advanced
  <2>11. Worker(r)' /\ Claimed(r)'
    <3>1. /\ worker'[r].pc = "settle" /\ worker'[r].op.epoch = 1 /\ sup'.pc = "done"
          /\ worker'[r].op.phase = "unresolved"
      BY <1>2, <2>1, <2>2, <2>7, <2>10
    <3> QED
      BY <3>1 DEF Worker, Claimed, Logging, Claiming, Owning, Polling
  <2>12. native' \in {"none", "exited"}
    BY <1>4 DEF Exited
  <2>13. Device' /\ Supervisor'
    <3>1. row.phase # "none"
      <4>1. row.epoch > 0
        BY <1>0, <1>1, <1>2 DEF Copied, TypeOK, Rows
      <4> QED
        BY <1>0, <4>1 DEF Receipt, NoRow
    <3> QED
      BY <1>0, <2>2, <2>12, <3>1 DEF Device, Supervisor
  <2> QED
    BY <1>0, <1>1, <2>1, <2>2, <2>7, <2>9, <2>11, <2>12, <2>13, PlainStep
       DEF Claiming, Logging, TypeOK
<1> QED
  BY <1>1, <1>3, <1>4 DEF AwaitSupervisor

\* What the receipt says when the login is over.
LEMMA ReadReceiptInv ==
  ASSUME IInv, NEW r \in Replicas, ReadReceipt(r)
  PROVE  IInv' /\ Ordered
<1>0. /\ TypeOK /\ Worker(r) /\ Rotation /\ Receipt /\ GrantKept
      /\ worker[r].pc = "read" /\ ~At(r, "idle") /\ worker[r].op \in Ops
      /\ Copied(worker[r].op) /\ row \in Rows
      /\ UNCHANGED <<holders, lease, browser, current, sup, native, granted, poll, refresh, rotated>>
  BY DEF IInv, ReadReceipt, At, TypeOK, Workings
<1>1. PICK old \in Ops : old = worker[r].op
  BY <1>0
<1>2. /\ old.epoch = 1 /\ sup.pc = "done" /\ DeviceOnward
      /\ old.grant => row.grant \/ row.phase = "completed"
      /\ old.clear => ~granted
      /\ old.epoch = row.epoch => ~rotated
  BY <1>0, <1>1 DEF Worker, Logging, Rotation, DeviceOnward, Copied
<1>3. ASSUME NEW w \in Workings, Advanced(r, w), row'.epoch = row.epoch,
             row' = row \/ row.phase \in Unclaimed,
             home' \in {home, "removed"},
             w.pc \in {"idle", "verify", "settle", "capture"}, w.pc = "idle" => w = Idle,
             w.pc # "idle" => w.op.epoch = 1,
             w.pc = "verify" => w.op.grant, w.pc = "capture" => ~w.op.grant,
             w.pc = "settle" => w.op.grant \/ w.op.phase = "unresolved"
      PROVE  IInv' /\ Ordered
  <2>1. worker'[r] = w
    BY <1>3 DEF Advanced
  <2>2. Worker(r)' /\ Claimed(r)'
    BY <1>0, <1>2, <1>3, <2>1, Constants DEF Worker, Claimed, Logging, Claiming, Owning, Polling
  <2> QED
    BY <1>0, <1>1, <1>2, <1>3, <2>2, PlainWrite DEF Claiming, Logging
<1>4. {"settle", "verify", "capture", "idle"} \subseteq Pcs
  BY DEF Pcs
<1>5. CASE Go(r, "settle", [old EXCEPT !.phase = "unresolved"]) /\ UNCHANGED <<row, home>>
  <2>1. PICK o \in Ops : /\ o = [old EXCEPT !.phase = "unresolved"]
                         /\ o.epoch = old.epoch /\ o.holder = old.holder /\ o.seq = old.seq
                         /\ o.clear = old.clear /\ o.phase = "unresolved" /\ o.grant = old.grant
    BY GivenUp
  <2>2. ReceiptStep /\ (row'.identified => row'.grant \/ row'.phase = "completed")
    BY <1>0, <1>5, QuietStep
  <2>3. Copied(o)'
    BY <1>0, <1>1, <1>2, <2>1, <2>2, OwnCopy, CopiedLike
  <2>4. Go(r, "settle", o)
    BY <1>5, <2>1
  <2>5. o.epoch = worker[r].op.epoch /\ "settle" \in Pcs
    BY <1>1, <1>4, <2>1
  <2>6. PICK w \in Workings : Advanced(r, w) /\ w.pc = "settle" /\ w.op = o
    BY <1>0, <1>2, <2>2, <2>3, <2>4, <2>5, GoAdvances
  <2> QED
    BY <1>2, <1>3, <1>5, <2>1, <2>6
<1>6. PICK op \in Ops : op = Adopt(old)
  BY <1>0, ExpiredIs, RowOp DEF Adopt
<1>7. ASSUME row' = Expired,
             \/ home' = home
             \/ home' = "removed" /\ (op.grant \/ op.clear)
      PROVE  /\ ReceiptStep /\ (row'.identified => row'.grant \/ row'.phase = "completed")
             /\ row'.epoch = row.epoch /\ (row' = row \/ row.phase \in Unclaimed)
             /\ Copied(op)' /\ op.epoch = old.epoch
  <2>1. /\ row' \in Rows /\ row'.holder = row.holder /\ row'.epoch = row.epoch
        /\ row'.grant = row.grant /\ row'.clear = row.clear /\ row'.identified = row.identified
        /\ row' = row \/ (row.phase \in Polling /\ row'.phase = "replica_lost")
    BY <1>0, <1>7, ExpiredIs
  <2>2. home' = home \/ ~granted \/ row.grant \/ row.phase = "completed"
    <3>1. CASE Mine(old)
      <4>1. op = OpOf(Expired)
        BY <1>6, <3>1 DEF Adopt
      <4>2. op.grant = row.grant /\ op.clear = row.clear
        BY <1>0, <1>7, <2>1, <4>1, RowOp
      <4> QED
        BY <1>0, <1>7, <4>2 DEF GrantKept
    <3>2. CASE ~Mine(old)
      BY <1>2, <1>6, <1>7, <3>2 DEF Adopt
    <3> QED
      BY <3>1, <3>2
  <2>3. ReceiptStep
    <3>1. row.phase \in {"failed", "canceled"} => sup'.pc \in {"none", "unpublished", "done"}
      BY <1>0, <1>2
    <3> QED
      BY <1>0, <1>2, <1>7, <2>2, <3>1, ReceiptExpired DEF ReceiptStep
  <2>4. Copied(op)' /\ op.epoch = old.epoch
    <3>1. CASE Mine(old)
      <4>1. op = OpOf(Expired)
        BY <1>6, <3>1 DEF Adopt
      <4>2. /\ op.epoch = row'.epoch /\ op.holder = row'.holder /\ op.seq = row'.seq
            /\ op.phase = row'.phase /\ op.grant = row'.grant /\ op.clear = row'.clear
        BY <1>7, <2>1, <4>1, RowOp
      <4>3. Copied(op)'
        BY <2>1, <2>3, <4>2, CopiedAfter DEF ReceiptStep
      <4> QED
        BY <2>1, <3>1, <4>2, <4>3 DEF Mine
    <3>2. CASE ~Mine(old)
      <4>1. op = old
        BY <1>6, <3>2 DEF Adopt
      <4> QED
        BY <1>1, <1>2, <2>3, <4>1, OwnCopy
    <3> QED
      BY <3>1, <3>2
  <2> QED
    BY <1>0, <2>1, <2>3, <2>4 DEF TypeOK, Unclaimed, Polling
<1>8. CASE row' = Expired /\ op.phase = "canceled" /\ op.clear /\ home' = "removed" /\ Set(r, Idle)
  <2>1. PICK w \in Workings : w = Idle
    BY Constants
  <2>2. Works(r, w) /\ Copied(w.op)'
    BY <1>8, <2>1, Constants DEF Works, Set, Copied
  <2>3. Advanced(r, w)
    BY <1>0, <1>2, <1>7, <1>8, <2>2, Advances
  <2> QED
    BY <1>2, <1>3, <1>7, <1>8, <2>1, <2>3, Constants
<1>9. ASSUME NEW pc \in {"verify", "settle", "capture"}, row' = Expired, Go(r, pc, op),
              home' = home \/ (pc = "verify" /\ home' = "removed"),
              IF pc = "capture" THEN ~op.grant ELSE op.grant
       PROVE  IInv' /\ Ordered
  <2>1. /\ ReceiptStep /\ (row'.identified => row'.grant \/ row'.phase = "completed")
        /\ row'.epoch = row.epoch /\ (row' = row \/ row.phase \in Unclaimed)
        /\ Copied(op)' /\ op.epoch = old.epoch
    BY <1>7, <1>9
  <2>2. PICK w \in Workings : Advanced(r, w) /\ w.pc = pc /\ w.op = op
    BY <1>0, <1>1, <1>2, <1>4, <1>9, <2>1, GoAdvances
  <2> QED
    BY <1>2, <1>3, <1>9, <2>1, <2>2
<1>10. CASE row' = Expired /\ UNCHANGED home /\ Go(r, "settle", [op EXCEPT !.phase = "unresolved"])
  <2>1. PICK o \in Ops : /\ o = [op EXCEPT !.phase = "unresolved"]
                         /\ o.epoch = op.epoch /\ o.holder = op.holder /\ o.seq = op.seq
                         /\ o.clear = op.clear /\ o.phase = "unresolved" /\ o.grant = op.grant
    BY GivenUp
  <2>2. /\ ReceiptStep /\ (row'.identified => row'.grant \/ row'.phase = "completed")
        /\ row'.epoch = row.epoch /\ (row' = row \/ row.phase \in Unclaimed)
        /\ Copied(op)' /\ op.epoch = old.epoch /\ home' = home
    BY <1>7, <1>10
  <2>3. Copied(o)'
    BY <2>1, <2>2, CopiedLike
  <2>4. Go(r, "settle", o)
    BY <1>10, <2>1
  <2>5. o.epoch = worker[r].op.epoch /\ "settle" \in Pcs
    BY <1>1, <1>4, <2>1, <2>2
  <2>6. /\ ~At(r, "idle") /\ ReceiptStep /\ DeviceOnward /\ UNCHANGED <<sup, poll>>
        /\ row'.identified => row'.grant \/ row'.phase = "completed"
    BY <1>0, <1>2, <2>2
  <2>7. PICK w \in Workings : Advanced(r, w) /\ w.pc = "settle" /\ w.op = o
    BY <2>3, <2>4, <2>5, <2>6, GoAdvances
  <2>8. /\ w.op.epoch = 1 /\ w.op.phase = "unresolved" /\ home' \in {home, "removed"}
        /\ row'.epoch = row.epoch /\ (row' = row \/ row.phase \in Unclaimed)
    BY <1>2, <2>1, <2>2, <2>7
  <2> QED
    BY <1>3, <2>7, <2>8
<1> QED
  BY <1>1, <1>5, <1>6, <1>8, <1>9, <1>10 DEF ReadReceipt

\* The home is searched only when the native login can leave nothing more in it.
LEMMA CaptureInv ==
  ASSUME IInv, NEW r \in Replicas, Capture(r)
  PROVE  IInv' /\ Ordered
<1>0. /\ TypeOK /\ Worker(r) /\ Rotation /\ Receipt /\ GrantKept /\ Device
      /\ worker[r].pc = "capture" /\ ~At(r, "idle") /\ worker[r].op \in Ops
      /\ Copied(worker[r].op) /\ row \in Rows
      /\ UNCHANGED <<holders, lease, browser, current, sup, native, home, granted, poll, refresh, rotated>>
  BY DEF IInv, Capture, At, device, TypeOK, Workings
<1>1. PICK op \in Ops : op = worker[r].op
  BY <1>0
<1>2. /\ op.epoch = 1 /\ ~op.grant /\ sup.pc = "done" /\ DeviceOnward
      /\ op.phase \notin Candidacy /\ (op.epoch = row.epoch => ~rotated)
  BY <1>0, <1>1 DEF Worker, Logging, Rotation, DeviceOnward, Copied
<1>3. ASSUME NEW pc \in {"settle", "canceling", "publish"}, NEW o \in Ops, Go(r, pc, o),
             Copied(o)', o.epoch = 1,
             ReceiptStep, row'.identified => row'.grant \/ row'.phase = "completed",
             row'.epoch = row.epoch, row' = row \/ op.epoch = row.epoch,
             pc = "publish" => o.grant /\ o.phase \notin Candidacy \cup {"unresolved"},
             pc = "canceling" /\ ~o.grant => o.phase \in Polling,
             ~o.grant /\ o.phase \in Polling => ~granted
      PROVE  IInv' /\ Ordered
  <2>1. pc \in Pcs
    BY DEF Pcs
  <2>2. PICK w \in Workings : Advanced(r, w) /\ w.pc = pc /\ w.op = o
    BY <1>0, <1>1, <1>2, <1>3, <2>1, GoAdvances
  <2>3. worker'[r] = w
    BY <2>2 DEF Advanced
  <2>4. Worker(r)' /\ Claimed(r)'
    BY <1>0, <1>2, <1>3, <2>2, <2>3 DEF Worker, Claimed, Logging, Claiming, Owning
  <2> QED
    BY <1>0, <1>1, <1>2, <1>3, <2>2, <2>4, PlainWrite DEF Claiming, Logging
<1>4. row' = row => ReceiptStep /\ (row'.identified => row'.grant \/ row'.phase = "completed")
  BY <1>0, QuietStep
<1>5. ReceiptStep => Copied(op)'
  BY <1>1, <1>2, OwnCopy
<1>6. CASE Go(r, "settle", [op EXCEPT !.phase = "unresolved"]) /\ UNCHANGED row
  <2>1. PICK o \in Ops : /\ o = [op EXCEPT !.phase = "unresolved"]
                         /\ o.epoch = op.epoch /\ o.holder = op.holder /\ o.seq = op.seq
                         /\ o.clear = op.clear /\ o.phase = "unresolved" /\ o.grant = op.grant
    BY GivenUp
  <2>2. Go(r, "settle", o)
    BY <1>6, <2>1
  <2>3. Copied(o)'
    BY <1>4, <1>5, <1>6, <2>1, CopiedLike
  <2>4. o.phase \notin Polling
    BY <2>1 DEF Polling
  <2> QED
    BY <1>2, <1>3, <1>4, <1>6, <2>1, <2>2, <2>3, <2>4
<1>7. CASE /\ home = "grant" /\ UNCHANGED row
           /\ LET found == [op EXCEPT !.grant = TRUE]
              IN  Go(r, AfterCapture(worker[r], found), found)
  <2>1. PICK o \in Ops : o = [op EXCEPT !.grant = TRUE]
    BY DEF Ops
  <2>2. /\ o.epoch = op.epoch /\ o.holder = op.holder /\ o.seq = op.seq /\ o.clear = op.clear
        /\ o.phase = op.phase
    BY <2>1 DEF Ops
  <2>3. o.grant
    BY <2>1 DEF Ops
  <2>4. granted'
    BY <1>0, <1>7 DEF Device
  <2>5. Copied(o)'
    BY <1>4, <1>5, <1>7, <2>2, <2>3, <2>4, CopiedLike
  <2>6. PICK pc \in {"settle", "canceling", "publish"} : pc = AfterCapture(worker[r], o)
    BY DEF AfterCapture
  <2>7. pc = "publish" => o.phase # "unresolved"
    BY <2>6 DEF AfterCapture
  <2>8. Go(r, pc, o)
    BY <1>7, <2>1, <2>6
  <2> QED
    BY <1>2, <1>3, <1>4, <1>7, <2>2, <2>3, <2>5, <2>7, <2>8
<1>8. CASE /\ home = "empty"
           /\ Write(r, Clearable(op), [row EXCEPT !.clear = TRUE],
                    Stage(r, AfterCapture(worker[r], op), op), Stage(r, "settle", op))
  <2>1. ~granted
    BY <1>0, <1>8 DEF Device
  <2>2. ASSUME Clearable(op), row' = [row EXCEPT !.clear = TRUE]
        PROVE  /\ ReceiptStep /\ (row'.identified => row'.grant \/ row'.phase = "completed")
               /\ row'.epoch = row.epoch /\ op.epoch = row.epoch /\ op.phase \in Polling
    <3>1. /\ row' \in Rows /\ row'.phase = row.phase /\ row'.holder = row.holder
          /\ row'.epoch = row.epoch /\ row'.seq = row.seq
      BY <1>0, <2>2 DEF Rows
    <3>2. /\ row'.grant = row.grant /\ row'.identified = row.identified /\ row'.clear
          /\ row'.reported = row.reported
      BY <1>0, <2>2 DEF Rows
    <3>3. row.phase \in Polling \cup {"replica_lost"} /\ op.epoch = row.epoch /\ op.phase \in Polling
      BY <2>2 DEF Clearable, Unlost, Mine
    <3>4. ReceiptStep
      BY <1>0, <1>2, <2>1, <3>1, <3>2, <3>3, ReceiptMarked DEF ReceiptStep, Polling
    <3> QED
      BY <1>0, <3>1, <3>2, <3>3, <3>4 DEF TypeOK
  <2>3. CASE /\ Clearable(op) /\ row' = [row EXCEPT !.clear = TRUE]
             /\ Set(r, Stage(r, AfterCapture(worker[r], op), op))
    <3>1. PICK pc \in {"settle", "canceling"} : pc = AfterCapture(worker[r], op)
      BY <1>2 DEF AfterCapture
    <3>2. Go(r, pc, op)
      BY <2>3, <3>1 DEF Go
    <3> QED
      BY <1>2, <1>3, <1>5, <2>1, <2>2, <2>3, <3>2
  <2>4. CASE /\ row' = row \/ (Clearable(op) /\ row' = [row EXCEPT !.clear = TRUE])
             /\ Set(r, Stage(r, "settle", op))
    <3>1. Go(r, "settle", op)
      BY <2>4 DEF Go
    <3> QED
      BY <1>2, <1>3, <1>4, <1>5, <2>1, <2>2, <2>4, <3>1
  <2> QED
    BY <1>8, <2>3, <2>4 DEF Write
<1> QED
  BY <1>1, <1>6, <1>7, <1>8 DEF Capture

-----------------------------------------------------------------------------
(* The supervisor.                                                         *)

\* A step that leaves the workers alone.
LEMMA Untouched ==
  ASSUME IInv, UNCHANGED worker, ReceiptStep, DeviceOnward,
         sup.pc = "none" => sup'.pc = "none",
         row'.identified => row'.grant \/ row'.phase = "completed",
         holders' \in [Holders -> {"unregistered", "live", "expired"}],
         lease' \in Leases, browser' \in BOOLEAN, current' \in [Replicas -> Holders],
         sup' \in Sups, native' \in {"none", "running", "recorded", "exited"},
         home' \in {"empty", "grant", "unreadable", "removed"}, poll' \in Polls,
         refresh' \in Replicas \cup {None}, granted' \in BOOLEAN, rotated' \in BOOLEAN,
         Request', Copied(poll.op)', Copied(sup.op)', Device', Supervisor',
         \A s \in Replicas : Claimed(s)', Leased', Rotation', SoleUser'
  PROVE  IInv' /\ Ordered
<1>1. TypeOK
  BY DEF IInv
<1>2. ASSUME NEW s \in Replicas PROVE Copied(worker[s].op)' /\ Worker(s)'
  <2>1. Copied(worker[s].op) /\ Worker(s) /\ worker'[s] = worker[s]
    BY DEF IInv
  <2>2. PICK o \in Ops : o = worker[s].op
    BY <1>1 DEF TypeOK, Workings
  <2>3. Copied(o)'
    BY <1>1, <2>1, <2>2, CopiedKept DEF ReceiptStep
  <2>4. Worker(s)'
    BY <1>1, <2>1, WorkerKept DEF ReceiptStep
  <2> QED
    BY <2>1, <2>2, <2>3, <2>4
<1>3. Distinct'
  BY DEF IInv, Distinct, At
<1>4. TypeOK'
  BY <1>1 DEF TypeOK, ReceiptStep
<1> QED
  BY <1>2, <1>3, <1>4 DEF IInv, ReceiptStep

\* A step of the supervisor, which nobody's claim depends on: the receipt is that
\* of a login, or no worker has claimed anything.
LEMMA SupStep ==
  ASSUME IInv, SupUnchanged, sup.pc # "none", ReceiptStep, DeviceOnward,
         row'.identified => row'.grant \/ row'.phase = "completed",
         \/ row' = row
         \/ row.phase \in Unclaimed
         \/ sup.pc \notin {"unpublished", "done"} /\ row'.phase \notin Candidacy
            /\ row'.epoch = row.epoch,
         sup' \in Sups, native' \in {"none", "running", "recorded", "exited"},
         home' \in {"empty", "grant", "unreadable", "removed"}, granted' \in BOOLEAN,
         Copied(sup.op)', Device', Supervisor'
  PROVE  IInv' /\ Ordered
<1>0. /\ TypeOK /\ Leased /\ Rotation /\ SoleUser
      /\ UNCHANGED <<holders, lease, browser, current, worker, poll, refresh, rotated>>
  BY DEF IInv, SupUnchanged
<1>1. Request' /\ Copied(poll.op)'
  <2>1. PICK o \in Ops : o = poll.op
    BY <1>0 DEF TypeOK, Polls
  <2>2. Copied(o)'
    BY <1>0, <2>1, CopiedKept DEF IInv, ReceiptStep
  <2>3. Request'
    BY <1>0, RequestKept DEF IInv, ReceiptStep
  <2> QED
    BY <1>0, <2>1, <2>2, <2>3
<1>2. (\A s \in Replicas : Claimed(s)') /\ Leased' /\ Rotation' /\ SoleUser'
  <2>1. CASE row' = row
    <3>1. \A s \in Replicas : Claimed(s)'
      BY <1>0, <2>1, ClaimedKept DEF IInv, Still
    <3>2. Leased'
      BY <1>0, <2>1, LeasedKept DEF Still
    <3>3. Rotation'
      BY <1>0, <2>1 DEF Rotation, DeviceOnward
    <3>4. SoleUser'
      BY <1>0 DEF SoleUser, Using
    <3> QED
      BY <3>1, <3>2, <3>3, <3>4
  <2>2. CASE row.phase \in Unclaimed
    BY <1>0, <2>2, EarlyRow, UnclaimedKept
  <2>3. CASE /\ sup.pc \notin {"unpublished", "done"} /\ row'.phase \notin Candidacy
             /\ row'.epoch = row.epoch
    <3>1. \A s \in Replicas : worker[s].pc \notin Claiming
      BY <2>3 DEF IInv, Worker, Claiming
    <3>2. \A s \in Replicas : Claimed(s)'
      BY <1>0, <3>1 DEF Claimed, Claiming, Owning
    <3>3. ~rotated
      BY <1>0, <2>3 DEF Rotation
    <3>4. row.phase \notin Candidacy
      BY <2>3 DEF IInv, Receipt
    <3>5. Leased'
      BY <1>0, <2>3, <3>1, <3>4 DEF Leased, ReceiptStep, Onward
    <3> QED
      BY <1>0, <3>2, <3>3, <3>5 DEF Rotation, SoleUser, Using
  <2> QED
    BY <2>1, <2>2, <2>3
<1> QED
  BY <1>0, <1>1, <1>2, Untouched DEF TypeOK

LEMMA SupIs ==
  ASSUME TypeOK, NEW op \in Ops,
         NEW pc \in {"none", "start", "spawned", "poll", "exited", "settle",
                     "canceling", "unpublished", "done"},
         NEW outcome \in {"success", "canceled", "failed"}
  PROVE  /\ SupEnd(pc, op, outcome) =>
              sup' \in Sups /\ sup'.pc = pc /\ sup'.op = op /\ sup'.outcome = outcome
         /\ SupGo(pc, op) =>
              sup' \in Sups /\ sup'.pc = pc /\ sup'.op = op /\ sup'.outcome = sup.outcome
         /\ SupDone(outcome) =>
              sup' \in Sups /\ sup'.pc = "done" /\ sup'.op = NoOp /\ sup'.outcome = outcome
<1>1. SupEnd(pc, op, outcome) =>
        sup' \in Sups /\ sup'.pc = pc /\ sup'.op = op /\ sup'.outcome = outcome
  BY DEF SupEnd, Sups
<1>2. SupGo(pc, op) =>
        sup' \in Sups /\ sup'.pc = pc /\ sup'.op = op /\ sup'.outcome = sup.outcome
  <2>1. PICK v \in Sups : v = sup
    BY DEF TypeOK
  <2> QED
    BY <2>1 DEF SupGo, Sups
<1>3. SupDone(outcome) =>
        sup' \in Sups /\ sup'.pc = "done" /\ sup'.op = NoOp /\ sup'.outcome = outcome
  BY Constants DEF SupDone, SupEnd, Sups
<1> QED
  BY <1>1, <1>2, <1>3

\* The supervisor ends.
LEMMA SupEnds ==
  ASSUME IInv, SupUnchanged, sup.pc \notin {"none", "done"},
         sup' \in Sups, sup'.pc = "done", sup'.op = NoOp,
         native' \in {native, Exited}, UNCHANGED <<home, granted>>,
         ReceiptStep, row'.identified => row'.grant \/ row'.phase = "completed",
         \/ row' = row
         \/ row.phase \in Unclaimed
         \/ sup.pc # "unpublished" /\ row'.phase \notin Candidacy /\ row'.epoch = row.epoch,
         native' = Exited \/ sup.pc \notin {"spawned", "poll"}
  PROVE  IInv' /\ Ordered
<1>1. TypeOK /\ Device /\ Supervisor /\ DeviceOnward
  BY DEF IInv, DeviceOnward
<1>2. native' \in {"none", "exited"}
  BY <1>1 DEF TypeOK, Device, Exited
<1>3. Device' /\ Supervisor'
  BY <1>1, <1>2 DEF Device, Supervisor, ReceiptStep, Ordered, After
<1>4. Copied(sup.op)'
  BY Constants DEF Copied
<1> QED
  BY <1>1, <1>2, <1>3, <1>4, SupStep DEF TypeOK

\* The receipt, when the supervisor only reads it and goes on.
LEMMA SupReads ==
  ASSUME IInv, row' \in {row, Expired}, DeviceOnward, sup.pc \notin {"none", "done"},
         UNCHANGED <<home, granted, rotated>>,
         row.phase \in {"failed", "canceled"} => sup'.pc \in {"none", "unpublished", "done"}
  PROVE  /\ row' \in Rows /\ Onward /\ Ordered
         /\ row'.identified => row'.grant \/ row'.phase = "completed"
         /\ row' = row \/ row.phase \in Unclaimed
         /\ ReceiptStep
<1>0. TypeOK /\ row \in Rows /\ Receipt
  BY DEF IInv, TypeOK
<1>1. CASE row' = row
  <2>1. ReceiptStep
    BY <1>0, <1>1, ReceiptMarked DEF ReceiptStep, Receipt
  <2> QED
    BY <1>0, <1>1, <2>1 DEF TypeOK, ReceiptStep
<1>2. CASE row' = Expired
  <2>1. ReceiptStep
    BY <1>2, ReceiptExpired DEF ReceiptStep
  <2>2. /\ row'.identified = row.identified /\ row'.grant = row.grant
        /\ row' = row \/ row.phase \in Polling
    BY <1>0, <1>2, ExpiredIs
  <2> QED
    BY <1>0, <2>1, <2>2 DEF TypeOK, ReceiptStep, Unclaimed, Polling
<1> QED
  BY <1>1, <1>2

LEMMA SupStartInv ==
  ASSUME IInv, SupStart
  PROVE  IInv' /\ Ordered
<1>0. /\ TypeOK /\ Receipt /\ Device /\ Supervisor /\ row \in Rows /\ sup.pc = "start"
      /\ sup.op \in Ops /\ sup.outcome \in {"success", "canceled", "failed"}
      /\ UNCHANGED <<home, granted, rotated>> /\ SupUnchanged
  BY DEF IInv, SupStart, SupUnchanged, TypeOK, Sups
<1>1. PICK op \in Ops : op = sup.op
  BY <1>0
<1>2. op.epoch = 1 /\ native = "none" /\ home = "empty" /\ ~granted /\ row.phase # "none"
  BY <1>0, <1>1 DEF Supervisor, Device
<1>3. CASE row' \in {row, Expired} /\ SupDone("failed") /\ UNCHANGED native
  <2>1. sup' \in Sups /\ sup'.pc = "done" /\ sup'.op = NoOp
    BY <1>0, <1>3, Constants, SupIs
  <2>2. DeviceOnward
    BY <1>0, <2>1 DEF DeviceOnward
  <2> QED
    BY <1>0, <1>3, <2>1, <2>2, SupReads, SupEnds
<1>4. ASSUME row.phase = "starting", ~row.clear, Heartbeat(op), UNCHANGED row,
             NEW pc \in {"settle", "spawned"}, sup' \in Sups, sup'.pc = pc, sup'.op = OpOf(row),
             native' = IF pc = "spawned" THEN "running" ELSE native
      PROVE  IInv' /\ Ordered
  <2>1. DeviceOnward
    BY <1>0, <1>4 DEF DeviceOnward
  <2>2. /\ ReceiptStep /\ (row'.identified => row'.grant \/ row'.phase = "completed")
    BY <1>0, <1>4, <2>1, SupReads
  <2>3. PICK o \in Ops : o = OpOf(row)
    BY <1>0, RowOp
  <2>4. /\ o.epoch = row.epoch /\ o.holder = row.holder /\ o.seq = row.seq
        /\ o.phase = row.phase /\ o.grant = row.grant /\ o.clear = row.clear
    BY <1>0, <2>3, RowOp
  <2>5. Copied(o)'
    BY <1>0, <1>4, <2>2, <2>4, CopiedAfter DEF ReceiptStep
  <2>6. Copied(sup.op)'
    BY <1>4, <2>3, <2>5
  <2>7. o.epoch = 1 /\ o.phase = "starting"
    BY <1>2, <1>4, <2>4 DEF Heartbeat, Mine
  <2>8. Supervisor'
    BY <1>2, <1>4, <2>3, <2>7 DEF Supervisor, Polling
  <2>9. Device'
    BY <1>0, <1>2, <1>4 DEF Device
  <2> QED
    BY <1>0, <1>2, <1>4, <2>1, <2>2, <2>6, <2>8, <2>9, SupStep DEF TypeOK
<1>5. CASE /\ row.phase = "starting" /\ ~row.clear /\ Heartbeat(op) /\ UNCHANGED <<row, native>>
           /\ SupEnd("settle", OpOf(row), "canceled") \/ SupGo("settle", OpOf(row))
  <2>1. sup' \in Sups /\ sup'.pc = "settle" /\ sup'.op = OpOf(row)
    BY <1>0, <1>5, RowOp, SupIs
  <2> QED
    BY <1>4, <1>5, <2>1
<1>6. CASE /\ row.phase = "starting" /\ ~row.clear /\ Heartbeat(op) /\ UNCHANGED row
           /\ native' = "running" /\ SupGo("spawned", OpOf(row))
  <2>1. sup' \in Sups /\ sup'.pc = "spawned" /\ sup'.op = OpOf(row)
    BY <1>0, <1>6, RowOp, SupIs
  <2> QED
    BY <1>4, <1>6, <2>1
<1> QED
  BY <1>1, <1>3, <1>5, <1>6 DEF SupStart

\* The login issues a grant while its supervisor waits for it.
LEMMA NativeGrantInv ==
  ASSUME IInv, NativeGrant
  PROVE  IInv' /\ Ordered
<1>0. /\ TypeOK /\ Receipt /\ Device /\ Supervisor /\ row \in Rows
      /\ sup.pc \in {"spawned", "poll"} /\ sup.op \in Ops
      /\ home' \in {"grant", "unreadable"} /\ granted' = TRUE
      /\ UNCHANGED <<row, sup, native, rotated>> /\ SupUnchanged
  BY DEF IInv, NativeGrant, SupUnchanged, TypeOK, Sups, Device
<1>1. DeviceOnward
  BY <1>0 DEF DeviceOnward
<1>2. ReceiptStep /\ (row'.identified => row'.grant \/ row'.phase = "completed")
  BY <1>0, <1>1, ReceiptMarked DEF ReceiptStep, Receipt, TypeOK
<1>3. Copied(sup.op)'
  <2>1. PICK o \in Ops : o = sup.op
    BY <1>0
  <2>2. Copied(o)'
    BY <1>0, <1>1, <1>2, <2>1, CopiedKept DEF IInv, ReceiptStep
  <2> QED
    BY <1>0, <2>1, <2>2
<1>4. Device' /\ Supervisor'
  BY <1>0 DEF Device, Supervisor
<1> QED
  BY <1>0, <1>1, <1>2, <1>3, <1>4, SupStep DEF TypeOK

\* The supervisor goes on with the copy it has.
LEMMA SupGoes ==
  ASSUME IInv, SupUnchanged, sup.pc \notin {"none", "done", "canceling", "unpublished"},
         sup' \in Sups, sup'.op = sup.op,
         sup'.pc \in {"poll", "exited", "unpublished"}, UNCHANGED <<row, home, granted>>,
         native' \in {"none", "running", "recorded", "exited"},
         native' \in {"running", "recorded"} => sup'.pc = "poll"
  PROVE  IInv' /\ Ordered
<1>0. /\ TypeOK /\ Receipt /\ Device /\ Supervisor /\ sup.op \in Ops /\ rotated' = rotated
  BY DEF IInv, TypeOK, Sups, SupUnchanged
<1>1. DeviceOnward
  BY DEF DeviceOnward
<1>2. ReceiptStep /\ (row'.identified => row'.grant \/ row'.phase = "completed")
  BY <1>0, <1>1, SupReads DEF Receipt
<1>3. Copied(sup.op)'
  <2>1. PICK o \in Ops : o = sup.op
    BY <1>0
  <2>2. Copied(o)'
    BY <1>0, <1>1, <1>2, <2>1, CopiedKept DEF IInv, ReceiptStep
  <2> QED
    BY <2>1, <2>2
<1>4. Device' /\ Supervisor'
  BY <1>0 DEF Device, Supervisor
<1> QED
  BY <1>0, <1>1, <1>2, <1>3, <1>4, SupStep DEF TypeOK

LEMMA SupRecordInv ==
  ASSUME IInv, SupRecord
  PROVE  IInv' /\ Ordered
<1>0. /\ TypeOK /\ sup.pc = "spawned" /\ sup.op \in Ops
      /\ UNCHANGED <<row, home, granted>> /\ SupUnchanged
  BY DEF IInv, SupRecord, SupUnchanged, TypeOK, Sups
<1>1. CASE native' = "recorded" /\ SupGo("poll", sup.op)
  <2>1. sup' \in Sups /\ sup'.pc = "poll" /\ sup'.op = sup.op
    BY <1>0, <1>1, SupIs
  <2> QED
    BY <1>0, <1>1, <2>1, SupGoes
<1>2. CASE /\ native' = Exited
           /\ \E outcome \in {"success", "failed"} : SupEnd("exited", sup.op, outcome)
  <2>1. sup' \in Sups /\ sup'.pc = "exited" /\ sup'.op = sup.op
    BY <1>0, <1>2, SupIs
  <2> QED
    BY <1>0, <1>2, <2>1, SupGoes DEF Exited
<1> QED
  BY <1>1, <1>2 DEF SupRecord

\* What a save by the supervisor finds.
LEMMA SupSavable ==
  ASSUME IInv, NEW op \in Ops, sup.pc \notin {"none", "unpublished", "done"}, Savable(op),
         op.epoch = sup.op.epoch, op.holder = sup.op.holder, op.seq = sup.op.seq,
         op.phase = sup.op.phase
  PROVE  /\ op.epoch = 1 /\ row.epoch = 1 /\ ~rotated
         /\ row.phase \in Polling \cup {"unresolved"}
         /\ op.phase \in Polling => row.phase = op.phase
         /\ op.phase \in Polling \cup {"unresolved"}
<1>1. /\ op.epoch = 1 /\ op.epoch = row.epoch /\ op.seq = row.seq /\ row.phase \notin Terminal
      /\ row.live
  BY DEF IInv, Supervisor, Savable, Unchanged, Mine
<1>2. op.phase \in {row.phase, "unresolved"}
  BY <1>1 DEF IInv, Copied
<1>3. row.phase # "none" /\ row.phase \notin Candidacy /\ row \in Rows /\ ~rotated
  BY DEF IInv, Supervisor, Receipt, TypeOK, Rotation
<1>4. row.phase \in Polling \cup {"unresolved"}
  BY <1>1, <1>3 DEF Rows, Phases, Running, Candidacy
<1> QED
  BY <1>1, <1>2, <1>3, <1>4 DEF Polling

\* The copy that was saved is one of the receipt it was saved to.
LEMMA CopiedSaved ==
  ASSUME IInv, NEW op \in Ops, NEW phase \in Phases, Copied(op), op.epoch > 0, Savable(op),
         row' = Saved(op, phase), ReceiptStep, DeviceOnward
  PROVE  SavedOp(op, phase) \in Ops /\ Copied(SavedOp(op, phase))'
<1>0. TypeOK
  BY DEF IInv
<1>1. PICK o \in Ops : o = SavedOp(op, phase)
  BY SavedOpIs
<1>2. /\ o.phase = phase /\ o.seq = op.seq + 1 /\ o.epoch = op.epoch
      /\ o.holder = op.holder /\ o.grant = op.grant /\ o.clear = op.clear
  BY <1>1, SavedOpIs
<1>3. /\ row'.phase = phase /\ row'.seq = row.seq + 1 /\ row'.epoch = row.epoch
      /\ row'.holder = row.holder /\ row'.grant = op.grant
  BY <1>0, SavedIs
<1>4. /\ o.epoch = row'.epoch /\ o.holder = row'.holder /\ o.seq = row'.seq
      /\ o.phase = row'.phase /\ o.grant = row'.grant
  BY <1>2, <1>3 DEF Savable, Unchanged, Mine
<1>5. o.epoch \in Nat /\ o.seq \in Nat
  BY DEF Ops
<1>6. o.clear => ~granted' /\ sup'.pc \in {"canceling", "done"}
  BY <1>2 DEF Copied, DeviceOnward
<1>7. (o.grant => granted') /\ (o.phase \in Candidacy => o.grant)
  BY <1>4 DEF ReceiptStep, Receipt
<1>8. Copied(o)'
  BY <1>4, <1>5, <1>6, <1>7 DEF Copied, Ended
<1> QED
  BY <1>1, <1>8

LEMMA SupPollInv ==
  ASSUME IInv, SupPoll
  PROVE  IInv' /\ Ordered
<1>0. /\ TypeOK /\ Receipt /\ Device /\ Supervisor /\ sup.pc = "poll" /\ sup.op \in Ops
      /\ sup.outcome \in {"success", "canceled", "failed"}
      /\ Copied(sup.op) /\ UNCHANGED <<home, granted, rotated>> /\ SupUnchanged
  BY DEF IInv, SupPoll, SupUnchanged, TypeOK, Sups
<1>1. PICK op \in Ops : op = sup.op
  BY <1>0
<1>2. CASE /\ native' = Exited /\ UNCHANGED row
           /\ \E outcome \in {"success", "failed"} : SupEnd("exited", sup.op, outcome)
  <2>1. sup' \in Sups /\ sup'.pc = "exited" /\ sup'.op = sup.op
    BY <1>0, <1>2, SupIs
  <2> QED
    BY <1>0, <1>2, <2>1, SupGoes DEF Exited
<1>3. ASSUME op.phase = "starting", Savable(op), row' = Saved(op, "pending"), DeviceOnward
      PROVE  /\ ReceiptStep /\ (row'.identified => row'.grant \/ row'.phase = "completed")
             /\ row.phase \in Unclaimed
  <2>1. op.epoch = 1 /\ row.phase = "starting"
    BY <1>0, <1>1, <1>3, SupSavable DEF Polling
  <2>2. ReceiptStep
    BY <1>0, <1>1, <1>3, <2>1, ReceiptSaved DEF ReceiptStep
  <2>3. row'.identified => row'.grant
    BY <1>0, <1>3, SavedIs DEF Phases, Running, Polling
  <2> QED
    BY <2>1, <2>2, <2>3 DEF Unclaimed, Polling
<1>4. CASE /\ op.phase = "starting" /\ Savable(op) /\ row' = Saved(op, "pending")
           /\ SupGo("poll", SavedOp(op, "pending")) /\ UNCHANGED native
  <2>1. "pending" \in Phases
    BY DEF Phases, Running, Polling
  <2>2. sup' \in Sups /\ sup'.pc = "poll" /\ sup'.op = SavedOp(op, "pending")
    BY <1>0, <1>4, <2>1, SavedOpIs, SupIs
  <2>3. DeviceOnward
    BY <1>0, <2>2 DEF DeviceOnward
  <2>4. /\ ReceiptStep /\ (row'.identified => row'.grant \/ row'.phase = "completed")
        /\ row.phase \in Unclaimed
    BY <1>3, <1>4, <2>3
  <2>5. op.epoch = 1
    BY <1>0, <1>1 DEF Supervisor
  <2>6. PICK o \in Ops : o = SavedOp(op, "pending") /\ Copied(o)' /\ o.epoch = 1
    BY <1>0, <1>1, <1>4, <2>1, <2>3, <2>4, <2>5, CopiedSaved, SavedOpIs
  <2>7. Copied(sup.op)' /\ sup'.op.epoch = 1
    BY <2>2, <2>6
  <2>8. Device' /\ Supervisor'
    BY <1>0, <1>4, <2>2, <2>4, <2>7 DEF Device, Supervisor, ReceiptStep, Ordered, After
  <2> QED
    BY <1>0, <1>4, <2>2, <2>3, <2>4, <2>7, <2>8, SupStep DEF TypeOK
<1>5. CASE /\ op.phase = "starting"
           /\ row' = row \/ (Savable(op) /\ row' = Saved(op, "pending"))
           /\ SupEnd("exited", op, "failed") /\ native' = Exited
  <2>1. sup' \in Sups /\ sup'.pc = "exited" /\ sup'.op = op
    BY <1>0, <1>5, SupIs
  <2>2. DeviceOnward
    BY <1>0, <2>1 DEF DeviceOnward
  <2>3. CASE row' = row
    BY <1>0, <1>1, <1>5, <2>1, <2>3, SupGoes DEF Exited
  <2>4. CASE Savable(op) /\ row' = Saved(op, "pending")
    <3>1. /\ ReceiptStep /\ (row'.identified => row'.grant \/ row'.phase = "completed")
          /\ row.phase \in Unclaimed
      BY <1>3, <1>5, <2>2, <2>4
    <3>2. Copied(op)'
      BY <1>0, <1>1, <2>2, <3>1, CopiedKept DEF ReceiptStep
    <3>3. Copied(sup.op)'
      BY <2>1, <3>2
    <3>4. native' \in {"none", "exited"}
      BY <1>0, <1>5 DEF Exited, TypeOK
    <3>5. Device' /\ Supervisor'
      BY <1>0, <1>1, <2>1, <3>1, <3>4 DEF Device, Supervisor, ReceiptStep, Ordered, After
    <3> QED
      BY <1>0, <2>1, <2>2, <3>1, <3>3, <3>4, <3>5, SupStep DEF TypeOK
  <2> QED
    BY <1>5, <2>3, <2>4
<1> QED
  BY <1>1, <1>2, <1>4, <1>5 DEF SupPoll, SupWrite

\* What the exit of the native login means depends on the receipt it is read with.
LEMMA SupReadInv ==
  ASSUME IInv, SupRead
  PROVE  IInv' /\ Ordered
<1> DEFINE live == row.phase \in Polling /\ row.live /\ Held(row.holder)
           outcome == CASE row.cancel /\ (live \/ browser) -> "canceled"
                        [] live /\ ~row.cancel -> sup.outcome
                        [] OTHER -> "failed"
<1>0. /\ TypeOK /\ Receipt /\ Device /\ Supervisor /\ sup.pc = "exited" /\ sup.op \in Ops
      /\ sup.outcome \in {"success", "canceled", "failed"} /\ row \in Rows
      /\ UNCHANGED <<native, home, granted, rotated>> /\ SupUnchanged
      /\ browser' = browser
  BY DEF IInv, SupRead, SupUnchanged, TypeOK, Sups
<1>1. row.phase \notin {"failed", "canceled"} /\ sup.op.epoch = 1
  BY <1>0 DEF Receipt, Supervisor
<1>2. CASE row' \in {row, Expired} /\ SupDone("failed")
  <2>1. sup' \in Sups /\ sup'.pc = "done" /\ sup'.op = NoOp
    BY <1>0, <1>2, Constants, SupIs
  <2>2. DeviceOnward
    BY <1>0, <2>1 DEF DeviceOnward
  <2> QED
    BY <1>0, <1>2, <2>1, <2>2, SupReads, SupEnds
<1>3. CASE /\ Mine(sup.op) /\ row' = Expired /\ SupEnd("settle", OpOf(Expired), outcome)
  <2>1. outcome \in {"success", "canceled", "failed"}
    BY <1>0
  <2>2. outcome = "success" \/ (outcome = "canceled" /\ ~browser) => row.phase \in Polling /\ row.live
    OBVIOUS
  <2> HIDE DEF live, outcome
  <2>3. PICK o \in Ops : o = OpOf(Expired)
    BY <1>0, ExpiredIs, RowOp
  <2>4. sup' \in Sups /\ sup'.pc = "settle" /\ sup'.op = o /\ sup'.outcome = outcome
    BY <1>0, <1>3, <2>1, <2>3, SupIs
  <2>5. DeviceOnward
    BY <1>0, <2>4 DEF DeviceOnward
  <2>6. /\ ReceiptStep /\ (row'.identified => row'.grant \/ row'.phase = "completed")
        /\ row' = row \/ row.phase \in Unclaimed
    BY <1>0, <1>1, <1>3, <2>5, SupReads
  <2>7. /\ o.epoch = row'.epoch /\ o.holder = row'.holder /\ o.seq = row'.seq
        /\ o.phase = row'.phase /\ o.grant = row'.grant /\ o.clear = row'.clear
    BY <1>0, <1>3, <2>3, ExpiredIs, RowOp
  <2>8. Copied(sup.op)'
    <3>1. Copied(o)'
      BY <2>6, <2>7, CopiedAfter DEF ReceiptStep
    <3> QED
      BY <2>4, <3>1
  <2>9. o.epoch = 1
    BY <1>0, <1>1, <1>3, <2>7, ExpiredIs DEF Mine
  <2>10. row.phase \in Polling /\ row.live => o.phase \in Polling
    BY <1>0, <1>3, <2>7 DEF Expired
  <2>11. Supervisor'
    BY <1>0, <2>2, <2>4, <2>6, <2>9, <2>10 DEF Supervisor, ReceiptStep, Ordered, After
  <2>12. Device'
    BY <1>0, <2>4 DEF Device
  <2> QED
    BY <1>0, <2>4, <2>5, <2>6, <2>8, <2>11, <2>12, SupStep DEF TypeOK
<1> QED
  BY <1>2, <1>3 DEF SupRead

LEMMA SupCancelInv ==
  ASSUME IInv, SupCancel
  PROVE  IInv' /\ Ordered
<1>0. /\ TypeOK /\ Receipt /\ Device /\ Supervisor /\ sup.pc = "canceling" /\ sup.op \in Ops
      /\ sup.op.phase \in Polling /\ ~granted /\ Copied(sup.op) /\ sup.op.epoch = 1
      /\ UNCHANGED <<native, home, granted, rotated>> /\ SupUnchanged
  BY DEF IInv, SupCancel, SupUnchanged, TypeOK, Sups, Supervisor
<1>1. PICK op \in Ops : op = sup.op
  BY <1>0
<1>2. /\ row' = row \/ (Savable(op) /\ row' = Saved(op, "canceled"))
      /\ SupDone("success") \/ SupDone("failed")
  BY <1>1 DEF SupCancel, SupWrite
<1>3. sup' \in Sups /\ sup'.pc = "done" /\ sup'.op = NoOp
  BY <1>0, <1>2, Constants, SupIs
<1>4. DeviceOnward
  BY <1>0, <1>3 DEF DeviceOnward
<1>5. CASE row' = row
  BY <1>0, <1>3, <1>4, <1>5, SupReads, SupEnds
<1>6. CASE Savable(op) /\ row' = Saved(op, "canceled")
  <2>1. row.phase \in Polling
    BY <1>0, <1>1, <1>6, SupSavable
  <2>2. ReceiptStep
    BY <1>0, <1>1, <1>3, <1>4, <1>6, <2>1, ReceiptSaved DEF ReceiptStep
  <2>3. row'.identified => row'.grant
    BY <1>0, <1>6, SavedIs DEF Phases, Terminal
  <2> QED
    BY <1>0, <1>3, <2>1, <2>2, <2>3, SupEnds DEF Unclaimed
<1> QED
  BY <1>2, <1>5, <1>6

LEMMA SupDiesInv ==
  ASSUME IInv, SupDies
  PROVE  IInv' /\ Ordered
<1>0. /\ TypeOK /\ sup.pc \notin {"none", "done"}
      /\ native' = Exited /\ UNCHANGED <<row, home, granted, rotated>> /\ SupUnchanged
  BY DEF IInv, SupDies, SupUnchanged
<1>1. sup' \in Sups /\ sup'.pc = "done" /\ sup'.op = NoOp
  <2>1. SupDone("failed")
    BY DEF SupDies
  <2> QED
    BY <1>0, <2>1, Constants, SupIs
<1>2. DeviceOnward
  BY <1>0, <1>1 DEF DeviceOnward
<1> QED
  BY <1>0, <1>1, <1>2, SupReads, SupEnds

\* The receipt that no grant was issued: a browser's login ends with it.
LEMMA ReceiptAbsent ==
  ASSUME IInv, row.phase \in Polling \cup {"replica_lost"}, ~row.identified, ~granted,
         UNCHANGED <<browser, home, granted, rotated>>, NEW canceled \in BOOLEAN,
         row' = Absent(canceled), sup'.pc \in {"canceling", "done"}, DeviceOnward,
         browser => sup'.pc = "done"
  PROVE  /\ ReceiptStep /\ row'.epoch = row.epoch
         /\ row'.identified => row'.grant \/ row'.phase = "completed"
<1>0. /\ TypeOK /\ Receipt /\ GrantKept /\ FailureTruthful /\ row \in Rows
      /\ row.epoch \in Nat /\ row.seq \in Nat /\ row.seq + 1 \in Nat /\ row.phase # "none"
  BY DEF IInv, TypeOK, Rows, Polling
<1>1. CASE browser
  <2>0. PICK phase \in {"canceled", "failed"} : phase = IF canceled THEN "canceled" ELSE "failed"
    OBVIOUS
  <2>1. row' = [row EXCEPT !.phase = phase, !.clear = TRUE, !.seq = @ + 1]
    BY <1>1, <2>0 DEF Absent
  <2>2. /\ row'.phase = phase /\ row'.seq = row.seq + 1 /\ row'.clear
        /\ row'.holder = row.holder /\ row'.epoch = row.epoch
    BY <1>0, <2>1 DEF Rows
  <2>3. /\ row'.grant = row.grant /\ row'.identified = row.identified
        /\ row'.reported = row.reported
    BY <1>0, <2>1 DEF Rows
  <2>4. row' \in Rows
    BY <1>0, <2>1 DEF Rows, Phases, Terminal
  <2>5. Onward
    BY <1>0, <2>2, <2>3 DEF Onward, Ended, Decided, Terminal, Polling
  <2>6. Ordered
    BY <1>1, <2>2 DEF Ordered, After, Polling
  <2>7. Receipt'
    BY <1>0, <1>1, <2>2, <2>3 DEF Receipt, Candidacy, Ended, Terminal
  <2>8. GrantKept' /\ FailureTruthful'
    BY <1>0, <2>2, <2>3 DEF GrantKept, FailureTruthful
  <2> QED
    BY <2>2, <2>3, <2>4, <2>5, <2>6, <2>7, <2>8 DEF ReceiptStep
<1>2. CASE ~browser
  <2>1. row' = [row EXCEPT !.clear = TRUE]
    BY <1>2 DEF Absent
  <2>2. /\ row' \in Rows /\ row'.phase = row.phase /\ row'.holder = row.holder
        /\ row'.epoch = row.epoch /\ row'.seq = row.seq
    BY <1>0, <2>1 DEF Rows
  <2>3. /\ row'.grant = row.grant /\ row'.identified = row.identified /\ row'.clear
        /\ row'.reported = row.reported
    BY <1>0, <2>1 DEF Rows
  <2>4. row.phase \notin {"failed", "canceled"}
    BY DEF Polling
  <2>5. ReceiptStep
    BY <1>0, <2>2, <2>3, <2>4, ReceiptMarked DEF ReceiptStep
  <2> QED
    BY <2>2, <2>3, <2>5
<1> QED
  BY <1>0, <1>1, <1>2 DEF TypeOK

LEMMA SupSettleInv ==
  ASSUME IInv, SupSettle
  PROVE  IInv' /\ Ordered
<1>0. /\ TypeOK /\ Receipt /\ Device /\ Supervisor /\ sup.pc = "settle" /\ sup.op \in Ops
      /\ sup.outcome \in {"success", "canceled", "failed"} /\ Copied(sup.op) /\ sup.op.epoch = 1
      /\ UNCHANGED <<native, home, granted, rotated, browser>> /\ SupUnchanged
      /\ native \notin {"running", "recorded"}
  BY DEF IInv, SupSettle, SupUnchanged, TypeOK, Sups, Supervisor, Device
<1>1. PICK old \in Ops : old = sup.op
  BY <1>0
<1>2. PICK canceled \in BOOLEAN : canceled = (sup.outcome = "canceled")
  OBVIOUS
<1>3. CASE /\ home = "empty"
           /\ row' = row \/ (Absentable(old) /\ row' = Absent(canceled))
           /\ \/ SupDone("success") \/ SupDone(sup.outcome) \/ SupDone("failed")
              \/ canceled /\ ~browser /\ SupGo("canceling", old)
  <2>1. /\ sup' \in Sups /\ sup'.pc \in {"canceling", "done"}
        /\ sup'.pc = "done" => sup'.op = NoOp
        /\ sup'.pc = "canceling" => canceled /\ ~browser /\ sup'.op = old
    BY <1>0, <1>3, Constants, SupIs
  <2>2. DeviceOnward /\ ~granted
    BY <1>0, <1>3, <2>1 DEF DeviceOnward, Device
  <2>3. /\ ReceiptStep /\ (row'.identified => row'.grant \/ row'.phase = "completed")
        /\ row' = row \/ row.phase \in Unclaimed
    <3>1. CASE row' = row
      <4>1. row.phase \notin {"failed", "canceled"}
        BY <1>0 DEF Receipt
      <4> QED
        BY <1>0, <2>2, <3>1, <4>1, SupReads
    <3>2. CASE Absentable(old) /\ row' = Absent(canceled)
      <4>1. row.phase \in Polling \cup {"replica_lost"} /\ ~row.identified
        BY <3>2 DEF Absentable, Unlost
      <4> QED
        BY <1>0, <2>1, <2>2, <3>2, <4>1, ReceiptAbsent DEF Unclaimed
    <3> QED
      BY <1>3, <3>1, <3>2
  <2>4. CASE sup'.pc = "done"
    BY <1>0, <2>1, <2>3, <2>4, SupEnds
  <2>5. CASE sup'.pc = "canceling"
    <3>1. old.phase \in Polling
      BY <1>0, <1>1, <1>2, <2>1, <2>5 DEF Supervisor
    <3>2. Copied(old)'
      BY <1>0, <1>1, <2>2, <2>3, CopiedKept DEF ReceiptStep
    <3>3. Copied(sup.op)'
      BY <2>1, <2>5, <3>2
    <3>4. Device' /\ Supervisor'
      BY <1>0, <1>1, <2>1, <2>2, <2>3, <2>5, <3>1 DEF Device, Supervisor, ReceiptStep, Ordered, After
    <3> QED
      BY <1>0, <2>1, <2>2, <2>3, <3>3, <3>4, SupStep DEF TypeOK
  <2> QED
    BY <2>1, <2>4, <2>5
<1>4. CASE /\ home = "grant"
           /\ LET phase == IF sup.outcome = "success" THEN "candidate" ELSE "rejected"
                  op == [old EXCEPT !.grant = TRUE]
              IN  /\ row' = row \/ (Savable(op) /\ row' = Saved(op, phase))
                  /\ \/ SupDone(sup.outcome)
                     \/ SupGo("unpublished", op)
  <2>1. PICK phase \in {"candidate", "rejected"} :
          phase = IF sup.outcome = "success" THEN "candidate" ELSE "rejected"
    OBVIOUS
  <2>2. PICK op \in Ops : op = [old EXCEPT !.grant = TRUE]
    BY DEF Ops
  <2>3. /\ op.epoch = old.epoch /\ op.holder = old.holder /\ op.seq = old.seq
        /\ op.clear = old.clear /\ op.phase = old.phase
    BY <2>2 DEF Ops
  <2>4. op.grant /\ granted
    BY <1>0, <1>4, <2>2 DEF Ops, Device
  <2>5. Copied(op)
    BY <1>0, <1>1, <2>3, <2>4 DEF Copied
  <2>6. /\ row' = row \/ (Savable(op) /\ row' = Saved(op, phase))
        /\ SupDone(sup.outcome) \/ SupGo("unpublished", op)
    BY <1>4, <2>1, <2>2
  <2>7. /\ sup' \in Sups /\ sup'.pc \in {"unpublished", "done"}
        /\ sup'.pc = "done" => sup'.op = NoOp
        /\ sup'.pc = "unpublished" => sup'.op = op
    BY <1>0, <2>6, Constants, SupIs
  <2>8. DeviceOnward
    BY <1>0, <2>7 DEF DeviceOnward
  <2>9. /\ ReceiptStep /\ (row'.identified => row'.grant \/ row'.phase = "completed")
        /\ \/ row' = row
           \/ row.phase \in Unclaimed
           \/ row'.phase \notin Candidacy /\ row'.epoch = row.epoch
    <3>1. CASE row' = row
      BY <1>0, <2>7, <2>8, <3>1, SupReads
    <3>2. CASE Savable(op) /\ row' = Saved(op, phase)
      <4>1. /\ ~rotated /\ row.phase \in Polling \cup {"unresolved"}
            /\ op.phase \in Polling => row.phase = op.phase
        BY <1>0, <1>1, <2>3, <3>2, SupSavable
      <4>2. phase = "candidate" => row.phase \in Polling
        BY <1>0, <1>1, <2>1, <2>3, <4>1 DEF Supervisor
      <4>3. phase \in Phases
        BY DEF Phases, Running, Terminal
      <4>4. row'.phase = phase /\ row'.epoch = row.epoch /\ (row'.identified => row'.grant)
        BY <1>0, <3>2, <4>3, SavedIs
      <4>5. op.epoch > 0
        BY <1>0, <1>1, <2>3
      <4>6. ReceiptStep
        BY <1>0, <2>4, <2>5, <2>7, <2>8, <3>2, <4>1, <4>2, <4>5, ReceiptSaved DEF ReceiptStep
      <4> QED
        BY <4>2, <4>4, <4>6 DEF Unclaimed, Candidacy
    <3> QED
      BY <2>6, <3>1, <3>2
  <2>10. CASE sup'.pc = "done"
    BY <1>0, <2>7, <2>9, <2>10, SupEnds
  <2>11. CASE sup'.pc = "unpublished"
    <3>1. Copied(op)'
      BY <1>0, <2>5, <2>8, <2>9, CopiedKept DEF ReceiptStep
    <3>2. Copied(sup.op)'
      BY <2>7, <2>11, <3>1
    <3>3. Device' /\ Supervisor'
      BY <1>0, <1>1, <2>3, <2>7, <2>9, <2>11 DEF Device, Supervisor, ReceiptStep, Ordered, After
    <3> QED
      BY <1>0, <2>7, <2>8, <2>9, <3>2, <3>3, SupStep DEF TypeOK
  <2> QED
    BY <2>7, <2>10, <2>11
<1>5. CASE SupGo("unpublished", old) /\ UNCHANGED row
  <2>1. sup' \in Sups /\ sup'.pc = "unpublished" /\ sup'.op = sup.op
    BY <1>0, <1>1, <1>5, SupIs
  <2> QED
    BY <1>0, <1>5, <2>1, SupGoes DEF TypeOK
<1>6. SupSettle =>
        \/ /\ home = "empty"
           /\ row' = row \/ (Absentable(old) /\ row' = Absent(canceled))
           /\ \/ SupDone("success") \/ SupDone(sup.outcome) \/ SupDone("failed")
              \/ canceled /\ ~browser /\ SupGo("canceling", old)
        \/ /\ home = "grant"
           /\ LET phase == IF sup.outcome = "success" THEN "candidate" ELSE "rejected"
                  op == [old EXCEPT !.grant = TRUE]
              IN  /\ row' = row \/ (Savable(op) /\ row' = Saved(op, phase))
                  /\ \/ SupDone(sup.outcome)
                     \/ SupGo("unpublished", op)
        \/ SupGo("unpublished", old) /\ UNCHANGED row
  BY <1>1, <1>2 DEF SupSettle, SupWrite
<1> QED
  BY <1>3, <1>4, <1>5, <1>6

\* A grant that could not be published is left to the shared receipt.
LEMMA SupUnpublishedInv ==
  ASSUME IInv, SupUnpublished
  PROVE  IInv' /\ Ordered
<1>0. /\ TypeOK /\ Receipt /\ GrantKept /\ FailureTruthful /\ Supervisor
      /\ sup.pc = "unpublished" /\ sup.op \in Ops
      /\ Copied(sup.op) /\ sup.op.epoch = 1 /\ row \in Rows
      /\ row.epoch \in Nat /\ row.seq \in Nat /\ row.seq + 1 \in Nat
      /\ UNCHANGED <<native, home, granted, rotated>> /\ SupUnchanged
  BY DEF IInv, SupUnpublished, SupUnchanged, TypeOK, Sups, Supervisor, Rows
<1>1. PICK op \in Ops : op = sup.op
  BY <1>0
<1>2. /\ SupDone("failed")
      /\ \/ row' = row
         \/ /\ Unchanged(op) /\ Unlost
            /\ row' = [row EXCEPT !.phase = "unresolved", !.seq = @ + 1, !.grant = op.grant]
  BY <1>1 DEF SupUnpublished, SupWrite
<1>3. sup' \in Sups /\ sup'.pc = "done" /\ sup'.op = NoOp
  BY <1>0, <1>2, Constants, SupIs
<1>4. DeviceOnward
  BY <1>0, <1>3 DEF DeviceOnward
<1>5. CASE row' = row
  BY <1>0, <1>3, <1>4, <1>5, SupReads, SupEnds
<1>6. CASE /\ Unchanged(op) /\ Unlost
           /\ row' = [row EXCEPT !.phase = "unresolved", !.seq = @ + 1, !.grant = op.grant]
  <2>1. /\ row'.phase = "unresolved" /\ row'.seq = row.seq + 1 /\ row'.epoch = row.epoch
        /\ row'.holder = row.holder
    BY <1>0, <1>6 DEF Rows
  <2>2. /\ row'.grant = op.grant /\ row'.identified = row.identified
        /\ row'.clear = row.clear /\ row'.reported = row.reported
    BY <1>0, <1>6 DEF Rows
  <2>3. row' \in Rows
    BY <1>0, <1>6 DEF Rows, Phases, Ops
  <2>4. /\ row.phase \in Polling \cup {"replica_lost"} /\ ~row.identified
        /\ op.epoch = row.epoch /\ op.seq = row.seq /\ (row.grant => op.grant)
        /\ op.grant => granted
    BY <1>0, <1>1, <1>6 DEF Unlost, Unchanged, Mine, Copied
  <2>5. Onward /\ Ordered
    BY <1>0, <2>1, <2>2, <2>4 DEF Onward, Ordered, After, Ended, Decided, Terminal, Polling
  <2>6. Receipt'
    BY <1>0, <1>3, <1>4, <2>1, <2>2, <2>4 DEF Receipt, Candidacy, Ended, Polling
  <2>7. GrantKept' /\ FailureTruthful'
    BY <1>0, <2>1, <2>2, <2>4 DEF GrantKept, FailureTruthful, Polling
  <2>8. ReceiptStep
    BY <2>3, <2>5, <2>6, <2>7 DEF ReceiptStep
  <2> QED
    BY <1>0, <1>3, <2>2, <2>4, <2>8, SupEnds DEF Unclaimed
<1> QED
  BY <1>2, <1>5, <1>6

-----------------------------------------------------------------------------
(* The requests.                                                           *)

\* A request that leaves what is claimed as it is.
LEMMA RequestStep ==
  ASSUME IInv, PollUnchanged, UNCHANGED worker, ReceiptStep, DeviceOnward,
         row'.identified => row'.grant \/ row'.phase = "completed",
         \/ row'.phase = row.phase /\ row'.epoch = row.epoch
         \/ row.phase \in Unclaimed,
         poll' \in Polls, Request', Copied(poll.op)'
  PROVE  IInv' /\ Ordered
<1>0. /\ TypeOK /\ Leased /\ Rotation /\ SoleUser /\ Device /\ Supervisor
      /\ UNCHANGED <<holders, lease, browser, current, worker, sup, native, home,
                     granted, refresh, rotated>>
  BY DEF IInv, PollUnchanged, device
<1>1. Copied(sup.op)'
  <2>1. PICK o \in Ops : o = sup.op
    BY <1>0 DEF TypeOK, Sups
  <2>2. Copied(o)'
    BY <1>0, <2>1, CopiedKept DEF IInv, ReceiptStep
  <2> QED
    BY <1>0, <2>1, <2>2
<1>2. (\A s \in Replicas : Claimed(s)') /\ Leased' /\ Rotation' /\ SoleUser'
  <2>1. CASE row'.phase = row.phase /\ row'.epoch = row.epoch
    <3>1. row'.holder = row.holder
      BY <2>1 DEF ReceiptStep, Onward
    <3>2. \A s \in Replicas : Claimed(s)'
      BY <1>0, <2>1, <3>1, ClaimedKept DEF IInv, Still
    <3>3. Leased'
      BY <1>0, <2>1, <3>1, LeasedKept DEF Still
    <3>4. Rotation' /\ SoleUser'
      BY <1>0, <2>1 DEF Rotation, SoleUser, Using
    <3> QED
      BY <3>2, <3>3, <3>4
  <2>2. CASE row.phase \in Unclaimed
    BY <1>0, <2>2, EarlyRow, UnclaimedKept
  <2> QED
    BY <2>1, <2>2
<1>3. Device' /\ Supervisor'
  BY <1>0 DEF Device, Supervisor, ReceiptStep, Ordered, After
<1> QED
  BY <1>0, <1>1, <1>2, <1>3, Untouched DEF TypeOK

LEMMA PollInv ==
  ASSUME IInv, NEW r \in Replicas, Poll(r)
  PROVE  IInv' /\ Ordered
<1>0. /\ TypeOK /\ Receipt /\ poll.pc = "idle" /\ row.phase # "none" /\ row' = Expired
      /\ row \in Rows /\ current[r] \in Holders
      /\ UNCHANGED <<worker, sup, home, granted, rotated>> /\ PollUnchanged
  BY DEF IInv, Poll, PollUnchanged, device, TypeOK
<1>1. DeviceOnward
  BY <1>0 DEF DeviceOnward
<1>2. ReceiptStep
  BY <1>0, <1>1, ReceiptExpired DEF ReceiptStep, Receipt
<1>3. /\ row'.identified => row'.grant \/ row'.phase = "completed"
      /\ row'.phase = row.phase \/ row.phase \in Unclaimed
      /\ row'.epoch = row.epoch
  BY <1>0, ExpiredIs DEF TypeOK, Unclaimed, Polling
<1>4. PICK op \in Ops : op = OpOf(Expired)
  BY <1>0, ExpiredIs, RowOp
<1>5. /\ op.epoch = row'.epoch /\ op.holder = row'.holder /\ op.seq = row'.seq
      /\ op.phase = row'.phase /\ op.grant = row'.grant /\ op.clear = row'.clear
  BY <1>0, <1>4, ExpiredIs, RowOp
<1>6. Copied(op)' /\ op.epoch > 0
  BY <1>0, <1>2, <1>3, <1>5, CopiedAfter DEF ReceiptStep, Receipt
<1>7. PICK pc \in {"idle", "report", "polling", "unresolved"} :
        /\ pc = "report" => Reportable(op)
        /\ poll' = IF Useful(r, pc, op)
                   THEN [pc |-> pc, op |-> op, by |-> r, holder |-> current[r]]
                   ELSE NoPoll
  BY <1>4 DEF Poll, Recovery
<1>8. /\ poll' \in Polls /\ poll'.op \in {op, NoOp}
      /\ poll'.pc # "idle" => poll'.op = op /\ poll'.by \in Replicas /\ poll'.holder \in Holders
      /\ poll'.pc = "report" => Reportable(op)
  <2>1. CASE Useful(r, pc, op)
    BY <1>0, <1>7, <2>1 DEF Polls
  <2>2. CASE ~Useful(r, pc, op)
    BY <1>7, <2>2, Constants DEF NoPoll
  <2> QED
    BY <2>1, <2>2
<1>9. Copied(poll.op)'
  <2>1. CASE poll'.op = op
    BY <1>6, <2>1
  <2>2. CASE poll'.op = NoOp
    BY <2>2, Constants DEF Copied
  <2> QED
    BY <1>8, <2>1, <2>2
<1>10. Request'
  BY <1>5, <1>6, <1>8 DEF Request, Reportable, Ended, Terminal
<1> QED
  BY <1>0, <1>1, <1>2, <1>3, <1>8, <1>9, <1>10, RequestStep

\* The steps of a request once it has read the receipt.
LEMMA PollIs ==
  ASSUME IInv, poll.pc # "idle"
  PROVE  /\ poll \in Polls /\ poll.op \in Ops /\ poll.op.epoch > 0 /\ poll.by \in Replicas
         /\ poll.holder \in Holders /\ Copied(poll.op)
         /\ \A pc \in {"polling", "unresolved", "takeover"} :
              LET p == [poll EXCEPT !.pc = pc] IN
              p \in Polls /\ p.pc = pc /\ p.op = poll.op /\ p.by = poll.by /\ p.holder = poll.holder
<1>1. /\ poll \in Polls /\ poll.op \in Ops /\ poll.op.epoch > 0 /\ poll.by \in Replicas
      /\ poll.holder \in Holders /\ Copied(poll.op)
  BY DEF IInv, TypeOK, Polls, Request
<1>2. PICK v \in Polls : v = poll
  BY <1>1
<1>3. ASSUME NEW pc \in {"polling", "unresolved", "takeover"}
      PROVE  /\ [v EXCEPT !.pc = pc] \in Polls /\ [v EXCEPT !.pc = pc].pc = pc
             /\ [v EXCEPT !.pc = pc].op = v.op /\ [v EXCEPT !.pc = pc].by = v.by
             /\ [v EXCEPT !.pc = pc].holder = v.holder
  BY DEF Polls
<1> QED
  BY <1>1, <1>2, <1>3

\* The request goes on, or ends.
LEMMA PollGoes ==
  ASSUME IInv, poll.pc # "idle", ReceiptStep, DeviceOnward,
         \/ poll' = NoPoll
         \/ \E pc \in {"polling", "unresolved", "takeover"} : poll' = [poll EXCEPT !.pc = pc]
  PROVE  poll' \in Polls /\ Request' /\ Copied(poll.op)'
<1>1. PICK o \in Ops : o = poll.op
  BY PollIs
<1>2. Copied(o)'
  BY <1>1, PollIs, CopiedKept DEF IInv, ReceiptStep
<1>3. CASE poll' = NoPoll
  BY <1>3, Constants DEF NoPoll, Request, Copied
<1>4. CASE poll' # NoPoll
  <2>1. PICK pc \in {"polling", "unresolved", "takeover"} : poll' = [poll EXCEPT !.pc = pc]
    BY <1>4
  <2>2. /\ poll' \in Polls /\ poll'.pc = pc /\ poll'.op = o
        /\ poll'.by \in Replicas /\ poll'.holder \in Holders
    BY <1>1, <2>1, PollIs
  <2> QED
    BY <1>1, <1>2, <2>2, PollIs DEF Request
<1> QED
  BY <1>3, <1>4

LEMMA PollReportInv ==
  ASSUME IInv, PollReport
  PROVE  IInv' /\ Ordered
<1>0. /\ TypeOK /\ Receipt /\ Request /\ poll.pc = "report" /\ row \in Rows
      /\ UNCHANGED <<worker, sup, home, granted, rotated>> /\ PollUnchanged
  BY DEF IInv, PollReport, PollUnchanged, device, TypeOK
<1>1. DeviceOnward
  BY <1>0 DEF DeviceOnward
<1>2. /\ \/ row' = row
         \/ Takable(poll.op, poll.holder, FALSE) /\ row' = [row EXCEPT !.reported = TRUE]
      /\ \/ poll' = NoPoll
         \/ \E pc \in {"polling", "unresolved", "takeover"} : poll' = [poll EXCEPT !.pc = pc]
  <2>1. Recovery(poll.op, poll.op.phase = "replica_lost", poll.holder)
          \in {"idle", "polling", "unresolved"}
    BY DEF Recovery
  <2> QED
    BY <2>1 DEF PollReport
<1>3. /\ ReceiptStep /\ (row'.identified => row'.grant \/ row'.phase = "completed")
      /\ row'.phase = row.phase /\ row'.epoch = row.epoch
  <2>1. CASE row' = row
    BY <1>0, <2>1, QuietStep
  <2>2. CASE Takable(poll.op, poll.holder, FALSE) /\ row' = [row EXCEPT !.reported = TRUE]
    <3>1. /\ row' \in Rows /\ row'.phase = row.phase /\ row'.holder = row.holder
          /\ row'.epoch = row.epoch /\ row'.seq = row.seq
      BY <1>0, <2>2 DEF Rows
    <3>2. row'.grant = row.grant /\ row'.identified = row.identified /\ row'.clear = row.clear
      BY <1>0, <2>2 DEF Rows
    <3>3. row.phase \in Ended /\ row.phase # "completed" /\ row.phase # "none"
      BY <1>0, <2>2 DEF Takable, Mine, Request, Ended, Terminal
    <3>4. ReceiptStep
      BY <1>0, <1>1, <3>1, <3>2, <3>3, ReceiptMarked DEF ReceiptStep, Receipt
    <3> QED
      BY <1>0, <3>1, <3>2, <3>4 DEF TypeOK
  <2> QED
    BY <1>2, <2>1, <2>2
<1> QED
  BY <1>0, <1>1, <1>2, <1>3, PollGoes, RequestStep

\* What the receipt of a new holder is.
LEMMA NewHolderIs ==
  ASSUME TypeOK, NEW h \in Holders, row.epoch < MaxEpoch
  PROVE  LET n == NewHolder(h) IN
         /\ n \in Rows /\ n.phase = row.phase /\ n.holder = h /\ n.epoch = row.epoch + 1
         /\ n.seq = row.seq + 1 /\ n.live = row.live /\ n.grant = row.grant
         /\ n.identified = row.identified /\ n.clear = row.clear
         /\ n.reserved = row.reserved /\ n.cancel = row.cancel /\ n.reported = row.reported
<1>0. /\ row \in Rows /\ row.seq + 1 \in Nat /\ row.epoch \in Nat /\ MaxEpoch \in Nat
      /\ row.epoch + 1 \in 0..MaxEpoch
  BY DEF TypeOK, Rows, EpochAssumption
<1>1. /\ NewHolder(h).phase = row.phase /\ NewHolder(h).holder = h
      /\ NewHolder(h).epoch = row.epoch + 1 /\ NewHolder(h).seq = row.seq + 1
  BY <1>0 DEF NewHolder, Rows
<1>2. /\ NewHolder(h).live = row.live /\ NewHolder(h).grant = row.grant
      /\ NewHolder(h).identified = row.identified /\ NewHolder(h).clear = row.clear
  BY <1>0 DEF NewHolder, Rows
<1>3. /\ NewHolder(h).reserved = row.reserved /\ NewHolder(h).cancel = row.cancel
      /\ NewHolder(h).reported = row.reported
  BY <1>0 DEF NewHolder, Rows
<1>4. NewHolder(h) \in Rows
  BY <1>0 DEF NewHolder, Rows
<1> QED
  BY <1>1, <1>2, <1>3, <1>4

\* A receipt with one or two fields replaced.
LEMMA ReportedIs ==
  ASSUME NEW m \in Rows, NEW x, x = [m EXCEPT !.reported = TRUE]
  PROVE  /\ x \in Rows /\ x.phase = m.phase /\ x.holder = m.holder /\ x.epoch = m.epoch
         /\ x.seq = m.seq /\ x.grant = m.grant /\ x.identified = m.identified /\ x.clear = m.clear
<1>1. x \in Rows
  BY DEF Rows
<1>2. x.phase = m.phase /\ x.holder = m.holder /\ x.epoch = m.epoch /\ x.seq = m.seq
  BY DEF Rows
<1>3. x.grant = m.grant /\ x.identified = m.identified /\ x.clear = m.clear
  BY DEF Rows
<1> QED
  BY <1>1, <1>2, <1>3

LEMMA ClearedIs ==
  ASSUME NEW m \in Rows, NEW x, x = [m EXCEPT !.clear = TRUE, !.reserved = FALSE]
  PROVE  /\ x \in Rows /\ x.phase = m.phase /\ x.holder = m.holder /\ x.epoch = m.epoch
         /\ x.seq = m.seq /\ x.grant = m.grant /\ x.identified = m.identified /\ x.clear
<1>1. x \in Rows
  BY DEF Rows
<1>2. x.phase = m.phase /\ x.holder = m.holder /\ x.epoch = m.epoch /\ x.seq = m.seq
  BY DEF Rows
<1>3. x.grant = m.grant /\ x.identified = m.identified /\ x.clear
  BY DEF Rows
<1> QED
  BY <1>1, <1>2, <1>3

LEMMA AbandonedIs ==
  ASSUME NEW m \in Rows, NEW op \in Ops
  PROVE  \E x \in Rows :
           /\ x = [m EXCEPT !.phase = "unresolved", !.grant = op.grant]
           /\ x.phase = "unresolved" /\ x.grant = op.grant /\ x.epoch = m.epoch
           /\ x.seq = m.seq /\ x.holder = m.holder /\ x.identified = m.identified
           /\ x.clear = m.clear
<1>1. PICK grant \in BOOLEAN : grant = op.grant
  BY DEF Ops
<1>2. PICK x : x = [m EXCEPT !.phase = "unresolved", !.grant = grant]
  OBVIOUS
<1>3. x \in Rows
  BY <1>2 DEF Rows, Phases
<1>4. x.phase = "unresolved" /\ x.grant = grant /\ x.epoch = m.epoch /\ x.seq = m.seq
  BY <1>2 DEF Rows
<1>5. x.holder = m.holder /\ x.identified = m.identified /\ x.clear = m.clear
  BY <1>2 DEF Rows
<1>6. x = [m EXCEPT !.phase = "unresolved", !.grant = op.grant]
  BY <1>1, <1>2
<1> QED
  BY <1>1, <1>3, <1>4, <1>5, <1>6

\* A lost login that issued nothing gets a holder that reports it.
LEMMA RecoverPollingInv ==
  ASSUME IInv, RecoverPolling
  PROVE  IInv' /\ Ordered
<1>0. /\ TypeOK /\ Receipt /\ GrantKept /\ poll.pc = "polling" /\ row.epoch < MaxEpoch
      /\ row \in Rows /\ row.epoch \in Nat /\ row.seq \in Nat
      /\ UNCHANGED <<worker, sup, home, granted, rotated>> /\ PollUnchanged /\ poll' = NoPoll
  BY DEF IInv, RecoverPolling, Recover, PollUnchanged, device, TypeOK, Rows
<1>1. DeviceOnward
  BY <1>0 DEF DeviceOnward
<1>2. PICK h \in Holders : h = poll.holder
  BY <1>0, PollIs
<1>3. PICK m \in Rows : m = NewHolder(h)
  BY <1>0, NewHolderIs
<1>4. PICK cleared : cleared = [m EXCEPT !.clear = TRUE, !.reserved = FALSE]
  OBVIOUS
<1>5. \/ row' = row
      \/ /\ Recoverable(poll.op, h)
         /\ row' \in {cleared, [cleared EXCEPT !.reported = TRUE]}
  BY <1>2, <1>3, <1>4 DEF RecoverPolling, Recover
<1>6. CASE row' = row
  BY <1>0, <1>1, <1>6, QuietStep, PollGoes, RequestStep
<1>7. CASE Recoverable(poll.op, h) /\ row' \in {cleared, [cleared EXCEPT !.reported = TRUE]}
  <2>0. /\ cleared \in Rows /\ cleared.phase = m.phase /\ cleared.holder = m.holder
        /\ cleared.epoch = m.epoch /\ cleared.seq = m.seq /\ cleared.grant = m.grant
        /\ cleared.identified = m.identified /\ cleared.clear
    BY <1>4, ClearedIs
  <2>1. /\ row' \in Rows /\ row'.phase = m.phase /\ row'.holder = m.holder
        /\ row'.epoch = m.epoch /\ row'.seq = m.seq
        /\ row'.grant = m.grant /\ row'.identified = m.identified /\ row'.clear
    <3>1. CASE row' = cleared
      BY <2>0, <3>1
    <3>2. CASE row' = [cleared EXCEPT !.reported = TRUE]
      <4>1. PICK x : x = [cleared EXCEPT !.reported = TRUE]
        OBVIOUS
      <4>2. /\ x \in Rows /\ x.phase = cleared.phase /\ x.holder = cleared.holder
            /\ x.epoch = cleared.epoch /\ x.seq = cleared.seq /\ x.grant = cleared.grant
            /\ x.identified = cleared.identified /\ x.clear = cleared.clear
        BY <2>0, <4>1, ReportedIs
      <4>3. row' = x
        BY <3>2, <4>1
      <4> QED
        BY <2>0, <4>2, <4>3
    <3> QED
      BY <1>7, <3>1, <3>2
  <2>2. row'.grant = m.grant /\ row'.identified = m.identified /\ row'.clear
    BY <2>1
  <2>3. /\ row'.phase = "replica_lost" /\ row'.holder = h /\ row'.epoch = row.epoch + 1
        /\ row'.seq = row.seq + 1 /\ row'.grant = row.grant /\ ~row'.identified
        /\ row.phase = "replica_lost" /\ row.clear
    <3>1. /\ m.phase = row.phase /\ m.holder = h /\ m.epoch = row.epoch + 1
          /\ m.seq = row.seq + 1 /\ m.grant = row.grant /\ m.identified = row.identified
      BY <1>0, <1>3, NewHolderIs
    <3>2. row.phase = "replica_lost" /\ ~row.identified /\ row.clear
      BY <1>0, <1>7 DEF Recoverable
    <3> QED
      BY <2>1, <3>1, <3>2
  <2>4. Onward /\ Ordered
    BY <1>0, <2>3 DEF Onward, Ordered, Ended, Decided, Terminal
  <2>5. Receipt'
    BY <1>0, <2>2, <2>3 DEF Receipt, Candidacy, Ended, Terminal
  <2>6. GrantKept' /\ FailureTruthful'
    BY <1>0, <2>3 DEF GrantKept, FailureTruthful
  <2>7. ReceiptStep
    BY <2>1, <2>4, <2>5, <2>6 DEF ReceiptStep
  <2> QED
    BY <1>0, <1>1, <2>3, <2>7, PollGoes, RequestStep DEF Unclaimed
<1> QED
  BY <1>5, <1>6, <1>7

\* Every copy is of an epoch before a new one.
LEMMA NewEpoch ==
  ASSUME IInv, row'.epoch = row.epoch + 1
  PROVE  \A s \in Replicas : worker[s].op.epoch # row'.epoch
<1> SUFFICES ASSUME NEW s \in Replicas PROVE worker[s].op.epoch # row'.epoch
  OBVIOUS
<1>1. /\ worker[s].op.epoch \in Nat /\ row.epoch \in Nat
      /\ worker[s].op.epoch > 0 => worker[s].op.epoch <= row.epoch
  BY DEF IInv, TypeOK, Workings, Ops, Rows, Copied
<1> QED
  BY <1>1

\* A candidate whose use was begun is given up; whoever used it finds it so.
LEMMA RecoverUnresolvedInv ==
  ASSUME IInv, RecoverUnresolved
  PROVE  IInv' /\ Ordered
<1>0. /\ TypeOK /\ Receipt /\ GrantKept /\ FailureTruthful /\ Device /\ Supervisor /\ Leased
      /\ Rotation /\ SoleUser
      /\ poll.pc = "unresolved" /\ row.epoch < MaxEpoch
      /\ row \in Rows /\ row.epoch \in Nat /\ row.seq \in Nat
      /\ UNCHANGED <<holders, lease, browser, current, worker, sup, native, home,
                     granted, refresh, rotated>> /\ PollUnchanged
  BY DEF IInv, RecoverUnresolved, PollUnchanged, device, TypeOK, Rows
<1>1. DeviceOnward
  BY <1>0 DEF DeviceOnward
<1>2. PICK h \in Holders : h = poll.holder
  BY <1>0, PollIs
<1>3. PICK m \in Rows : m = NewHolder(h)
  BY <1>0, NewHolderIs
<1>4. PICK op \in Ops : op = poll.op
  BY <1>0, PollIs
<1>a. PICK lost \in Rows :
        /\ lost = [m EXCEPT !.phase = "unresolved", !.grant = op.grant]
        /\ lost.phase = "unresolved" /\ lost.grant = op.grant /\ lost.epoch = m.epoch
        /\ lost.seq = m.seq /\ lost.holder = m.holder /\ lost.identified = m.identified
        /\ lost.clear = m.clear
  BY AbandonedIs
<1>5. \/ row' = row /\ (poll' = NoPoll \/ poll' = [poll EXCEPT !.pc = "takeover"])
      \/ /\ Abandoned(op, h) /\ row' \in {lost, [lost EXCEPT !.reported = TRUE]}
         /\ poll' = NoPoll
  BY <1>2, <1>3, <1>4, <1>a DEF RecoverUnresolved, Recover, PollGo
<1>6. CASE row' = row /\ (poll' = NoPoll \/ poll' = [poll EXCEPT !.pc = "takeover"])
  BY <1>0, <1>1, <1>6, QuietStep, PollGoes, RequestStep
<1>7. CASE /\ Abandoned(op, h) /\ row' \in {lost, [lost EXCEPT !.reported = TRUE]}
           /\ poll' = NoPoll
  <2>2. /\ lost \in Rows /\ lost.phase = "unresolved" /\ lost.grant = op.grant
        /\ lost.epoch = m.epoch /\ lost.seq = m.seq /\ lost.holder = m.holder
        /\ lost.identified = m.identified /\ lost.clear = m.clear
    BY <1>a
  <2>3. PICK x : x = [lost EXCEPT !.reported = TRUE]
    OBVIOUS
  <2>4. /\ row' \in Rows /\ row'.phase = lost.phase /\ row'.grant = lost.grant
        /\ row'.epoch = lost.epoch /\ row'.seq = lost.seq
        /\ row'.holder = lost.holder /\ row'.identified = lost.identified
        /\ row'.clear = lost.clear
    <3>1. row' = lost \/ row' = x
      BY <1>7, <2>3
    <3>2. /\ x \in Rows /\ x.phase = lost.phase /\ x.holder = lost.holder
          /\ x.epoch = lost.epoch /\ x.seq = lost.seq /\ x.grant = lost.grant
          /\ x.identified = lost.identified /\ x.clear = lost.clear
      BY <2>2, <2>3, ReportedIs
    <3> QED
      BY <2>2, <3>1, <3>2
  <2>5. /\ row'.phase = "unresolved" /\ row'.holder = h /\ row'.epoch = row.epoch + 1
        /\ row'.seq = row.seq + 1 /\ row'.grant = op.grant /\ row'.clear = row.clear
        /\ row'.identified = row.identified
    BY <1>0, <1>3, <2>2, <2>4, NewHolderIs
  <2>6. /\ row.phase \in Candidacy /\ row.grant /\ op.grant /\ granted
        /\ sup.pc \in {"unpublished", "done"}
    <3>1. row.phase \in Candidacy /\ op.epoch = row.epoch /\ op.seq = row.seq
      BY <1>7 DEF Abandoned, Candidacy, Unchanged, Mine
    <3>2. row.grant /\ granted /\ sup.pc \in {"unpublished", "done"}
      BY <1>0, <3>1 DEF Receipt
    <3>3. op.grant
      BY <1>0, <1>4, <3>1, <3>2, PollIs DEF Copied
    <3> QED
      BY <3>1, <3>2, <3>3
  <2>7. Onward /\ Ordered
    BY <1>0, <2>5, <2>6 DEF Onward, Ordered, After, Ended, Decided, Terminal, Candidacy
  <2>8. Receipt'
    BY <1>0, <2>5, <2>6 DEF Receipt, Candidacy, Ended, Terminal
  <2>9. GrantKept' /\ FailureTruthful'
    BY <1>0, <2>5, <2>6 DEF GrantKept, FailureTruthful
  <2>10. ReceiptStep
    BY <2>4, <2>7, <2>8, <2>9 DEF ReceiptStep
  <2>11. \A s \in Replicas : worker[s].op.epoch # row'.epoch
    BY <2>5, NewEpoch
  <2>12. ASSUME NEW s \in Replicas PROVE Claimed(s)'
    <3>1. PICK w : w = worker[s]
      OBVIOUS
    <3>2. /\ w.pc \in Owning => LoginLease(w.op)'
          /\ w.pc = "release" => refresh' # s
          /\ worker'[s] = w
      BY <1>0, <3>1 DEF IInv, Claimed, LoginLease
    <3> QED
      BY <1>0, <2>5, <2>11, <3>1, <3>2 DEF Claimed, Decided, LoginLease
  <2>13. Leased'
    BY <1>0, <2>5 DEF Leased, Decided, Candidacy
  <2>14. Rotation'
    BY <1>0, <2>5, <2>6, <2>11 DEF Rotation
  <2>15. SoleUser' /\ Device' /\ Supervisor'
    BY <1>0, <2>5 DEF SoleUser, Using, Device, Supervisor
  <2>16. Copied(sup.op)'
    <3>1. PICK o \in Ops : o = sup.op
      BY <1>0 DEF TypeOK, Sups
    <3>2. Copied(o)'
      BY <1>0, <1>1, <2>10, <3>1, CopiedKept DEF IInv, ReceiptStep
    <3> QED
      BY <1>0, <3>1, <3>2
  <2>17. poll' \in Polls /\ Request' /\ Copied(poll.op)'
    BY <1>0, <1>1, <1>7, <2>10, PollGoes
  <2>18. row'.identified => row'.grant
    BY <2>5, <2>6
  <2> QED
    BY <1>0, <1>1, <2>10, <2>12, <2>13, <2>14, <2>15, <2>16, <2>17, <2>18, Untouched DEF TypeOK
<1> QED
  BY <1>5, <1>6, <1>7

\* A candidate that nobody has begun to use goes to another worker.
LEMMA TakeoverInv ==
  ASSUME IInv, Takeover
  PROVE  IInv' /\ Ordered
<1>0. /\ TypeOK /\ Receipt /\ GrantKept /\ FailureTruthful /\ Device /\ Supervisor /\ Leased
      /\ Rotation /\ SoleUser
      /\ poll.pc = "takeover" /\ row.epoch < MaxEpoch
      /\ row \in Rows /\ row.epoch \in Nat /\ row.seq \in Nat /\ poll' = NoPoll
      /\ UNCHANGED <<holders, lease, browser, current, sup, native, home,
                     granted, refresh, rotated>> /\ PollUnchanged
  BY DEF IInv, Takeover, PollUnchanged, device, TypeOK, Rows
<1>1. DeviceOnward
  BY <1>0 DEF DeviceOnward
<1>2. PICK h \in Holders : h = poll.holder
  BY <1>0, PollIs
<1>3. PICK r \in Replicas : r = poll.by
  BY <1>0, PollIs
<1>4. PICK m \in Rows : m = NewHolder(h)
  BY <1>0, NewHolderIs
<1>5. PICK op \in Ops : op = poll.op
  BY <1>0, PollIs
<1>6. PICK new \in Rows : new = [m EXCEPT !.live = TRUE]
  BY DEF Rows
<1>7. /\ new.phase = m.phase /\ new.holder = m.holder /\ new.epoch = m.epoch
      /\ new.seq = m.seq /\ new.grant = m.grant
  BY <1>6 DEF Rows
<1>8. new.identified = m.identified /\ new.clear = m.clear /\ new.reported = m.reported
  BY <1>6 DEF Rows
<1>9. \/ row' = row /\ UNCHANGED worker
      \/ /\ At(r, "idle") /\ Transferable(op, h) /\ row' = new
         /\ \/ UNCHANGED worker
            \/ worker' = [worker EXCEPT ![r] = [Idle EXCEPT !.pc = "verify", !.op = OpOf(new)]]
  BY <1>2, <1>3, <1>4, <1>5, <1>6 DEF Takeover, Set
<1>10. CASE row' = row /\ UNCHANGED worker
  BY <1>0, <1>1, <1>10, QuietStep, PollGoes, RequestStep
<1>11. CASE /\ At(r, "idle") /\ Transferable(op, h) /\ row' = new
            /\ \/ UNCHANGED worker
               \/ worker' = [worker EXCEPT ![r] = [Idle EXCEPT !.pc = "verify", !.op = OpOf(new)]]
  <2>1. /\ row' \in Rows /\ row'.phase = "candidate" /\ row'.holder = h
        /\ row'.epoch = row.epoch + 1 /\ row'.seq = row.seq + 1 /\ row'.grant = row.grant
        /\ row'.identified = row.identified /\ row'.clear = row.clear
        /\ row'.reported = row.reported /\ row.phase = "candidate"
    BY <1>0, <1>4, <1>7, <1>8, <1>11, NewHolderIs DEF Transferable
  <2>2. /\ row.grant /\ row.identified /\ granted /\ sup.pc \in {"unpublished", "done"}
        /\ ~rotated
    BY <1>0, <2>1 DEF Receipt, Candidacy, Rotation
  <2>3. lease.kind # "login"
    BY <1>0, <1>11, <2>1 DEF Leased, Transferable, Unsettled, Decided, Candidacy
  <2>4. \A s \in Replicas : worker[s].pc \notin Claiming
    BY <1>0, <2>1, <2>3 DEF IInv, Claimed, LoginLease, Decided
  <2>5. Onward /\ Ordered
    BY <1>0, <2>1 DEF Onward, Ordered, Ended, Decided, Terminal
  <2>6. Receipt'
    BY <1>0, <2>1, <2>2 DEF Receipt, Candidacy, Ended, Terminal, Polling
  <2>7. GrantKept' /\ FailureTruthful'
    BY <1>0, <2>1, <2>2 DEF GrantKept, FailureTruthful
  <2>8. ReceiptStep
    BY <2>1, <2>5, <2>6, <2>7 DEF ReceiptStep
  <2>9. \A s \in Replicas : worker[s].op.epoch # row'.epoch
    BY <2>1, NewEpoch
  <2>10. PICK o \in Ops : o = OpOf(new)
    BY RowOp
  <2>11. /\ o.epoch = row'.epoch /\ o.holder = row'.holder /\ o.seq = row'.seq
         /\ o.phase = row'.phase /\ o.grant = row'.grant /\ o.clear = row'.clear
    BY <1>11, <2>10, RowOp
  <2>12. Copied(o)'
    BY <2>1, <2>8, <2>11, CopiedAfter DEF ReceiptStep
  <2>13. PICK w \in Workings : /\ w = [Idle EXCEPT !.pc = "verify", !.op = o]
                               /\ w.pc = "verify" /\ w.op = o
    <3>1. /\ [Idle EXCEPT !.pc = "verify", !.op = o] \in Workings
          /\ [Idle EXCEPT !.pc = "verify", !.op = o].pc = "verify"
          /\ [Idle EXCEPT !.pc = "verify", !.op = o].op = o
      BY DEF Idle, Workings
    <3> QED
      BY <3>1
  <2>14. worker' = worker \/ worker' = [worker EXCEPT ![r] = w]
    BY <1>11, <2>10, <2>13
  <2>15. /\ worker' \in [Replicas -> Workings]
         /\ \A s \in Replicas : worker'[s] = worker[s] \/ (s = r /\ worker'[s] = w)
    BY <1>0, <2>14 DEF TypeOK
  <2>16. ASSUME NEW s \in Replicas
         PROVE  Copied(worker[s].op)' /\ Worker(s)' /\ worker'[s].pc \notin Claiming
    <3>1. CASE worker'[s] = worker[s]
      <4>1. PICK v \in Ops : v = worker[s].op
        BY <1>0 DEF TypeOK, Workings
      <4>2. Copied(v)'
        BY <1>0, <1>1, <2>8, <4>1, CopiedKept DEF IInv, ReceiptStep
      <4>3. Worker(s)'
        BY <1>0, <1>1, <2>8, <3>1, WorkerKept DEF IInv, ReceiptStep
      <4> QED
        BY <2>4, <3>1, <4>1, <4>2, <4>3
    <3>2. CASE worker'[s] = w
      <4>1. Copied(worker[s].op)'
        BY <2>12, <2>13, <3>2
      <4>2. o.epoch > 0 /\ o.grant
        BY <1>0, <2>1, <2>2, <2>11
      <4>3. Worker(s)'
        BY <1>0, <2>2, <2>13, <3>2, <4>2 DEF Worker, Logging, Claiming
      <4> QED
        BY <2>13, <3>2, <4>1, <4>3 DEF Claiming
    <3> QED
      BY <2>15, <3>1, <3>2
  <2>17. Distinct'
    <3>1. SUFFICES ASSUME NEW p \in Replicas, NEW q \in Replicas, p # q,
                          worker'[p].pc # "idle", worker'[q].pc # "idle"
                   PROVE  /\ worker'[p].op.epoch # worker'[q].op.epoch
                          /\ ~(worker'[p].pc \in Claiming /\ worker'[q].pc \in Claiming)
      BY DEF Distinct, At
    <3>2. worker'[p].op.epoch # worker'[q].op.epoch
      <4>1. CASE worker'[p] = worker[p] /\ worker'[q] = worker[q]
        BY <3>1, <4>1 DEF IInv, Distinct, At
      <4>2. ASSUME NEW s \in Replicas, worker'[s] # worker[s]
            PROVE  s = r /\ worker'[s].op.epoch = row'.epoch
        BY <2>11, <2>13, <2>15, <4>2
      <4>3. CASE worker'[p] # worker[p]
        <5>1. worker'[q] = worker[q]
          BY <3>1, <4>2, <4>3
        <5> QED
          BY <2>9, <4>2, <4>3, <5>1
      <4>4. CASE worker'[q] # worker[q]
        <5>1. worker'[p] = worker[p]
          BY <3>1, <4>2, <4>4
        <5> QED
          BY <2>9, <4>2, <4>4, <5>1
      <4> QED
        BY <4>1, <4>3, <4>4
    <3> QED
      BY <2>16, <3>2
  <2>18. (\A s \in Replicas : Claimed(s)') /\ SoleUser'
    BY <2>16 DEF Claimed, Claiming, Owning, SoleUser, Using
  <2>19. Leased' /\ Rotation'
    BY <1>0, <2>2, <2>3 DEF Leased, Rotation
  <2>20. Device' /\ Supervisor'
    BY <1>0, <2>1 DEF Device, Supervisor
  <2>21. Copied(sup.op)'
    <3>1. PICK v \in Ops : v = sup.op
      BY <1>0 DEF TypeOK, Sups
    <3>2. Copied(v)'
      BY <1>0, <1>1, <2>8, <3>1, CopiedKept DEF IInv, ReceiptStep
    <3> QED
      BY <1>0, <3>1, <3>2
  <2>22. poll' \in Polls /\ Request' /\ Copied(poll.op)'
    BY <1>0, <1>1, <2>8, PollGoes
  <2>23. TypeOK'
    BY <1>0, <2>1, <2>2, <2>15, <2>22 DEF TypeOK
  <2> QED
    BY <2>5, <2>6, <2>7, <2>16, <2>17, <2>18, <2>19, <2>20, <2>21, <2>22, <2>23 DEF IInv
<1> QED
  BY <1>9, <1>10, <1>11

-----------------------------------------------------------------------------
(* Time, crashes, holders and ordinary refreshes.                          *)

\* A step of the environment that leaves the workers, the device and the request
\* alone.
LEMMA QuietEnvironment ==
  ASSUME IInv, UNCHANGED <<worker, device, poll, browser, rotated>>, ReceiptStep,
         row'.phase = row.phase, row'.epoch = row.epoch,
         row'.identified => row'.grant \/ row'.phase = "completed",
         holders' \in [Holders -> {"unregistered", "live", "expired"}],
         lease' \in Leases, current' \in [Replicas -> Holders],
         refresh' \in Replicas \cup {None},
         \/ Still
         \/ (\A s \in Replicas : Claimed(s)') /\ Leased' /\ SoleUser'
  PROVE  IInv' /\ Ordered
<1>0. /\ TypeOK /\ Leased /\ Rotation /\ SoleUser /\ Device /\ Supervisor
      /\ UNCHANGED <<sup, native, home, granted>>
  BY DEF IInv, device
<1>1. DeviceOnward
  BY <1>0 DEF DeviceOnward
<1>2. Copied(sup.op)'
  <2>1. PICK o \in Ops : o = sup.op
    BY <1>0 DEF TypeOK, Sups
  <2>2. Copied(o)'
    BY <1>0, <1>1, <2>1, CopiedKept DEF IInv, ReceiptStep
  <2> QED
    BY <1>0, <2>1, <2>2
<1>3. Copied(poll.op)' /\ Request'
  <2>1. PICK o \in Ops : o = poll.op
    BY <1>0 DEF TypeOK, Polls
  <2>2. Copied(o)'
    BY <1>0, <1>1, <2>1, CopiedKept DEF IInv, ReceiptStep
  <2>3. Request'
    BY <1>0, RequestKept DEF IInv, ReceiptStep
  <2> QED
    BY <2>1, <2>2, <2>3
<1>4. (\A s \in Replicas : Claimed(s)') /\ Leased' /\ SoleUser'
  <2>1. CASE Still
    <3>1. \A s \in Replicas : Claimed(s)'
      BY <2>1, ClaimedKept DEF IInv
    <3>2. Leased'
      BY <1>0, <2>1, LeasedKept
    <3>3. SoleUser'
      BY <1>0, <2>1 DEF SoleUser, Using, Still
    <3> QED
      BY <3>1, <3>2, <3>3
  <2> QED
    BY <2>1
<1>5. Rotation' /\ Device' /\ Supervisor'
  BY <1>0 DEF Rotation, Device, Supervisor
<1> QED
  BY <1>0, <1>1, <1>2, <1>3, <1>4, <1>5, Untouched DEF TypeOK

LEMMA CancelInv ==
  ASSUME IInv, Cancel
  PROVE  IInv' /\ Ordered
<1>0. /\ TypeOK /\ Receipt /\ row \in Rows /\ row' = [row EXCEPT !.cancel = TRUE]
      /\ row.phase \in Running
      /\ UNCHANGED <<worker, poll>> /\ PollUnchanged
      /\ UNCHANGED <<holders, lease, current, refresh, rotated, browser, sup, home, granted>>
  BY DEF IInv, Cancel, PollUnchanged, device, TypeOK
<1>1. /\ row' \in Rows /\ row'.phase = row.phase /\ row'.holder = row.holder
      /\ row'.epoch = row.epoch /\ row'.seq = row.seq
  BY <1>0 DEF Rows
<1>2. /\ row'.grant = row.grant /\ row'.identified = row.identified /\ row'.clear = row.clear
      /\ row'.reported = row.reported
  BY <1>0 DEF Rows
<1>3. DeviceOnward /\ row.phase # "none"
  BY <1>0 DEF DeviceOnward, Running, Polling
<1>4. ReceiptStep
  BY <1>0, <1>1, <1>2, <1>3, ReceiptMarked DEF ReceiptStep, Receipt
<1> QED
  BY <1>0, <1>1, <1>2, <1>4, QuietEnvironment DEF TypeOK, Still, PollUnchanged

LEMMA ExpireRowInv ==
  ASSUME IInv, ExpireRow
  PROVE  IInv' /\ Ordered
<1>0. /\ TypeOK /\ Receipt /\ row \in Rows /\ row' = [row EXCEPT !.live = FALSE] /\ row.live
      /\ UNCHANGED <<holders, lease, current, refresh, rotated, browser, sup, home, granted>>
  BY DEF IInv, ExpireRow, device, TypeOK
<1>1. /\ row' \in Rows /\ row'.phase = row.phase /\ row'.holder = row.holder
      /\ row'.epoch = row.epoch /\ row'.seq = row.seq
  BY <1>0 DEF Rows
<1>2. /\ row'.grant = row.grant /\ row'.identified = row.identified /\ row'.clear = row.clear
      /\ row'.reported = row.reported
  BY <1>0 DEF Rows
<1>3. DeviceOnward /\ row.phase # "none"
  BY <1>0 DEF DeviceOnward, Receipt, NoRow
<1>4. ReceiptStep
  BY <1>0, <1>1, <1>2, <1>3, ReceiptMarked DEF ReceiptStep, Receipt
<1> QED
  BY <1>0, <1>1, <1>2, <1>4, QuietEnvironment DEF TypeOK, Still, ExpireRow

LEMMA ExpireLeaseInv ==
  ASSUME IInv, ExpireLease
  PROVE  IInv' /\ Ordered
<1>0. /\ TypeOK /\ lease \in Leases /\ lease' = [lease EXCEPT !.live = FALSE]
      /\ UNCHANGED <<row, holders, browser, current, worker, device, poll, refresh, rotated>>
      /\ UNCHANGED <<sup, home, granted>>
  BY DEF IInv, ExpireLease, device, TypeOK
<1>1. /\ lease' \in Leases /\ lease'.kind = lease.kind /\ lease'.by = lease.by
      /\ lease'.released = lease.released
  BY <1>0 DEF Leases
<1>2. ReceiptStep /\ (row'.identified => row'.grant \/ row'.phase = "completed")
  BY <1>0, QuietStep
<1> QED
  BY <1>0, <1>1, <1>2, QuietEnvironment DEF TypeOK, Still

LEMMA HoldersInv ==
  ASSUME IInv, UNCHANGED <<row, lease, browser, worker, device, poll, refresh, rotated>>,
         holders' \in [Holders -> {"unregistered", "live", "expired"}],
         current' \in [Replicas -> Holders]
  PROVE  IInv' /\ Ordered
<1>1. UNCHANGED <<sup, home, granted>> /\ TypeOK
  BY DEF device, IInv
<1>2. ReceiptStep /\ (row'.identified => row'.grant \/ row'.phase = "completed")
  BY <1>1, QuietStep
<1> QED
  BY <1>1, <1>2, QuietEnvironment DEF TypeOK, Still

\* Another incarnation, whatever became of the last one.
LEMMA Reincarnated ==
  ASSUME TypeOK, NEW r \in Replicas, NEW h \in Holders,
         NEW old \in {holders[current[r]], "expired"}
  PROVE  /\ [current EXCEPT ![r] = h] \in [Replicas -> Holders]
         /\ [holders EXCEPT ![h] = "live", ![current[r]] = old]
              \in [Holders -> {"unregistered", "live", "expired"}]
<1>1. current[r] \in Holders /\ old \in {"unregistered", "live", "expired"}
  BY DEF TypeOK
<1> QED
  BY <1>1 DEF TypeOK

LEMMA ExpireHolderInv ==
  ASSUME IInv, NEW h \in Holders, ExpireHolder(h)
  PROVE  IInv' /\ Ordered
<1>1. /\ holders' \in [Holders -> {"unregistered", "live", "expired"}]
      /\ current' \in [Replicas -> Holders]
      /\ UNCHANGED <<row, lease, browser, worker, device, poll, refresh, rotated>>
  BY DEF IInv, TypeOK, ExpireHolder
<1> QED
  BY <1>1, HoldersInv

LEMMA ReplaceHolderInv ==
  ASSUME IInv, NEW r \in Replicas, ReplaceHolder(r)
  PROVE  IInv' /\ Ordered
<1>1. PICK h \in Holders, old \in {holders[current[r]], "expired"} :
        /\ current' = [current EXCEPT ![r] = h]
        /\ holders' = [holders EXCEPT ![h] = "live", ![current[r]] = old]
  BY DEF ReplaceHolder
<1>2. TypeOK
  BY DEF IInv
<1>3. /\ holders' \in [Holders -> {"unregistered", "live", "expired"}]
      /\ current' \in [Replicas -> Holders]
  BY <1>1, <1>2, Reincarnated
<1>4. UNCHANGED <<row, lease, browser, worker, device, poll, refresh, rotated>>
  BY DEF ReplaceHolder
<1> QED
  BY <1>3, <1>4, HoldersInv

\* A crash takes the worker, its request and its refresh child, and nothing durable.
LEMMA RestartInv ==
  ASSUME IInv, NEW r \in Replicas, Restart(r)
  PROVE  IInv' /\ Ordered
<1>0. /\ TypeOK /\ Receipt /\ Leased /\ Rotation /\ SoleUser /\ Device /\ Supervisor /\ Request
      /\ worker' = [worker EXCEPT ![r] = Idle]
      /\ poll' \in {poll, NoPoll}
      /\ refresh' = IF refresh = r THEN None ELSE refresh
      /\ lease' = IF lease.kind = "refresh" /\ lease.by = r
                  THEN [lease EXCEPT !.by = None] ELSE lease
      /\ UNCHANGED <<row, browser, sup, native, home, granted, rotated>>
  BY DEF IInv, Restart, Set, Lost, device
<1>1. /\ holders' \in [Holders -> {"unregistered", "live", "expired"}]
      /\ current' \in [Replicas -> Holders]
  <2>1. PICK h \in Holders, old \in {holders[current[r]], "expired"} :
          /\ current' = [current EXCEPT ![r] = h]
          /\ holders' = [holders EXCEPT ![h] = "live", ![current[r]] = old]
    BY DEF Restart
  <2> QED
    BY <1>0, <2>1, Reincarnated
<1>2. /\ lease' \in Leases /\ lease'.kind = lease.kind /\ lease'.released = lease.released
      /\ lease'.by = IF lease.kind = "refresh" /\ lease.by = r THEN None ELSE lease.by
  BY <1>0 DEF TypeOK, Leases
<1>3. DeviceOnward
  BY <1>0 DEF DeviceOnward
<1>4. ReceiptStep /\ (row'.identified => row'.grant \/ row'.phase = "completed")
  BY <1>0, QuietStep
<1>5. worker' \in [Replicas -> Workings] /\ worker'[r] = Idle
      /\ \A s \in Replicas \ {r} : worker'[s] = worker[s]
  BY <1>0, Constants DEF TypeOK
<1>6. \A s \in Replicas : worker'[s] = worker[s] \/ worker'[s] = Idle
  BY <1>5
<1>7. ASSUME NEW s \in Replicas PROVE Copied(worker[s].op)' /\ Worker(s)'
  <2>1. CASE worker'[s] = worker[s]
    <3>1. PICK v \in Ops : v = worker[s].op
      BY <1>0 DEF TypeOK, Workings
    <3>2. Copied(v)'
      BY <1>0, <1>3, <1>4, <3>1, CopiedKept DEF IInv, ReceiptStep
    <3>3. Worker(s)'
      BY <1>0, <1>3, <1>4, <2>1, WorkerKept DEF IInv, ReceiptStep
    <3> QED
      BY <2>1, <3>1, <3>2, <3>3
  <2>2. CASE worker'[s] = Idle
    BY <2>2, Constants DEF Copied, Worker, Logging, Claiming
  <2> QED
    BY <1>6, <2>1, <2>2
<1>8. ASSUME NEW s \in Replicas PROVE Claimed(s)'
  <2>1. CASE worker'[s] = Idle
    BY <2>1, Constants DEF Claimed, Claiming, Owning
  <2>2. CASE worker'[s] = worker[s]
    <3>1. PICK w : w = worker[s]
      OBVIOUS
    <3>2. LoginLease(w.op) => LoginLease(w.op)'
      BY <1>0, <1>2 DEF LoginLease
    <3>3. row.phase = "unresolved" /\ (\A q \in Replicas : worker[q].op.epoch # row.epoch)
            => \A q \in Replicas : worker'[q].op.epoch # row'.epoch
      <4>1. row.phase = "unresolved" => row.epoch > 0
        BY <1>0 DEF Receipt
      <4> QED
        BY <1>0, <1>6, <4>1, Constants
    <3>4. refresh = None \/ refresh # s => refresh' # s
      BY <1>0, NoneAssumption
    <3>5. /\ w.pc \in Claiming => LoginLease(w.op) \/ row.phase \in Decided
          /\ w.pc \in Claiming /\ w.op.epoch # row.epoch => row.phase \in Decided
          /\ w.pc \in Owning => LoginLease(w.op)
          /\ w.pc \in Owning /\ w.op.epoch = row.epoch =>
               row.phase = IF w.pc = "verifying" THEN "verifying" ELSE "candidate"
          /\ w.pc \in Owning /\ w.op.epoch # row.epoch =>
               row.phase = "unresolved" /\ \A q \in Replicas : worker[q].op.epoch # row.epoch
          /\ w.pc = "release" => refresh # s
      BY <3>1 DEF IInv, Claimed
    <3>6. worker'[s] = w
      BY <2>2, <3>1
    <3> QED
      BY <1>0, <3>2, <3>3, <3>4, <3>5, <3>6 DEF Claimed, LoginLease
  <2> QED
    BY <1>6, <2>1, <2>2
<1>9. Leased'
  <2>1. \A s \in Replicas : worker'[s].pc \in Claiming => worker[s].pc \in Claiming
    BY <1>6, Constants DEF Claiming
  <2>2. \A s \in Replicas : row.phase \in Candidacy =>
          worker'[s].op.epoch = worker[s].op.epoch \/ worker'[s].op.epoch # row.epoch
    <3>1. row.phase \in Candidacy => row.epoch > 0
      BY <1>0 DEF Receipt, Candidacy
    <3> QED
      BY <1>6, <3>1, Constants
  <2>3. /\ lease'.released <=> lease'.kind = "none"
        /\ lease'.kind = "login" =>
             row'.phase \in Decided \/ (row'.phase \in Candidacy /\ lease'.by = row'.holder)
    BY <1>0, <1>2 DEF Leased
  <2>4. ASSUME refresh' # None
        PROVE  refresh' = refresh /\ refresh # r /\ refresh # None
    BY <1>0, <2>4
  <2>5. ASSUME refresh' # None
        PROVE  \/ lease'.kind = "refresh" /\ lease'.by = refresh'
               \/ /\ lease'.kind = "login"
                  /\ \A s \in Replicas \ {refresh'} :
                       /\ worker'[s].pc \notin Claiming
                       /\ row'.phase \in Candidacy => worker'[s].op.epoch # row'.epoch
    <3>1. CASE lease.kind = "refresh" /\ lease.by = refresh
      BY <1>2, <2>4, <2>5, <3>1
    <3>2. CASE lease.kind = "login" /\ \A s \in Replicas \ {refresh} :
               /\ worker[s].pc \notin Claiming
               /\ row.phase \in Candidacy => worker[s].op.epoch # row.epoch
      BY <1>0, <1>2, <2>1, <2>2, <2>4, <2>5, <3>2
    <3> QED
      BY <1>0, <2>4, <2>5, <3>1, <3>2 DEF Leased
  <2> QED
    BY <2>3, <2>5 DEF Leased
<1>10. Rotation' /\ SoleUser'
  <2>1. rotated => row.epoch > 0
    BY <1>0 DEF Rotation, Receipt
  <2>2. Rotation'
    BY <1>0, <1>6, Constants DEF Rotation, Logging
  <2>3. SoleUser'
    BY <1>0, <1>6, Constants DEF SoleUser, Using
  <2> QED
    BY <2>2, <2>3
<1>11. Distinct'
  BY <1>6, Constants DEF IInv, Distinct, At
<1>12. Device' /\ Supervisor'
  BY <1>0 DEF Device, Supervisor
<1>13. Copied(sup.op)' /\ Copied(poll.op)' /\ Request' /\ poll' \in Polls
  <2>1. PICK u \in Ops, v \in Ops : u = sup.op /\ v = poll.op
    BY <1>0 DEF TypeOK, Sups, Polls
  <2>2. Copied(u)' /\ Copied(v)'
    BY <1>0, <1>3, <1>4, <2>1, CopiedKept DEF IInv, ReceiptStep
  <2>3. CASE poll' = poll
    <3>1. Request'
      BY <1>0, <2>3 DEF Request
    <3> QED
      BY <1>0, <2>1, <2>2, <2>3, <3>1 DEF TypeOK
  <2>4. CASE poll' = NoPoll
    <3>1. Request' /\ Copied(poll.op)'
      BY <2>4, Constants DEF Request, NoPoll, Copied
    <3> QED
      BY <1>0, <2>1, <2>2, <2>4, <3>1, Constants
  <2> QED
    BY <1>0, <2>3, <2>4
<1>14. TypeOK'
  BY <1>0, <1>1, <1>2, <1>5, <1>13 DEF TypeOK
<1> QED
  BY <1>4, <1>7, <1>8, <1>9, <1>10, <1>11, <1>12, <1>13, <1>14 DEF IInv, ReceiptStep

\* An ordinary refresh starts only when no worker depends on the account: the journal
\* of a candidate fences it.
LEMMA RefreshInv ==
  ASSUME IInv, NEW r \in Replicas, Refresh(r)
  PROVE  IInv' /\ Ordered
<1>0. /\ TypeOK /\ Receipt /\ Leased /\ row \in Rows /\ refresh = None /\ ~Fenced
      /\ worker[r].pc # "release" /\ refresh' = r
      /\ lease' = [kind |-> "refresh", by |-> r, live |-> TRUE, released |-> FALSE]
      /\ UNCHANGED <<row, holders, browser, current, worker, device, poll, rotated>>
      /\ UNCHANGED <<sup, home, granted>>
  BY DEF IInv, Refresh, device, TypeOK
<1>1. row.phase \notin Candidacy \cup {"unresolved"}
  BY <1>0 DEF Fenced, Receipt, Candidacy
<1>2. ASSUME NEW s \in Replicas
      PROVE  /\ worker[s].pc \notin Owning
             /\ worker[s].pc \in Claiming => row.phase \in Decided
             /\ worker[s].pc = "release" => s # r
  <2>1. Claimed(s)
    BY DEF IInv
  <2>2. worker[s].pc \notin Owning
    BY <1>1, <2>1 DEF Claimed, Candidacy
  <2>3. worker[s].pc \in Claiming => row.phase \in Decided
    BY <1>0, <1>1, <2>1 DEF Claimed, Leased, LoginLease
  <2> QED
    BY <1>0, <2>2, <2>3
<1>3. \A s \in Replicas : Claimed(s)'
  BY <1>0, <1>2 DEF Claimed
<1>4. Leased'
  BY <1>0 DEF Leased
<1>5. SoleUser'
  BY <1>0, <1>2 DEF SoleUser, Using, Owning
<1>6. ReceiptStep /\ (row'.identified => row'.grant \/ row'.phase = "completed")
  BY <1>0, QuietStep
<1>7. lease' \in Leases /\ refresh' \in Replicas \cup {None}
  BY <1>0 DEF Leases
<1> QED
  BY <1>0, <1>3, <1>4, <1>5, <1>6, <1>7, QuietEnvironment DEF TypeOK

LEMMA RefreshedInv ==
  ASSUME IInv, NEW r \in Replicas, Refreshed(r)
  PROVE  IInv' /\ Ordered
<1>0. /\ TypeOK /\ Leased /\ SoleUser /\ refresh' = None
      /\ lease' = lease \/ (lease' = NoLease /\ lease.kind = "refresh")
      /\ UNCHANGED <<row, holders, browser, current, worker, device, poll, rotated>>
      /\ UNCHANGED <<sup, home, granted>>
  BY DEF IInv, Refreshed, device
<1>1. ReceiptStep /\ (row'.identified => row'.grant \/ row'.phase = "completed")
  BY <1>0, QuietStep
<1>2. ASSUME NEW s \in Replicas PROVE Claimed(s)'
  BY <1>0, NoneAssumption DEF IInv, Claimed, LoginLease, NoLease
<1>3. Leased'
  BY <1>0 DEF Leased, NoLease
<1>4. SoleUser'
  BY <1>0 DEF SoleUser, Using
<1>5. lease' \in Leases /\ refresh' \in Replicas \cup {None}
  BY <1>0, Constants DEF TypeOK
<1> QED
  BY <1>0, <1>1, <1>2, <1>3, <1>4, <1>5, QuietEnvironment DEF TypeOK

-----------------------------------------------------------------------------
LEMMA InitInv == Init => IInv
<1> SUFFICES ASSUME Init PROVE IInv
  OBVIOUS
<1>1. /\ row = NoRow /\ lease = NoLease /\ sup = NoSup /\ poll = NoPoll
      /\ worker = [r \in Replicas |-> Idle] /\ native = "none" /\ home = "empty"
      /\ refresh = None /\ ~granted /\ ~rotated
      /\ granted \in BOOLEAN /\ rotated \in BOOLEAN /\ browser \in BOOLEAN
      /\ current \in [Replicas -> Holders]
  BY DEF Init
<1>2. /\ row.phase = "none" /\ row.epoch = 0 /\ ~row.grant /\ ~row.reported /\ ~row.clear
      /\ ~row.identified /\ lease.kind = "none" /\ lease.released
      /\ sup.pc = "none" /\ sup.op.epoch = 0 /\ poll.pc = "idle" /\ poll.op.epoch = 0
      /\ \A r \in Replicas : worker[r].pc = "idle" /\ worker[r].op = NoOp /\ worker[r].op.epoch = 0
  BY <1>1 DEF NoRow, NoLease, NoSup, NoPoll, NoOp, Idle
<1>3. TypeOK
  <2>1. holders \in [Holders -> {"unregistered", "live", "expired"}]
    BY DEF Init
  <2> QED
    BY <1>1, <1>2, <2>1, Constants DEF TypeOK
<1>4. GrantKept /\ SoleUser /\ FailureTruthful
  BY <1>1, <1>2 DEF GrantKept, SoleUser, Using, FailureTruthful
<1>5. Receipt /\ Device /\ Supervisor /\ Request
  BY <1>1, <1>2 DEF Receipt, Device, Supervisor, Request, Candidacy
<1>6. Copied(sup.op) /\ Copied(poll.op)
  BY <1>2 DEF Copied
<1>7. \A r \in Replicas : Copied(worker[r].op) /\ Worker(r) /\ Claimed(r)
  BY <1>2 DEF Copied, Worker, Claimed, Logging, Claiming, Owning
<1>8. Distinct /\ Leased /\ Rotation
  BY <1>1, <1>2 DEF Distinct, At, Leased, Rotation
<1> QED
  BY <1>3, <1>4, <1>5, <1>6, <1>7, <1>8 DEF IInv

LEMMA NextInv == IInv /\ [Next]_vars => IInv' /\ Ordered
<1> SUFFICES ASSUME IInv, [Next]_vars PROVE IInv' /\ Ordered
  OBVIOUS
<1>1. ASSUME NEW r \in Replicas, Work(r) PROVE IInv' /\ Ordered
  BY <1>1, CreateInv, LaunchInv, PollTickInv, AwaitSupervisorInv, ReadReceiptInv, CaptureInv,
     SaveStoppedInv, PublishInv, AdmitInv, SettleOwnerInv, BeginVerificationInv, ProviderInv,
     CompleteInv, AbortInv, ReleaseInv, SettleInv, ReportInv DEF Work
<1>2. CASE Supervise
  BY <1>2, SupStartInv, NativeGrantInv, SupRecordInv, SupPollInv, SupReadInv, SupSettleInv,
     SupCancelInv, SupUnpublishedInv, SupDiesInv DEF Supervise
<1>3. ASSUME NEW r \in Replicas, Poll(r) PROVE IInv' /\ Ordered
  BY <1>3, PollInv
<1>4. CASE PollReport \/ RecoverPolling \/ RecoverUnresolved \/ Takeover
  BY <1>4, PollReportInv, RecoverPollingInv, RecoverUnresolvedInv, TakeoverInv
<1>5. CASE Environment
  BY <1>5, CancelInv, ExpireRowInv, ExpireLeaseInv, ExpireHolderInv, ReplaceHolderInv,
     RestartInv, RefreshInv, RefreshedInv DEF Environment
<1>6. CASE UNCHANGED vars
  BY <1>6, HoldersInv DEF vars, IInv, TypeOK
<1> QED
  BY <1>1, <1>2, <1>3, <1>4, <1>5, <1>6 DEF Next

(* The types hold; a grant the provider issued is never forgotten; one     *)
(* worker at a time uses the account for its candidate, and no replica     *)
(* refreshes it meanwhile; an operation reported as failed never           *)
(* completes, and a rejected one has a grant that no provider call         *)
(* rotated: for every set of replicas and of holder incarnations and every *)
(* number of epochs, with every loss of leases, holders and replicas that  *)
(* the module has (spawn_claimed_worker, supervise_login, recover,         *)
(* login_fence!).                                                          *)
THEOREM Invariant == Spec => []IInv
<1>1. IInv /\ [Next]_vars => IInv'
  BY NextInv
<1> QED
  BY InitInv, <1>1, PTL DEF Spec

(* The three statements about the grant, the account and the answer that   *)
(* the invariant exists for (run, verify_shared_renewal, take_failure).    *)
THEOREM LoginPromises == Spec => [](GrantKept /\ SoleUser /\ FailureTruthful)
<1>1. IInv => GrantKept /\ SoleUser /\ FailureTruthful
  BY DEF IInv
<1> QED
  BY Invariant, <1>1, PTL

(* A receipt only moves forward: verification starts once, from a durable  *)
(* candidate, an unresolved attempt is never verified or completed, and a  *)
(* completed, failed, canceled or rejected receipt stays what it is        *)
(* (LoginPhase, storage/login.rs).                                         *)
THEOREM ReceiptOrderHolds == Spec => ReceiptOrder
<1>1. IInv /\ [Next]_vars => [row'.phase \in {row.phase} \cup After(row.phase)]_row
  BY NextInv DEF Ordered
<1> QED
  BY Invariant, <1>1, PTL DEF Spec, ReceiptOrder
=============================================================================
