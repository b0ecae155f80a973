--------------------------- MODULE LoginOperation ---------------------------
(***************************************************************************)
(* One shared login renewal on PostgreSQL (relogin/shared.rs,              *)
(* storage/login.rs, polling.rs, managed/renewal.rs): a replica journals   *)
(* the operation, a worker launches a polling supervisor with the native   *)
(* device login, the grant becomes a durable candidate, and a worker       *)
(* verifies it under the account's refresh lease and publishes it.         *)
(*                                                                         *)
(* Each SQL statement or transaction is one step.  A call of the store can *)
(* fail without effect, or commit and lose its answer.  The operation, the *)
(* holders and the refresh lease expire whenever nobody renews them, which *)
(* is when a replica stalls, crashes or loses the store: "live" says that  *)
(* expires_at is in the future.  A revoked machine, an ended browser       *)
(* session and a stopping replica are choices at the checks that would     *)
(* find them: nothing here depends on their lasting.                       *)
(***************************************************************************)
EXTENDS Integers, FiniteSets

CONSTANTS
  Replicas,
  Holders,   \* login holder incarnations, one per boot or replacement
  Boot,      \* the holder each replica registers when it first boots
  None,
  MaxEpoch   \* bound: the epochs of the operation

ASSUME EpochAssumption == MaxEpoch \in Nat \ {0}
ASSUME BootAssumption ==
  Boot \in [Replicas -> Holders] /\ \A r, s \in Replicas : Boot[r] = Boot[s] => r = s
ASSUME NoneAssumption == None \notin Replicas \cup Holders \cup {"ok", "err", "stop", "refused"}

VARIABLES
  row,       \* the row of central_login_operations
  holders,   \* central_login_holders: unregistered, live or expired
  lease,     \* the row of account_refresh_leases
  browser,   \* the authority is a browser session
  current,   \* the login holder each replica registered last
  worker,    \* the login worker of each replica
  sup,       \* the polling supervisor
  native,    \* the native device login: an exit is proven if its process was recorded
  home,      \* auth.json in the private login home
  poll,      \* the status request in progress
  refresh,   \* the replica with an ordinary refresh child of the account
  granted,   \* history: the provider issued the grant
  rotated    \* history: the provider may have rotated the granted login

device == <<sup, native, home, granted>>
vars == <<row, holders, lease, browser, current, worker, device,
          poll, refresh, rotated>>

Polling == {"starting", "pending"}
Running == Polling \cup {"candidate", "verifying"}
Terminal == {"completed", "failed", "canceled", "rejected", "replica_lost"}
Phases == Running \cup Terminal \cup {"unresolved"}

NoOp == [phase |-> "none", holder |-> None, epoch |-> 0, seq |-> 0,
         grant |-> FALSE, clear |-> FALSE]
NoRow == [phase |-> "none", holder |-> None, epoch |-> 0, seq |-> 0, live |-> FALSE,
          grant |-> FALSE, identified |-> FALSE, clear |-> FALSE,
          reserved |-> TRUE, cancel |-> FALSE, reported |-> FALSE]
Ops == [phase : Phases \cup {"none"}, holder : Holders \cup {None},
        epoch : 0..MaxEpoch, seq : Nat, grant : BOOLEAN, clear : BOOLEAN]
NoLease == [kind |-> "none", by |-> None, live |-> FALSE, released |-> TRUE]
Idle == [pc |-> "idle", op |-> NoOp, result |-> None]
NoSup == [pc |-> "none", op |-> NoOp, outcome |-> "failed"]
NoPoll == [pc |-> "idle", op |-> NoOp, by |-> None, holder |-> None]

Rows == [phase : Phases \cup {"none"}, holder : Holders \cup {None},
         epoch : 0..MaxEpoch, seq : Nat, live : BOOLEAN, grant : BOOLEAN,
         identified : BOOLEAN, clear : BOOLEAN, reserved : BOOLEAN,
         cancel : BOOLEAN, reported : BOOLEAN]
Leases == [kind : {"none", "refresh", "login"}, by : Replicas \cup Holders \cup {None},
           live : BOOLEAN, released : BOOLEAN]
Workings == [pc : {"idle", "launch", "poll", "stop", "read", "capture", "canceling",
                   "publish", "verify", "leased", "settled", "verifying", "abort",
                   "release", "settle", "report", "grantless"},
             op : Ops, result : {None, "ok", "err", "stop", "refused"}]
Sups == [pc : {"none", "start", "spawned", "poll", "exited", "settle",
               "canceling", "unpublished", "done"},
         op : Ops, outcome : {"success", "canceled", "failed"}]
Polls == [pc : {"idle", "report", "polling", "unresolved", "takeover"},
          op : Ops, by : Replicas \cup {None}, holder : Holders \cup {None}]

\* Types; an identity stands in the receipt only with its grant or once completed.
TypeOK ==
  /\ row \in Rows
  /\ row.identified => row.grant \/ row.phase = "completed"
  /\ holders \in [Holders -> {"unregistered", "live", "expired"}]
  /\ lease \in Leases
  /\ browser \in BOOLEAN
  /\ current \in [Replicas -> Holders]
  /\ worker \in [Replicas -> Workings]
  /\ sup \in Sups
  /\ native \in {"none", "running", "recorded", "exited"}
  /\ home \in {"empty", "grant", "unreadable", "removed"}
  /\ poll \in Polls
  /\ refresh \in Replicas \cup {None}
  /\ granted \in BOOLEAN /\ rotated \in BOOLEAN

Init ==
  /\ row = NoRow
  /\ current = Boot
  /\ holders = [h \in Holders |-> IF \E r \in Replicas : current[r] = h
                                  THEN "live" ELSE "unregistered"]
  /\ lease = NoLease
  /\ browser \in BOOLEAN
  /\ worker = [r \in Replicas |-> Idle]
  /\ sup = NoSup
  /\ native = "none"
  /\ home = "empty" /\ poll = NoPoll /\ refresh = None
  /\ granted = FALSE /\ rotated = FALSE

---------------------------------------------------------------------------
(* What the statements of the store require and write.                     *)

Held(h) == holders[h] = "live"
OpOf(rw) == [f \in DOMAIN NoOp |-> rw[f]]
Mine(op) == row.holder = op.holder /\ row.epoch = op.epoch
Unchanged(op) == Mine(op) /\ row.seq = op.seq
Unlost == row.phase \in Polling \cup {"replica_lost"} /\ ~row.identified

\* login_get expires an abandoned device login before it reads.
\* Mutated form: any running receipt.
ExpiredRunning == IF row.phase \in Running /\ ~row.live
                  THEN [row EXCEPT !.phase = "replica_lost", !.seq = @ + 1] ELSE row
Expired == IF row.phase \in Polling /\ ~row.live
           THEN [row EXCEPT !.phase = "replica_lost", !.seq = @ + 1] ELSE row
Adopt(op) == IF Mine(op) THEN OpOf(Expired) ELSE op

Stopped == row.cancel \/ browser
Heartbeat(op) == Mine(op) /\ row.phase \in Running /\ row.live /\ Held(op.holder)

Savable(op) ==
  /\ op.phase \notin Terminal
  /\ Unchanged(op) /\ row.phase \notin Terminal /\ row.live /\ Held(op.holder)
Saved(op, phase) ==
  [row EXCEPT !.phase = phase, !.seq = @ + 1, !.grant = op.grant, !.identified = op.grant]
SavedOp(op, phase) == [op EXCEPT !.phase = phase, !.seq = @ + 1]
\* An unresolved attempt stays unresolved in memory when its save fails.
UnsavedOp(op, phase) == IF phase = "unresolved" THEN [op EXCEPT !.phase = phase] ELSE op

\* A journal fences the account against ordinary refreshes (login_fence!).
Fenced ==
  /\ \/ row.phase \in {"candidate", "verifying", "unresolved", "rejected"}
     \/ row.phase = "replica_lost" /\ ~row.clear
  /\ \/ row.reserved
     \/ row.phase \in {"unresolved", "replica_lost"} /\ ~row.identified
     \/ row.identified

LoginLease(op) == lease.kind = "login" /\ lease.by = op.holder
Unsettled(h) == lease.kind = "login" /\ lease.by = h /\ ~lease.released
\* Mutated form: an expired lease is taken before its owner settled it.
ClaimableUnsettled(r, op) ==
  /\ Mine(op) /\ row.phase = "candidate" /\ row.live /\ Held(op.holder)
  /\ ~lease.live \/ LoginLease(op)
Claimable(r, op) ==
  /\ Mine(op) /\ row.phase = "candidate" /\ row.live /\ Held(op.holder)
  /\ ~lease.live \/ LoginLease(op)
  /\ \/ lease.released
     \/ lease.kind = "refresh" /\ lease.by = r
     \/ LoginLease(op)
Beginnable(op) ==
  /\ LoginLease(op) /\ lease.live
  /\ Unchanged(op) /\ row.phase = "candidate" /\ ~row.cancel /\ row.live /\ Held(op.holder)
Completable(op) ==
  /\ LoginLease(op) /\ lease.live
  /\ Unchanged(op) /\ row.phase = "verifying" /\ ~row.cancel /\ row.live /\ Held(op.holder)

Takable(op, reporter, grantless) ==
  /\ Mine(op) /\ row.phase \notin {"completed", "canceled"} /\ ~row.reported
  /\ row.holder = reporter \/ ~Held(row.holder)
  /\ grantless => /\ row.phase \notin {"candidate", "verifying"}
                  /\ row.phase \in Polling \cup {"replica_lost"} => row.clear
Clearable(op) ==
  /\ op.phase \in Polling /\ Mine(op) /\ Unlost
  /\ \/ row.seq = op.seq
     \/ row.seq = op.seq + 1 /\ row.phase = "replica_lost"
Recoverable(op, h) ==
  /\ Unchanged(op) /\ row.phase = "replica_lost" /\ row.clear /\ row.reserved
  /\ ~row.identified /\ ~row.live /\ ~Held(row.holder) /\ Held(h)
Abandoned(op, h) ==
  /\ Unchanged(op) /\ row.phase = op.phase /\ ~row.live
  /\ row.phase = "verifying" \/ (row.phase = "candidate" /\ Unsettled(row.holder))
  /\ ~Held(row.holder) \/ row.holder = h
  /\ Held(h)
Transferable(op, h) ==
  /\ Unchanged(op) /\ row.phase = "candidate"
  /\ \/ row.holder = h
     \/ ~row.live /\ ~Held(row.holder)
  /\ ~Unsettled(row.holder) /\ Held(h)

---------------------------------------------------------------------------
(* The worker (spawn_claimed_worker, run, continue_candidate).             *)

At(r, pc) == worker[r].pc = pc
Set(r, w) == worker' = [worker EXCEPT ![r] = w]
Stage(r, pc, op) ==
  CASE pc = "idle" -> Idle
    [] pc \in {"read", "capture"} -> [worker[r] EXCEPT !.pc = pc, !.op = op]
    [] OTHER -> [pc |-> pc, op |-> op, result |-> None]
Go(r, pc, op) == Set(r, Stage(r, pc, op))

\* A write of the worker: it commits, it is refused or fails, or its answer is lost.
Write(r, able, new, then, else) ==
  \/ able /\ row' = new /\ Set(r, then)
  \/ row' \in {row} \cup (IF able THEN {new} ELSE {}) /\ Set(r, else)
SaveAs(r, op, phase, pc, failed) ==
  Write(r, Savable(op), Saved(op, phase), Stage(r, pc, SavedOp(op, phase)),
        Stage(r, failed, UnsavedOp(op, phase)))

\* start_for: the receipt is created under a live holder, then its worker runs.
Create(r) ==
  /\ row.phase = "none"
  /\ At(r, "idle") /\ Held(current[r])
  /\ LET new == [NoRow EXCEPT !.phase = "starting", !.holder = current[r],
                              !.epoch = 1, !.live = TRUE]
     IN Write(r, TRUE, new, [Idle EXCEPT !.pc = "launch", !.op = OpOf(new)], Idle)
  /\ UNCHANGED <<holders, lease, browser, current, device, poll, refresh, rotated>>

Launch(r) ==
  /\ At(r, "launch")
  /\ LET op == worker[r].op IN
     \/ /\ Heartbeat(op) /\ ~row.cancel
        /\ sup' = [sup EXCEPT !.pc = "start", !.op = op]
        /\ Go(r, "poll", op) /\ UNCHANGED row
     \/ /\ Heartbeat(op) /\ Stopped
        /\ SaveAs(r, op, "canceled", "idle", "settle") /\ UNCHANGED sup
     \/ Go(r, "settle", op) /\ UNCHANGED <<row, sup>>
  /\ UNCHANGED <<holders, lease, browser, current, native, home, granted,
                 poll, refresh, rotated>>

\* Every second: the heartbeat, the stop conditions, and the receipt read again.
PollTick(r) ==
  /\ At(r, "poll")
  /\ LET w == worker[r] IN
     \/ /\ Heartbeat(w.op) /\ ~row.cancel
        /\ Go(r, "poll", OpOf(row)) /\ UNCHANGED row
     \/ /\ Heartbeat(w.op)
        /\ \/ /\ row' = [row EXCEPT !.cancel = @ \/ browser]
              /\ Set(r, [w EXCEPT !.pc = "stop", !.result = "stop"])
           \/ /\ browser /\ row' \in {row, [row EXCEPT !.cancel = TRUE]}
              /\ Set(r, [w EXCEPT !.pc = "stop", !.result = "err"])
     \/ Set(r, [w EXCEPT !.pc = "stop", !.result = "err"]) /\ UNCHANGED row
     \/ /\ sup.pc = "done" /\ UNCHANGED row
        /\ Set(r, [w EXCEPT !.pc = IF sup.outcome = "success" THEN "read" ELSE "stop",
                            !.result = IF sup.outcome = "success" THEN "ok" ELSE "err"])
  /\ UNCHANGED <<holders, lease, browser, current, device, poll, refresh, rotated>>

Exited == IF native \in {"recorded", "exited"} THEN "exited" ELSE "none"

\* The pipe is closed and the supervisor awaited; dropping it kills it.
AwaitSupervisor(r) ==
  /\ At(r, "stop")
  /\ \/ sup.pc = "done" /\ Go(r, "read", worker[r].op) /\ UNCHANGED <<sup, native>>
     \/ /\ sup.pc # "done"
        /\ Go(r, "settle", [worker[r].op EXCEPT !.phase = "unresolved"])
        /\ sup' = [NoSup EXCEPT !.pc = "done"]
        /\ native' = Exited
  /\ UNCHANGED <<row, holders, lease, browser, current, home, granted,
                 poll, refresh, rotated>>

\* After the supervisor's exit the durable receipt decides.
ReadReceipt(r) ==
  /\ At(r, "read")
  /\ LET op == Adopt(worker[r].op)
         exit == op.clear \/ native = "exited"
     IN
     \/ /\ Go(r, "settle", [worker[r].op EXCEPT !.phase = "unresolved"])
        /\ UNCHANGED <<row, home>>
     \/ /\ row' = Expired
        /\ \/ /\ op.phase = "canceled" /\ op.clear /\ ~op.grant
              /\ home' = "removed" /\ Set(r, Idle)
           \/ /\ op.grant /\ op.phase = "candidate"
              /\ \/ home' = "removed" /\ Go(r, "verify", op)
                 \/ UNCHANGED home /\ Go(r, "settle", op)
           \/ op.grant /\ op.phase # "candidate" /\ Go(r, "settle", op) /\ UNCHANGED home
           \/ /\ ~op.grant /\ ~(op.phase = "canceled" /\ op.clear) /\ UNCHANGED home
              /\ IF exit THEN Go(r, "capture", op)
                 ELSE Go(r, "settle", [op EXCEPT !.phase = "unresolved"])
  /\ UNCHANGED <<holders, lease, browser, current, sup, native, granted,
                 poll, refresh, rotated>>

\* Where run goes with what it captured.
AfterCapture(w, op) ==
  CASE w.result = "err" -> "settle"
    [] w.result = "stop" -> "canceling"
    [] ~op.grant \/ op.phase = "unresolved" -> "settle"
    [] OTHER -> "publish"

Capture(r) ==
  /\ At(r, "capture")
  /\ LET w == worker[r]
         found == [w.op EXCEPT !.grant = TRUE]
     IN
     \/ /\ home = "unreadable" /\ UNCHANGED row
        /\ Go(r, "settle", [w.op EXCEPT !.phase = "unresolved"])
     \/ home = "grant" /\ Go(r, AfterCapture(w, found), found) /\ UNCHANGED row
     \/ /\ home = "empty"
        /\ Write(r, Clearable(w.op), [row EXCEPT !.clear = TRUE],
                 Stage(r, AfterCapture(w, w.op), w.op), Stage(r, "settle", w.op))
  /\ UNCHANGED <<holders, lease, browser, current, device, poll, refresh, rotated>>

\* A stopped login ends canceled, or rejected with the grant it still issued.
SaveStopped(r) ==
  /\ At(r, "canceling")
  /\ LET op == worker[r].op IN
     SaveAs(r, op, IF op.grant THEN "rejected" ELSE "canceled", "idle", "settle")
  /\ home' = IF worker'[r].pc = "idle" THEN "removed" ELSE home
  /\ UNCHANGED <<holders, lease, browser, current, sup, native, granted,
                 poll, refresh, rotated>>

Publish(r) ==
  /\ At(r, "publish")
  /\ SaveAs(r, worker[r].op, "candidate", "verify", "settle")
  /\ home' = IF worker'[r].pc = "verify" THEN "removed" ELSE home
  /\ UNCHANGED <<holders, lease, browser, current, sup, native, granted,
                 poll, refresh, rotated>>

---------------------------------------------------------------------------
(* Verification of the candidate (verify_shared_renewal).                  *)

\* Authority, identity and reservations come before the lease.
Admit(r) ==
  /\ At(r, "verify")
  /\ LET op == worker[r].op
         live == Heartbeat(op) /\ ~row.cancel
     IN
     \/ Go(r, "settle", op) /\ UNCHANGED <<row, lease>>
     \/ /\ live /\ UNCHANGED lease
        /\ \/ SaveAs(r, op, "rejected", "report", "settle") \* wrong account
           \/ SaveAs(r, op, "rejected", "idle", "settle")   \* claims reserved by others
     \/ /\ live /\ Claimable(r, op) /\ UNCHANGED row
        /\ lease' = [kind |-> "login", by |-> op.holder, live |-> TRUE, released |-> FALSE]
        /\ Go(r, "leased", op) \/ Go(r, "settle", op)
  /\ UNCHANGED <<holders, browser, current, device, poll, refresh, rotated>>

\* The replica's own refresh child is stopped before the candidate is used.
SettleOwner(r) ==
  /\ At(r, "leased")
  /\ \/ /\ refresh' = IF refresh = r THEN None ELSE refresh
        /\ Go(r, "settled", worker[r].op)
     \/ Go(r, "abort", worker[r].op) /\ UNCHANGED refresh
  /\ UNCHANGED <<row, holders, lease, browser, current, device, poll, rotated>>

BeginVerification(r) ==
  /\ At(r, "settled")
  /\ LET op == worker[r].op IN
     Write(r, Beginnable(op), [row EXCEPT !.phase = "verifying", !.seq = @ + 1],
           Stage(r, "verifying", SavedOp(op, "verifying")), Stage(r, "abort", op))
  /\ UNCHANGED <<holders, lease, browser, current, device, poll, refresh, rotated>>

\* The native child may rotate the grant, or refuse it for good before it does.
Provider(r) ==
  /\ At(r, "verifying")
  /\ \/ rotated' = TRUE /\ UNCHANGED worker
     \/ /\ ~rotated /\ UNCHANGED rotated
        /\ Set(r, [worker[r] EXCEPT !.pc = "abort", !.result = "refused"])
  /\ UNCHANGED <<row, holders, lease, browser, current, device, poll, refresh>>

Complete(r) ==
  /\ At(r, "verifying")
  /\ LET op == worker[r].op IN
     Write(r, Completable(op) /\ Heartbeat(op),
           [row EXCEPT !.phase = "completed", !.seq = @ + 1, !.grant = FALSE],
           Stage(r, "release", SavedOp(op, "completed")), Stage(r, "abort", op))
  /\ UNCHANGED <<holders, lease, browser, current, device, poll, refresh, rotated>>

\* A failed verification: the owner's child is terminated; only a completed
\* refusal of the unchanged grant is a rejection.
Abort(r) ==
  /\ At(r, "abort")
  /\ LET op == worker[r].op
         verifying == op.phase = "verifying"
         phase == IF verifying /\ worker[r].result = "refused" THEN "rejected" ELSE "unresolved"
     IN
     \/ /\ verifying \/ refresh = r
        /\ refresh' = IF refresh = r THEN None ELSE refresh
        /\ SaveAs(r, op, phase, "release", "release")
     \/ \* the exit of the child is not proven: the lease stays
        UNCHANGED refresh /\ SaveAs(r, op, "unresolved", "settle", "settle")
     \/ /\ ~verifying /\ refresh # r /\ UNCHANGED <<row, refresh>>
        /\ Go(r, "release", op)
  /\ UNCHANGED <<holders, lease, browser, current, device, poll, rotated>>

Release(r) ==
  /\ At(r, "release")
  /\ LET op == worker[r].op IN
     /\ \/ lease' = IF LoginLease(op) THEN NoLease ELSE lease
        \/ UNCHANGED lease
     /\ Go(r, IF op.phase = "completed" THEN "idle" ELSE "settle", op)
  /\ UNCHANGED <<row, holders, browser, current, device, poll, refresh, rotated>>

\* The error path of the worker: up to three attempts to save the outcome.
\* Mutated forms: only the phase decides; or only the grant does.
SettledByPhase(op) ==
  IF op.phase \in {"verifying", "unresolved"} THEN "unresolved" ELSE "failed"
SettledByGrant(op) == IF op.grant THEN "rejected" ELSE "failed"
SettledPhase(op) ==
  IF op.phase \in {"verifying", "unresolved"} THEN "unresolved"
  ELSE IF op.grant THEN "rejected" ELSE "failed"

Settle(r) ==
  /\ At(r, "settle")
  /\ LET op == worker[r].op IN
     \/ op.phase \in Terminal /\ Go(r, "report", op) /\ UNCHANGED row
     \/ /\ op.phase \notin Terminal
        /\ \/ SaveAs(r, op, SettledPhase(op), "report", "settle")
           \/ Go(r, IF op.grant THEN "idle" ELSE "grantless", op) /\ UNCHANGED row
  /\ UNCHANGED <<holders, lease, browser, current, device, poll, refresh, rotated>>

Report(r) ==
  /\ At(r, "report") \/ At(r, "grantless")
  /\ LET op == worker[r].op IN
     Write(r, Takable(op, op.holder, At(r, "grantless")),
           [row EXCEPT !.reported = TRUE], Idle, Idle)
  /\ UNCHANGED <<holders, lease, browser, current, device, poll, refresh, rotated>>

---------------------------------------------------------------------------
(* The polling supervisor (supervise_login), which outlives its parent.    *)

SupUnchanged == UNCHANGED <<holders, lease, browser, current, worker, poll,
                            refresh, rotated>>
SupGo(pc, op) == sup' = [sup EXCEPT !.pc = pc, !.op = op]
SupEnd(pc, op, outcome) == sup' = [pc |-> pc, op |-> op, outcome |-> outcome]
SupDone(outcome) == SupEnd("done", NoOp, outcome)
SupWrite(able, new, then, else) ==
  \/ able /\ row' = new /\ then
  \/ row' \in {row} \cup (IF able THEN {new} ELSE {}) /\ else

SupStart ==
  /\ sup.pc = "start"
  /\ LET op == sup.op IN
     \/ row' \in {row, Expired} /\ SupDone("failed") /\ UNCHANGED native
     \/ /\ row.phase = "starting" /\ ~row.clear /\ Heartbeat(op) /\ UNCHANGED row
        /\ \/ /\ Stopped /\ UNCHANGED native
              /\ SupEnd("settle", OpOf(row), "canceled")
           \/ /\ ~row.cancel
              /\ \/ /\ native' = "running"
                    /\ SupGo("spawned", OpOf(row))
                 \/ /\ UNCHANGED native /\ SupGo("settle", OpOf(row))
  /\ UNCHANGED <<home, granted>> /\ SupUnchanged

NativeGrant ==
  /\ native \in {"running", "recorded"} /\ home = "empty"
  /\ home' \in {"grant", "unreadable"} /\ granted' = TRUE
  /\ UNCHANGED <<row, sup, native>> /\ SupUnchanged

\* The process evidence is saved before anything else is read.
SupRecord ==
  /\ sup.pc = "spawned"
  /\ \/ native' = "recorded" /\ SupGo("poll", sup.op)
     \/ /\ native' = Exited
        /\ \E outcome \in {"success", "failed"} : SupEnd("exited", sup.op, outcome)
  /\ UNCHANGED <<row, home, granted>> /\ SupUnchanged

\* The native login exits; it is killed on a cancel, lost authority, the pipe's
\* end or ten silent seconds, or an error; or its challenge is published.
SupPoll ==
  /\ sup.pc = "poll"
  /\ \/ /\ native' = Exited /\ UNCHANGED row
        /\ \E outcome \in {"success", "failed"} : SupEnd("exited", sup.op, outcome)
     \/ /\ sup.op.phase = "starting"
        /\ SupWrite(Savable(sup.op), Saved(sup.op, "pending"),
                    SupGo("poll", SavedOp(sup.op, "pending")) /\ UNCHANGED native,
                    SupEnd("exited", sup.op, "failed") /\ native' = Exited)
  /\ UNCHANGED <<home, granted>> /\ SupUnchanged

SupRead ==
  /\ sup.pc = "exited"
  /\ \/ row' \in {row, Expired} /\ SupDone("failed")
     \/ /\ Mine(sup.op) /\ row' = Expired
        /\ SupEnd("settle", OpOf(Expired),
                  LET live == row.phase \in Polling /\ row.live /\ Held(row.holder) IN
                  CASE row.cancel /\ (live \/ browser) -> "canceled"
                    [] live /\ ~row.cancel -> sup.outcome
                    [] OTHER -> "failed")
  /\ UNCHANGED <<native, home, granted>> /\ SupUnchanged

\* A browser's login is settled by its absence receipt, a machine's is only cleared.
Absent(canceled) ==
  IF browser
  THEN [row EXCEPT !.phase = IF canceled THEN "canceled" ELSE "failed",
                   !.clear = TRUE, !.seq = @ + 1]
  ELSE [row EXCEPT !.clear = TRUE]
Absentable(op) == Mine(op) /\ Unlost

SupSettle ==
  /\ sup.pc = "settle"
  /\ LET canceled == sup.outcome = "canceled"
         phase == IF sup.outcome = "success" THEN "candidate" ELSE "rejected"
         op == [sup.op EXCEPT !.grant = TRUE]
     IN
     \/ /\ home = "empty"
        /\ SupWrite(Absentable(sup.op), Absent(canceled),
                    CASE canceled /\ browser -> SupDone("success")
                      [] canceled /\ ~browser -> SupGo("canceling", sup.op)
                      [] OTHER -> SupDone(sup.outcome),
                    SupDone("failed"))
     \/ /\ home = "grant"
        /\ SupWrite(Savable(op), Saved(op, phase), SupDone(sup.outcome), SupGo("unpublished", op))
     \/ home = "unreadable" /\ SupGo("unpublished", sup.op) /\ UNCHANGED row
  /\ UNCHANGED <<native, home, granted>> /\ SupUnchanged

SupCancel ==
  /\ sup.pc = "canceling"
  /\ SupWrite(Savable(sup.op), Saved(sup.op, "canceled"), SupDone("success"), SupDone("failed"))
  /\ UNCHANGED <<native, home, granted>> /\ SupUnchanged

SupUnpublished ==
  /\ sup.pc = "unpublished"
  /\ SupWrite(Unchanged(sup.op) /\ Unlost,
              [row EXCEPT !.phase = "unresolved", !.seq = @ + 1, !.grant = sup.op.grant],
              SupDone("failed"), SupDone("failed"))
  /\ UNCHANGED <<native, home, granted>> /\ SupUnchanged

SupDies ==
  /\ sup.pc \notin {"none", "done"}
  /\ SupDone("failed") /\ native' = Exited
  /\ UNCHANGED <<row, home, granted>> /\ SupUnchanged

---------------------------------------------------------------------------
(* A status or start request on a replica reads the receipt and recovers   *)
(* what its holder left behind (recover).  The read carries its sequence   *)
(* into the steps after it.                                                *)

PollUnchanged == UNCHANGED <<holders, lease, browser, current, device,
                             refresh, rotated>>
PollGo(pc) == poll' = [poll EXCEPT !.pc = pc]

\* The step an expired receipt leads to, or the candidate of the replica itself.
Recovery(op, expired, h) ==
  CASE ~(expired \/ (op.phase = "candidate" /\ op.holder = h)) -> "idle"
    [] op.phase = "replica_lost" -> "polling"
    [] op.phase \in {"candidate", "verifying"} -> "unresolved"
    [] OTHER -> "idle"
Reportable(op) ==
  op.phase \in {"rejected", "unresolved"} \/ (op.phase = "replica_lost" /\ ~op.clear)

\* A recovery that has nothing to do yet waits for the next request, which reads
\* the same receipt: its statement requires the sequence the request read.
Useful(r, pc, op) ==
  \/ pc = "report" /\ Takable(op, current[r], FALSE)
  \/ pc = "polling" /\ Recoverable(op, current[r])
  \/ /\ pc = "unresolved" /\ (op.holder = current[r] => At(r, "idle"))
     /\ Abandoned(op, current[r]) \/ Transferable(op, current[r])
Poll(r) ==
  /\ poll.pc = "idle" /\ row.phase # "none"
  /\ row' = Expired
  /\ LET op == OpOf(Expired)
         pc == IF Reportable(op) /\ ~row.reported THEN "report"
               ELSE Recovery(op, ~row.live, current[r])
     IN poll' = IF Useful(r, pc, op)
                THEN [pc |-> pc, op |-> op, by |-> r, holder |-> current[r]]
                ELSE NoPoll
  /\ UNCHANGED worker /\ PollUnchanged

PollReport ==
  /\ poll.pc = "report"
  /\ LET pc == Recovery(poll.op, poll.op.phase = "replica_lost", poll.holder)
         next == IF pc = "idle" THEN NoPoll ELSE [poll EXCEPT !.pc = pc]
         able == Takable(poll.op, poll.holder, FALSE)
     IN \/ /\ row' = IF able THEN [row EXCEPT !.reported = TRUE] ELSE row
           /\ poll' = next
        \/ /\ row' \in {row} \cup (IF able THEN {[row EXCEPT !.reported = TRUE]} ELSE {})
           /\ poll' = NoPoll
  /\ UNCHANGED worker /\ PollUnchanged

\* A recovery step that commits, finds nothing to do, or fails.  The failure it
\* leaves is reported at once by its new holder, if that statement does not fail.
Recover(able, new, nothing) ==
  \/ /\ able /\ poll' = NoPoll
     /\ row' \in {new, [new EXCEPT !.reported = TRUE]}
  \/ ~able /\ UNCHANGED row /\ nothing
  \/ UNCHANGED row /\ poll' = NoPoll

NewHolder(h) == [row EXCEPT !.holder = h, !.epoch = @ + 1, !.seq = @ + 1]

RecoverPolling ==
  /\ poll.pc = "polling" /\ row.epoch < MaxEpoch
  /\ Recover(Recoverable(poll.op, poll.holder),
             [NewHolder(poll.holder) EXCEPT !.clear = TRUE, !.reserved = FALSE],
             poll' = NoPoll)
  /\ UNCHANGED worker /\ PollUnchanged

\* A replica gives up its own receipt only when its worker has exited.
RecoverUnresolved ==
  /\ poll.pc = "unresolved" /\ row.epoch < MaxEpoch
  /\ Recover(/\ poll.op.holder = poll.holder => At(poll.by, "idle")
             /\ Abandoned(poll.op, poll.holder),
             [NewHolder(poll.holder) EXCEPT !.phase = "unresolved", !.grant = poll.op.grant],
             IF poll.op.phase = "candidate" THEN PollGo("takeover") ELSE poll' = NoPoll)
  /\ UNCHANGED worker /\ PollUnchanged

Takeover ==
  /\ poll.pc = "takeover" /\ row.epoch < MaxEpoch
  /\ LET r == poll.by
         able == At(r, "idle") /\ Transferable(poll.op, poll.holder)
         new == [NewHolder(poll.holder) EXCEPT !.live = TRUE]
     IN \/ /\ able /\ row' = new
           /\ Set(r, [Idle EXCEPT !.pc = "verify", !.op = OpOf(new)])
        \/ row' \in {row} \cup (IF able THEN {new} ELSE {}) /\ UNCHANGED worker
  /\ poll' = NoPoll /\ PollUnchanged

\* The cancel handler stores the intent and recovers nothing.
Cancel ==
  /\ row.phase \in Running /\ ~row.cancel
  /\ row' = [row EXCEPT !.cancel = TRUE]
  /\ UNCHANGED <<worker, poll>> /\ PollUnchanged

---------------------------------------------------------------------------
(* Time, crashes, holders and ordinary refreshes.                          *)

\* Bounds: leases change before the operation and while a worker reads them,
\* nothing is lost before the operation or once it has ended and no worker uses the
\* account, and a replica that has nothing of the operation keeps its holder.
Leasing ==
  \E r \in Replicas : worker[r].pc \in {"verify", "leased", "settled", "verifying"}
Open ==
  \/ row.phase \in Running \cup {"replica_lost"}
  \/ \E r \in Replicas : worker[r].pc \in {"leased", "settled", "verifying"}
Engaged(r) == row.holder = current[r] \/ ~At(r, "idle")

ExpireRow ==
  /\ row.live /\ Open /\ row' = [row EXCEPT !.live = FALSE]
  /\ UNCHANGED <<holders, lease, browser, current, worker, device, poll,
                 refresh, rotated>>

ExpireLease ==
  /\ lease.live /\ Leasing /\ lease' = [lease EXCEPT !.live = FALSE]
  /\ UNCHANGED <<row, holders, browser, current, worker, device, poll,
                 refresh, rotated>>

ExpireHolder(h) ==
  /\ Held(h) /\ h = row.holder /\ Open /\ row.phase \notin Polling
  /\ holders' = [holders EXCEPT ![h] = "expired"]
  /\ UNCHANGED <<row, lease, browser, current, worker, device, poll,
                 refresh, rotated>>

\* A replica whose renewal is refused, or failed for too long, registers another
\* incarnation and gives up the old one, if it can reach the store.
ReplaceHolder(r) ==
  /\ Open /\ (Engaged(r) \/ poll.by = r) /\ row.phase \notin Polling
  /\ \E h \in Holders :
       /\ holders[h] = "unregistered"
       /\ current' = [current EXCEPT ![r] = h]
       /\ \E old \in {holders[current[r]], "expired"} :
            holders' = [holders EXCEPT ![h] = "live", ![current[r]] = old]
  /\ UNCHANGED <<row, lease, browser, worker, device, poll, refresh, rotated>>

Lost(r) == poll' = IF poll.by = r THEN NoPoll ELSE poll

\* A replica crashes, or drains its work and stops, and boots under another
\* holder, and under another refresh holder.  Its children die with it; the
\* supervisor only sees its pipe close.
Restart(r) ==
  /\ Open /\ Engaged(r)
  /\ Set(r, Idle) /\ Lost(r)
  /\ refresh' = IF refresh = r THEN None ELSE refresh
  /\ \E h \in Holders :
       /\ holders[h] = "unregistered"
       /\ current' = [current EXCEPT ![r] = h]
       /\ \E old \in {holders[current[r]]} \cup (IF At(r, "idle") THEN {"expired"} ELSE {}) :
            holders' = [holders EXCEPT ![h] = "live", ![current[r]] = old]
  /\ lease' = IF lease.kind = "refresh" /\ lease.by = r
              THEN [lease EXCEPT !.by = None] ELSE lease
  /\ UNCHANGED <<row, browser, device, rotated>>

\* An ordinary refresh.  Bounds: one at a time (LeaseStore has the others), and
\* none starts during the device login that could not have started before it.
Refresh(r) ==
  /\ refresh = None /\ ~Fenced /\ (row.phase = "none" \/ Leasing)
  /\ ~lease.live \/ (lease.kind = "refresh" /\ lease.by = r)
  /\ worker[r].pc \notin {"verifying", "abort", "release"}
  /\ lease' = [kind |-> "refresh", by |-> r, live |-> TRUE, released |-> FALSE]
  /\ refresh' = r
  /\ UNCHANGED <<row, holders, browser, current, worker, device, poll, rotated>>

\* The child is settled before its lease is released, or the lease just runs out.
Refreshed(r) ==
  /\ refresh = r /\ Leasing /\ refresh' = None
  /\ lease' \in {lease, IF lease.kind = "refresh" /\ lease.by = r THEN NoLease ELSE lease}
  /\ UNCHANGED <<row, holders, browser, current, worker, device, poll, rotated>>

Work(r) ==
  \/ Create(r)
  \/ /\ ~At(r, "idle")
     /\ \/ Launch(r) \/ PollTick(r) \/ AwaitSupervisor(r) \/ ReadReceipt(r) \/ Capture(r)
        \/ SaveStopped(r) \/ Publish(r) \/ Admit(r) \/ SettleOwner(r) \/ BeginVerification(r)
        \/ Provider(r) \/ Complete(r) \/ Abort(r) \/ Release(r) \/ Settle(r) \/ Report(r)
Supervise ==
  \/ SupStart \/ NativeGrant \/ SupRecord \/ SupPoll \/ SupRead \/ SupSettle
  \/ SupCancel \/ SupUnpublished \/ SupDies
Environment ==
  \/ Cancel \/ ExpireRow \/ ExpireLease
  \/ \E h \in Holders : ExpireHolder(h)
  \/ \E r \in Replicas : ReplaceHolder(r) \/ Restart(r) \/ Refresh(r) \/ Refreshed(r)

Next ==
  \/ \E r \in Replicas : Work(r) \/ Poll(r)
  \/ Supervise
  \/ PollReport \/ RecoverPolling \/ RecoverUnresolved \/ Takeover
  \/ Environment

Spec == Init /\ [][Next]_vars

---------------------------------------------------------------------------
(* A grant the provider issued is never forgotten: it is in the private    *)
(* login home, in the shared receipt or published; the receipt neither     *)
(* claims its absence nor ends as a login that issued nothing.             *)
GrantKept ==
  granted =>
    /\ home \in {"grant", "unreadable"} \/ row.grant \/ row.phase = "completed"
    /\ ~row.clear /\ row.phase \notin {"failed", "canceled"}

(* A receipt only moves forward: verification starts once, from a durable  *)
(* candidate, an unresolved attempt is never verified or completed, and a  *)
(* completed, failed, canceled or rejected receipt stays what it is.       *)
After(phase) ==
  CASE phase = "none" -> {"starting"}
    [] phase = "starting" -> {"pending", "candidate", "replica_lost", "unresolved",
                              "rejected", "failed", "canceled"}
    [] phase = "pending" -> {"candidate", "replica_lost", "unresolved",
                             "rejected", "failed", "canceled"}
    [] phase = "candidate" -> {"verifying", "unresolved", "rejected"}
    [] phase = "verifying" -> {"completed", "unresolved", "rejected"}
    [] phase = "replica_lost" -> {"unresolved"} \cup (IF browser THEN {"failed", "canceled"} ELSE {})
    [] phase = "unresolved" -> {"rejected"}
    [] OTHER -> {}
ReceiptOrder == [][row'.phase \in {row.phase} \cup After(row.phase)]_row

(* While one worker has settled the account for its candidate or verifies  *)
(* it, no other worker does and no replica refreshes the account, whatever *)
(* leases, holders and replicas were lost meanwhile.                       *)
Using(r) == worker[r].pc \in {"settled", "verifying"}
SoleUser ==
  \A r \in Replicas : Using(r) =>
    /\ refresh = None
    /\ \A s \in Replicas \ {r} : ~Using(s)

(* What is said of a failure is so: an operation reported as failed never  *)
(* completes, and a rejected one, which a later renewal may repair, has a  *)
(* grant that no provider call rotated.                                    *)
FailureTruthful ==
  /\ row.reported => row.phase # "completed"
  /\ row.phase = "rejected" => ~rotated

---------------------------------------------------------------------------
(* What the properties rest on.                                            *)

Ended == Terminal \cup {"unresolved"}
Decided == {"completed", "rejected", "unresolved"}
Candidacy == {"candidate", "verifying"}
\* The worker before it has a candidate; once it has claimed the account; and while
\* nobody else has it.
Logging == {"launch", "poll", "stop", "read", "capture", "canceling", "publish"}
Claiming == {"leased", "settled", "verifying", "abort", "release"}
Owning == {"leased", "settled", "verifying"}

\* The receipt: it exists under a holder, a candidate has its grant and identity, a
\* failure is told only of what has ended or issued no grant.
Receipt ==
  /\ row.phase = "none" => row = NoRow
  /\ row.phase # "none" => row.epoch > 0 /\ row.holder \in Holders
  /\ row.phase \in Candidacy => row.grant /\ row.identified
  /\ row.grant \/ row.phase \in Candidacy \cup {"completed"} => granted
  /\ row.reported => row.phase \in Ended \/ (row.phase \in Polling /\ row.clear)
  /\ row.clear => sup.pc \in {"canceling", "done"}
  /\ row.phase \in {"failed", "canceled"} => sup.pc \in {"none", "unpublished", "done"}
  /\ row.phase \in Candidacy => sup.pc \in {"unpublished", "done"}
  /\ row.epoch > 1 => sup.pc \in {"canceling", "unpublished", "done"}

\* A copy of the receipt is of an epoch that was, and as long as its epoch and its
\* sequence are the receipt's, so are its phase and its grant.
Copied(op) ==
  op.epoch > 0 =>
    /\ op.epoch <= row.epoch
    /\ op.phase \in Candidacy => op.grant
    /\ op.grant => granted
    /\ op.clear => ~granted /\ sup.pc \in {"canceling", "done"}
    /\ op.epoch = row.epoch =>
         /\ op.holder = row.holder /\ op.seq <= row.seq
         /\ op.phase \in Terminal => row.phase \in Ended
         /\ op.seq = row.seq => /\ op.phase \in {row.phase, "unresolved"}
                                /\ row.grant => op.grant

\* The device: nothing is in the home before the native login ran, which ends before
\* its supervisor looks for what it left.
Device ==
  /\ home = "empty" => ~granted
  /\ home \in {"grant", "unreadable"} => granted
  /\ sup.pc \in {"none", "start"} => native = "none" /\ home = "empty"
  /\ native \in {"running", "recorded"} => sup.pc \in {"spawned", "poll"}

Supervisor ==
  /\ sup.pc # "none" => row.phase # "none"
  /\ sup.pc \notin {"none", "done"} => sup.op.epoch = 1
  /\ sup.pc = "settle" /\ (sup.outcome = "success" \/ (sup.outcome = "canceled" /\ ~browser))
       => sup.op.phase \in Polling
  /\ sup.pc = "canceling" => sup.op.phase \in Polling /\ ~granted

Request ==
  /\ poll.pc # "idle" =>
       poll.op.epoch > 0 /\ poll.by \in Replicas /\ poll.holder \in Holders
  /\ poll.pc = "report" /\ poll.op.epoch = row.epoch => row.phase \in Ended

\* A worker knows of a grant only what is durable or in the home, and says that none
\* was issued only when none can be any more.
Worker(r) ==
  LET pc == worker[r].pc
      op == worker[r].op
  IN
  /\ IF pc = "idle" THEN op = NoOp ELSE op.epoch > 0
  /\ pc \in Logging => op.epoch = 1
  /\ pc = "launch" => sup.pc = "none" /\ op.phase = "starting"
  /\ pc \in {"read", "capture", "canceling", "publish"} => sup.pc = "done"
  /\ pc \notin {"idle", "launch", "poll", "stop"} => sup.pc \in {"none", "unpublished", "done"}
  /\ pc \in {"launch", "poll", "stop", "read"} /\ op.grant => row.grant \/ row.phase = "completed"
  /\ pc = "capture" => ~op.grant
  /\ pc = "canceling" /\ ~op.grant => op.phase \in Polling
  /\ pc \in {"canceling", "settle", "report", "grantless"} /\ ~op.grant /\ op.phase \in Polling
       => ~granted
  /\ pc = "publish" => op.grant /\ op.phase \notin Candidacy \cup {"unresolved"}
  /\ pc \in {"verify"} \cup Claiming => op.grant
  /\ pc = "report" /\ op.epoch = row.epoch => row.phase \in Ended

\* Each worker has an epoch of its own.  One that has claimed the account has its
\* lease, which nobody takes before the receipt is decided, and the receipt, until
\* it is given up as unresolved.
Distinct ==
  \A r, s \in Replicas : r # s /\ ~At(r, "idle") /\ ~At(s, "idle") =>
    /\ worker[r].op.epoch # worker[s].op.epoch
    /\ ~(worker[r].pc \in Claiming /\ worker[s].pc \in Claiming)
Claimed(r) ==
  LET pc == worker[r].pc
      op == worker[r].op
      mine == op.epoch = row.epoch
  IN
  /\ pc \in Claiming => LoginLease(op) \/ row.phase \in Decided
  /\ pc \in Claiming /\ ~mine => row.phase \in Decided
  /\ pc \in Owning => /\ LoginLease(op)
                      /\ mine => row.phase = IF pc = "verifying" THEN "verifying" ELSE "candidate"
                      /\ ~mine => /\ row.phase = "unresolved"
                                  /\ \A s \in Replicas : worker[s].op.epoch # row.epoch
  /\ pc = "release" => refresh # r

Leased ==
  /\ lease.released <=> lease.kind = "none"
  /\ lease.kind = "login" =>
       row.phase \in Decided \/ (row.phase \in Candidacy /\ lease.by = row.holder)
  /\ refresh # None =>
       \/ lease.kind = "refresh" /\ lease.by = refresh
       \/ /\ lease.kind = "login"
          /\ \A s \in Replicas \ {refresh} :
               /\ worker[s].pc \notin Claiming
               /\ row.phase \in Candidacy => worker[s].op.epoch # row.epoch

\* The grant is rotated in a verification only, whose receipt no worker of the
\* login and no supervisor writes any more.
Rotation ==
  /\ rotated => /\ row.phase \in {"verifying", "unresolved", "completed"}
                /\ sup.pc \in {"unpublished", "done"}
  /\ \A r \in Replicas :
       /\ worker[r].pc \in Logging \cup {"verify", "leased", "settled"}
            /\ worker[r].op.epoch = row.epoch => ~rotated
       /\ worker[r].pc = "abort" /\ worker[r].result = "refused" => ~rotated

(* The types; that a grant is never forgotten, that one worker uses the    *)
(* account at a time, and that what is said of a failure is so; and what   *)
(* makes them inductive.                                                   *)
IInv ==
  /\ TypeOK /\ GrantKept /\ SoleUser /\ FailureTruthful
  /\ Receipt /\ Device /\ Supervisor /\ Request
  /\ Copied(sup.op) /\ Copied(poll.op)
  /\ \A r \in Replicas : Copied(worker[r].op) /\ Worker(r) /\ Claimed(r)
  /\ Distinct /\ Leased /\ Rotation
=============================================================================
