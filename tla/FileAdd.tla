------------------------------ MODULE FileAdd ------------------------------
(***************************************************************************)
(* Adding an account by a login at a single server (file mode): a device   *)
(* starts it, a worker runs a login child, and the grant either becomes    *)
(* the new account, or lands as a renewal on the account that already has  *)
(* this login (src/central/relogin/add.rs).  The server may die between    *)
(* any two writes; a start audits the records and fences every account a   *)
(* saved grant overlaps, until the grant is admitted or discarded.         *)
(*                                                                         *)
(* There is one alias to add, by two devices of its user, and one account  *)
(* that is held already, by the same user or by another one.  A record is  *)
(* known by its place in the sequence, and so is the grant it was given.   *)
(* Promotion, verification and import are steps that succeed or fail:      *)
(* FileLogin and AccountImport have them write by write.                   *)
(***************************************************************************)
EXTENDS Integers, Sequences, FiniteSets

CONSTANTS
  Rounds  \* bounds, of which a behaviour has one: starts, cancels, revokes, renewals, crashes,
          \* errors; and mine, whether the held account is of the same user

VARIABLES
  recs,    \* the add records of the alias, oldest first, each with the renewal it landed as
  held,    \* the account that is held: avail, rpc, verified, latest renewal
  fresh,   \* the account that is added: the grant its vault has, verified
  job,     \* the worker of the last record, or the handler that discards it
  server,  \* up, stage, the records a start has still to audit
  gone,    \* revoked devices
  faulted, \* history: a step failed
  spare

fileAddVars == <<recs, held, fresh, job, server, gone, faulted, spare>>

None == 0
Devices == {1, 2}
NoJob ==
  [pc |-> "none", of |-> None, child |-> "none", canceled |-> FALSE, ends |-> "none",
   frees |-> FALSE, next |-> None]
NoAccount == [grant |-> None, verified |-> FALSE]

FileAddInit ==
  /\ recs = <<>>
  /\ held = [avail |-> TRUE, rpc |-> TRUE, verified |-> TRUE, latest |-> None]
  /\ fresh = NoAccount
  /\ job = NoJob
  /\ server = [up |-> TRUE, stage |-> "serve", todo |-> {}]
  /\ gone = {}
  /\ faulted = FALSE
  /\ spare \in Rounds

Spend(kind) == spare[kind] > 0 /\ spare' = [spare EXCEPT ![kind] = @ - 1]
Fault == Spend("errors") /\ faulted' = TRUE
Sound == UNCHANGED <<faulted, spare>>

---------------------------------------------------------------------------
Last == Len(recs)
Terminal(phase) == phase \in {"Completed", "Failed", "Canceled"}
Live(i) == job.of = i /\ job.child # "none"
Stopped(i) == recs[i].child # "running" \/ ~(job.of = i /\ job.child = "live")
Candidate(i) == recs[i].cand \/ recs[i].file
Resumable(i) ==
  /\ ~Terminal(recs[i].phase) /\ ~recs[i].landed /\ ~Live(i) /\ Stopped(i) /\ Candidate(i)
Reserves(i) ==
  /\ ~recs[i].retired /\ recs[i].phase # "Completed"
  /\ recs[i].cand \/ (Stopped(i) /\ recs[i].file)
\* What startup fences, and the launch of the held account asks for.
Overlapped == \E i \in DOMAIN recs : Reserves(i) /\ recs[i].of = "held"
\* The vault of the new account has this grant. Mutated form: it is not looked at.
NeverHolds(i) == FALSE
ImportHolds(i) == fresh.grant # None /\ recs[i].cand /\ recs[i].of = "new"
\* The latest renewal of the held account.
Renewal == recs[held.latest].renewal
OwnLogin == held.latest # None /\ Renewal # "Completed"
Committed(phase) == phase \in {"Committing", "Promoted"}

Put(i, r) == recs' = [recs EXCEPT ![i] = r]
Locked == job.pc \notin {"none", "spawn", "wait", "ended", "admit"}
At(pc) == server.up /\ job.pc = pc
Goto(pc) == job' = [job EXCEPT !.pc = pc]
Idle == server.up /\ server.stage = "serve" /\ job.pc = "none"
Serving == server.up /\ server.stage = "serve" /\ ~Locked

---------------------------------------------------------------------------
\* discard, write by write: the grant is retired before it is deleted, and the terminal phase
\* is written last. Mutated form: the terminal phase is written first.
EndedFirst(r, phase) == [r EXCEPT !.cand = FALSE, !.retired = TRUE, !.phase = phase]
Retired(r, phase) == [r EXCEPT !.cand = FALSE, !.retired = TRUE]
Discard(i, phase, frees) ==
  /\ Put(i, Retired(recs[i], phase))
  /\ job' = [job EXCEPT !.pc = "drop", !.of = i, !.ends = phase,
                        !.frees = frees /\ recs[i].of = "held"]
Drop ==
  /\ At("drop") /\ Goto("end") /\ recs' = [recs EXCEPT ![job.of].file = FALSE]
  /\ UNCHANGED <<held, fresh, server, gone, faulted, spare>>

\* release: a verified owner that was fenced for this grant is launched again. Mutated form:
\* the grant of an add that ended is not looked at.
NeverFreed == FALSE
Freed ==
  /\ job.frees /\ server.stage = "serve" /\ ~held.avail /\ ~held.rpc /\ ~OwnLogin
  /\ held.verified /\ ~\E i \in DOMAIN recs \ {job.of} : Reserves(i) /\ recs[i].of = "held"
NewRecord(device) ==
  [device |-> device, of |-> "none", file |-> FALSE, cand |-> FALSE, phase |-> "Starting",
   child |-> "none", retired |-> FALSE, landed |-> FALSE, renewal |-> "none"]
Started(next) == [NoJob EXCEPT !.pc = "spawn", !.of = next, !.child = "starting"]
End ==
  /\ At("end")
  /\ LET ended == [recs EXCEPT ![job.of].phase = job.ends] IN
     IF job.next = None
     THEN job' = NoJob /\ recs' = ended
     ELSE /\ recs' = Append(ended, NewRecord(job.next)) /\ job' = Started(Len(recs) + 1)
  /\ \/ ~Freed /\ UNCHANGED held /\ Sound
     \/ Freed /\ held' = [held EXCEPT !.avail = TRUE, !.rpc = TRUE] /\ Sound
     \/ Freed /\ UNCHANGED held /\ Fault
  /\ server' = [server EXCEPT !.todo = @ \ {job.of}]
  /\ UNCHANGED <<fresh, gone>>

---------------------------------------------------------------------------
\* The requests of a device: start, start again under a known id, status, cancel.

\* view: a landed record ends with its renewal, and as failed when nothing advances it.
Viewed(i) ==
  LET r == recs[i] IN
  IF ~r.landed \/ Terminal(r.phase) THEN r
  ELSE IF r.renewal \in {"Completed", "Canceled"} THEN [r EXCEPT !.phase = r.renewal]
  ELSE IF r.renewal = "Failed" \/ ~Live(i) THEN [r EXCEPT !.phase = "Failed"]
  ELSE r
Status(i) ==
  /\ Serving /\ recs[i].device \notin gone /\ Put(i, Viewed(i)) /\ recs' # recs
  /\ UNCHANGED <<held, fresh, job, server, gone, faulted, spare>>

\* An alias is added once the operation before it ended; one of a revoked device is discarded.
Stale(d, i) ==
  /\ recs[i].device # d /\ recs[i].device \in gone
  /\ ~Live(i) /\ ~recs[i].landed /\ Stopped(i)
Start(d) ==
  /\ Serving /\ d \notin gone /\ fresh.grant = None /\ Spend("starts")
  /\ LET seen == IF recs = <<>> THEN recs ELSE [recs EXCEPT ![Last] = Viewed(Last)] IN
     \/ /\ recs # <<>> => Terminal(seen[Last].phase)
        /\ recs' = Append(seen, NewRecord(d)) /\ job' = Started(Len(recs) + 1)
     \/ /\ recs # <<>> /\ ~Terminal(seen[Last].phase) /\ Stale(d, Last)
        /\ ~(recs[Last].retired /\ recs[Last].cand)
        /\ Put(Last, Retired(recs[Last], "Failed"))
        /\ job' = [NoJob EXCEPT !.pc = "drop", !.of = Last, !.ends = "Failed",
                                !.frees = recs[Last].of = "held", !.next = d]
  /\ UNCHANGED <<held, fresh, server, gone, faulted>>
\* resume: the admission of a saved grant is repeated, with no second login.
Resume(i) ==
  /\ Serving /\ recs[i].device \notin gone /\ Resumable(i) /\ Spend("starts")
  /\ job' = [NoJob EXCEPT !.pc = "admit", !.of = i, !.child = "ended"]
  /\ UNCHANGED <<recs, held, fresh, server, gone, faulted>>
Cancel(i) ==
  /\ Serving /\ recs[i].device \notin gone /\ Spend("cancels")
  /\ \/ Live(i) /\ job' = [job EXCEPT !.canceled = TRUE] /\ UNCHANGED recs
     \/ Resumable(i) /\ Discard(i, "Canceled", ~recs[i].retired)
  /\ UNCHANGED <<held, fresh, server, gone, faulted>>
RevokeDevice ==
  /\ server.up /\ gone = {} /\ Spend("revokes") /\ gone' = {1}
  /\ UNCHANGED <<recs, held, fresh, job, server, faulted>>

---------------------------------------------------------------------------
\* run: the login child, and what it leaves.

Spawn ==
  LET i == job.of IN
  /\ At("spawn")
  /\ \/ /\ Put(i, [recs[i] EXCEPT !.child = "running", !.phase = "Pending"])
        /\ job' = [job EXCEPT !.pc = "wait", !.child = "live"] /\ Sound
     \/ Put(i, [recs[i] EXCEPT !.phase = "Failed"]) /\ job' = NoJob /\ Fault
  /\ UNCHANGED <<held, fresh, server, gone>>
SignIn(login) ==
  LET i == job.of IN
  /\ At("wait") /\ job.child = "live" /\ recs[i].of = "none"
  /\ Put(i, [recs[i] EXCEPT !.of = login, !.file = TRUE])
  /\ UNCHANGED <<held, fresh, job, server, gone, faulted, spare>>
\* It exits, is killed (canceled, its device revoked, at the deadline), or fails, which it may
\* after it saved a grant.
Exit ==
  LET i == job.of
      killed == job.canceled \/ recs[i].device \in gone
      Exits(how) == job' = [job EXCEPT !.pc = "ended", !.child = "ended", !.ends = how]
  IN
  /\ At("wait")
  /\ \/ killed /\ Exits("Canceled") /\ Sound
     \/ ~killed /\ recs[i].file /\ Exits("none") /\ Sound
     \/ Exits("Failed") /\ Fault
  /\ UNCHANGED <<recs, held, fresh, server, gone>>
\* A renewal of the held account may have retired what the child saved.
Ended ==
  LET i == job.of
      r == [recs[i] EXCEPT !.child = "exited"]
  IN
  /\ At("ended")
  /\ IF recs[i].retired
     THEN job' = NoJob /\ UNCHANGED recs
     ELSE IF job.ends # "none"
     THEN Put(i, Retired(r, job.ends)) /\ Goto("drop")
     ELSE Put(i, [r EXCEPT !.cand = TRUE, !.phase = "Committing"]) /\ Goto("admit")
  /\ UNCHANGED <<held, fresh, server, gone, faulted, spare>>

---------------------------------------------------------------------------
\* admit: the grant lands on the account that has its login, or is imported as the new one.

\* settle_failure leaves a saved grant for a retry.
Settle(i) == job' = NoJob /\ recs' = [recs EXCEPT ![i].phase = "Committing"]
Admit ==
  LET i == job.of
      r == recs[i]
  IN
  /\ At("admit")
  /\ \/ /\ Terminal(r.phase) \/ r.landed \/ ~Candidate(i)
        /\ job' = NoJob /\ UNCHANGED recs
     \/ /\ ~Terminal(r.phase) /\ ~r.landed /\ Candidate(i)
        /\ IF r.device \in gone THEN Discard(i, "Canceled", TRUE)
           ELSE IF r.of = "held" /\ spare.mine THEN Goto("land") /\ UNCHANGED recs
           ELSE Put(i, [r EXCEPT !.retired = TRUE]) /\ Goto("import")
  /\ UNCHANGED <<held, fresh, server, gone, faulted, spare>>

\* import_account_locked: another user's login is refused; a vault that is there is retained.
Import ==
  LET i == job.of IN
  /\ At("import")
  /\ IF recs[i].of = "held"
     THEN Discard(i, "Failed", TRUE) /\ UNCHANGED fresh /\ Sound
     ELSE \/ /\ fresh' = [fresh EXCEPT !.grant = IF @ = None THEN i ELSE @]
             /\ Goto("verify") /\ UNCHANGED recs /\ Sound
          \/ Goto("back") /\ UNCHANGED <<recs, fresh>> /\ Fault
  /\ UNCHANGED <<held, server, gone>>
Verify ==
  /\ At("verify")
  /\ \/ /\ fresh' = [fresh EXCEPT !.verified = TRUE] /\ Goto("won") /\ Sound
     \/ Goto("back") /\ UNCHANGED fresh /\ Fault
  /\ UNCHANGED <<recs, held, server, gone>>
Won ==
  /\ At("won") /\ Discard(job.of, "Completed", FALSE)
  /\ UNCHANGED <<held, fresh, server, gone, faulted, spare>>
\* The reservation of a grant that the import does not hold comes back to the record.
Back ==
  /\ At("back") /\ job' = NoJob
  /\ recs' = [recs EXCEPT ![job.of].retired = ImportHolds(job.of)]
  /\ UNCHANGED <<held, fresh, server, gone, faulted, spare>>

---------------------------------------------------------------------------
\* land: the landing is recorded, the renewal published, the grant released, in this order.

Land ==
  LET i == job.of IN
  /\ At("land")
  /\ IF held.latest # None /\ ~Terminal(Renewal)
     THEN Discard(i, "Failed", FALSE) /\ UNCHANGED held /\ Sound
     ELSE \/ /\ held' = [held EXCEPT !.avail = FALSE, !.rpc = FALSE]
             /\ recs' = [recs EXCEPT ![i].landed = TRUE] /\ Goto("publish") /\ Sound
          \/ held' = [held EXCEPT !.avail = FALSE] /\ Settle(i) /\ Fault
  /\ UNCHANGED <<fresh, server, gone>>
\* publish may fail before its rename, or after.
Publish ==
  LET i == job.of IN
  /\ At("publish")
  /\ \/ /\ recs' = [recs EXCEPT ![i].renewal = "Starting"] /\ Goto("retire") /\ Sound
        /\ held' = [held EXCEPT !.latest = i]
     \/ /\ recs' = [recs EXCEPT ![i].landed = FALSE, ![i].phase = "Committing"]
        /\ job' = NoJob /\ UNCHANGED held /\ Fault
     \/ /\ recs' = [recs EXCEPT ![i].renewal = "Starting"] /\ job' = NoJob /\ Fault
        /\ held' = [held EXCEPT !.latest = i]
  /\ UNCHANGED <<fresh, server, gone>>
Retire ==
  /\ At("retire") /\ Goto("home")
  /\ Put(job.of, [recs[job.of] EXCEPT !.retired = TRUE, !.cand = FALSE])
  /\ UNCHANGED <<held, fresh, server, gone, faulted, spare>>
Home ==
  /\ At("home") /\ Goto("promote") /\ recs' = [recs EXCEPT ![job.of].file = FALSE]
  /\ UNCHANGED <<held, fresh, server, gone, faulted, spare>>
Promote ==
  LET i == job.of IN
  /\ At("promote")
  /\ \/ /\ recs' = [recs EXCEPT ![i].renewal = "Promoted"] /\ Goto("probe") /\ Sound
        /\ held' = [held EXCEPT !.verified = FALSE]
     \/ /\ \E phase \in {"Failed", "Committing"} : recs' = [recs EXCEPT ![i].renewal = phase]
        /\ job' = NoJob /\ UNCHANGED held /\ Fault
  /\ UNCHANGED <<fresh, server, gone>>
Served == [held EXCEPT !.avail = TRUE, !.rpc = TRUE, !.verified = TRUE]
Probe ==
  LET i == job.of IN
  /\ At("probe") /\ job' = NoJob
  /\ \/ /\ recs' = [recs EXCEPT ![i].renewal = "Completed", ![i].phase = "Completed"]
        /\ held' = Served /\ Sound
     \/ /\ \E phase \in {"Failed", "Promoted"} :
             recs' = [recs EXCEPT ![i].renewal = phase, ![i].phase = phase]
        /\ UNCHANGED held /\ Fault
  /\ UNCHANGED <<fresh, server, gone>>

\* A renewal of the held account through its own alias, or the repair of its last one: what
\* adds hold of this login is retired.
RetiredBy(i) ==
  LET r == recs[i] IN
  IF ~Terminal(r.phase) /\ Reserves(i) /\ r.of = "held"
  THEN [r EXCEPT !.retired = TRUE, !.cand = FALSE, !.file = FALSE, !.phase = "Failed"] ELSE r
Renew ==
  LET repair == held.latest # None /\ Committed(Renewal) IN
  /\ Serving /\ Spend("renewals")
  /\ recs' = [i \in DOMAIN recs |->
       IF repair /\ i = held.latest THEN [RetiredBy(i) EXCEPT !.renewal = "Completed"]
       ELSE RetiredBy(i)]
  /\ held' = [Served EXCEPT !.latest = IF repair THEN @ ELSE None]
  /\ UNCHANGED <<fresh, job, server, gone, faulted>>

---------------------------------------------------------------------------
\* The server dies. A start repairs renewals, audits the records of adds, and fences.

Crash ==
  /\ server.up /\ Spend("crashes")
  /\ server' = [up |-> FALSE, stage |-> "none", todo |-> {}] /\ job' = NoJob
  /\ held' = [held EXCEPT !.avail = FALSE, !.rpc = FALSE]
  /\ UNCHANGED <<recs, fresh, gone, faulted>>
Boot ==
  /\ ~server.up
  /\ server' = [up |-> TRUE, stage |-> "audit", todo |-> DOMAIN recs]
  /\ IF held.latest # None /\ Renewal \in {"Starting", "Committing"}
     THEN /\ recs' = [recs EXCEPT ![held.latest].renewal = "Promoted"]
          /\ held' = [held EXCEPT !.verified = FALSE]
     ELSE UNCHANGED <<recs, held>>
  /\ UNCHANGED <<fresh, job, gone, faulted, spare>>

\* A landing that was cut short belongs to the renewal, once that is published.
\* Mutated form: it belongs to the renewal.
Handed(r) == [r EXCEPT !.retired = TRUE, !.cand = FALSE, !.file = FALSE]
Landing(r) == IF r.renewal = "none" THEN [r EXCEPT !.landed = FALSE] ELSE Handed(r)
Admitted == fresh.grant # None /\ fresh.verified
Saved(i, r) ==
  [r EXCEPT !.cand = TRUE, !.child = "exited", !.phase = "Committing",
            !.retired = @ /\ ImportHolds(i)]
Audit(i) ==
  LET r == IF ~Terminal(recs[i].phase) /\ recs[i].landed THEN Landing(recs[i]) ELSE recs[i]
      had == r.cand \/ r.file
      ended == Terminal(r.phase) \/ r.landed
      DiscardAs(phase) ==
        /\ Put(i, Retired(r, phase))
        /\ job' = [NoJob EXCEPT !.pc = "drop", !.of = i, !.ends = phase]
        /\ UNCHANGED server
  IN
  /\ server.up /\ server.stage = "audit" /\ job.pc = "none" /\ i \in server.todo
  /\ IF ended THEN Put(i, r) /\ UNCHANGED job /\ server' = [server EXCEPT !.todo = @ \ {i}]
     ELSE IF r.retired /\ ~r.cand
     THEN DiscardAs(IF Admitted THEN "Completed" ELSE "Failed")
     ELSE IF r.device \in gone
     THEN DiscardAs(IF ImportHolds(i) THEN "Canceled" ELSE "Failed")
     ELSE IF had
     THEN Put(i, Saved(i, r)) /\ UNCHANGED job /\ server' = [server EXCEPT !.todo = @ \ {i}]
     ELSE DiscardAs("Failed")
  /\ UNCHANGED <<held, fresh, gone, faulted, spare>>

\* Mutated form: only the account's own renewals count.
OwnOnly == FALSE
Fenced == Overlapped
Fence ==
  LET repair == held.latest # None /\ Renewal = "Promoted"
      blocked == OwnLogin /\ ~repair
  IN
  /\ server.up /\ server.stage = "audit" /\ server.todo = {} /\ job.pc = "none"
  /\ server' = [server EXCEPT !.stage = "serve"]
  /\ \/ /\ repair /\ held' = Served /\ Sound
        /\ recs' = [i \in DOMAIN recs |->
             IF i = held.latest THEN [RetiredBy(i) EXCEPT !.renewal = "Completed"]
             ELSE RetiredBy(i)]
     \/ /\ ~repair /\ UNCHANGED recs /\ Sound
        /\ held' = IF blocked \/ Fenced THEN held ELSE Served
     \/ Fault /\ UNCHANGED <<recs, held>>
  /\ UNCHANGED <<fresh, job, gone>>

FileAddNext ==
  \/ Drop \/ End \/ RevokeDevice \/ Spawn \/ Exit \/ Ended \/ Admit \/ Import \/ Verify \/ Won
  \/ Back \/ Land \/ Publish \/ Retire \/ Home \/ Promote \/ Probe \/ Renew \/ Crash \/ Boot
  \/ Fence
  \/ \E d \in Devices : Start(d)
  \/ \E i \in DOMAIN recs : Status(i) \/ Resume(i) \/ Cancel(i) \/ Audit(i)
  \/ \E login \in {"held", "new"} : SignIn(login)

FileAddSpec == FileAddInit /\ [][FileAddNext]_fileAddVars

---------------------------------------------------------------------------
AddTypeOK ==
  /\ job.of \in 0..Len(recs) /\ held.latest \in 0..Len(recs) /\ fresh.grant \in 0..Len(recs)
  /\ \A i \in DOMAIN recs : recs[i].renewal # "none" => recs[i].of = "held"

\* A grant somebody signed in for is on disk until the operation ends or is being discarded:
\* in the record, in the renewal it landed as, or in the new account; and while the server
\* rests, exactly one of them reserves it.
GrantHeld ==
  \A i \in DOMAIN recs :
    LET r == recs[i] IN
    ~Terminal(r.phase) /\ r.of # "none" /\ ~(r.retired /\ ~r.cand /\ ~r.landed) =>
      /\ Candidate(i) \/ (r.landed /\ r.renewal # "none")
      /\ Idle /\ ~r.landed => r.retired = (fresh.grant = i)

\* A record that ended has no grant left (add.rs:57), unless its landing could not be
\* finished; and no record begins before the one before it ended.
TerminalClean ==
  \A i \in DOMAIN recs :
    LET r == recs[i] IN
    /\ Terminal(r.phase) /\ ~r.landed => ~Candidate(i)
    /\ Terminal(r.phase) /\ r.landed /\ ~faulted => r.retired /\ ~Candidate(i)
    /\ i < Last => Terminal(r.phase)

\* What a device is told is so: a completed add is an account that was verified, and one that
\* failed is not.  (A canceled one may have left the account.)
AddTruthful ==
  \A i \in DOMAIN recs :
    LET r == recs[i] IN
    /\ r.phase = "Completed" /\ ~r.landed => fresh.grant = i /\ fresh.verified
    /\ r.phase = "Completed" /\ r.landed => r.renewal = "Completed"
    /\ r.phase = "Failed" /\ ~r.landed => ~(fresh.grant = i /\ fresh.verified)

\* While the server rests, the held account serves exactly when no operation reserves a grant
\* of its login and no renewal of its own is unfinished: nothing is served beside a saved
\* grant, and nothing stays fenced for a grant that is gone.
FencedForGrant ==
  Idle =>
    /\ held.avail => /\ ~OwnLogin /\ held.verified
                     /\ ~\E i \in DOMAIN recs : Reserves(i) /\ recs[i].of = "held"
                                              /\ ~Terminal(recs[i].phase)
    /\ ~held.avail /\ ~faulted => Overlapped

FileAddIInv == AddTypeOK /\ GrantHeld /\ TerminalClean /\ AddTruthful /\ FencedForGrant
=============================================================================
