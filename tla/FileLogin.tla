----------------------------- MODULE FileLogin -----------------------------
(***************************************************************************)
(* Login renewal at a single server (file mode): a device starts a renewal *)
(* of an alias, a worker stops the alias's process and runs a login child, *)
(* somebody signs in, and the grant is promoted into the journal and the   *)
(* vault, verified by a new process, and only then serves (src/central/    *)
(* relogin/http.rs, worker.rs, recover.rs and state.rs, and the start of   *)
(* serve in managed.rs).  The server may die between any two writes, and   *)
(* takes its children with it (PR_SET_PDEATHSIG).                          *)
(*                                                                         *)
(* Each alias has a login of its own, and a sign-in may be of any of them. *)
(* Grants are numbers in the order they were issued.  The provider is      *)
(* external: a refresh supersedes the grant that is presented, and a       *)
(* superseded grant that is presented again revokes its whole chain.       *)
(***************************************************************************)
EXTENDS Integers, Sequences

CONSTANTS
  Aliases,
  Turns  \* bounds, of which a behaviour has one: starts, sign-ins, cancels, token requests,
         \* revocations, crashes, failing steps

VARIABLES
  disk,    \* alias -> vault, journal and the evidence of its last process
  recs,    \* alias -> its login operations, oldest first
  proc,    \* alias -> its native process
  login,   \* alias -> the login child of its last operation
  owner,   \* alias -> the server's Owner
  job,     \* alias -> the worker of its renewal, a repair, or its part in a start
  lock,    \* the alias whose job holds the imports lock
  server,  \* up, boot (its incarnation), stage, todo
  world,   \* external: of (login and chain of each grant), dead; history: reused, proved,
           \* retired
  spare

fileLoginVars == <<disk, recs, proc, login, owner, job, lock, server, world, spare>>

None == 0
NoProc == [live |-> FALSE, call |-> "none"]
NoLogin == "none"
NoOwner ==
  [avail |-> FALSE, rpc |-> FALSE, refused |-> FALSE, input |-> None, repairing |-> FALSE]
NoJob == [is |-> "none", pc |-> "none"]

FileLoginInit ==
  /\ disk = [a \in Aliases |->
       [vault |-> a, journal |-> a, verified |-> TRUE, rejected |-> FALSE, failed |-> FALSE,
        pid |-> TRUE]]
  /\ recs = [a \in Aliases |-> <<>>]
  /\ proc = [a \in Aliases |-> [NoProc EXCEPT !.live = TRUE]]
  /\ login = [a \in Aliases |-> NoLogin]
  /\ owner = [a \in Aliases |-> [NoOwner EXCEPT !.avail = TRUE, !.rpc = TRUE]]
  /\ job = [a \in Aliases |-> NoJob]
  /\ lock = None
  /\ server = [up |-> TRUE, boot |-> 1, stage |-> "serve", todo |-> {}]
  /\ world = [of |-> [a \in Aliases |-> [login |-> a, chain |-> a]], dead |-> {},
              reused |-> FALSE, proved |-> {}, retired |-> {}]
  /\ spare \in Turns

Spend(kind) == spare[kind] > 0 /\ spare' = [spare EXCEPT ![kind] = @ - 1]

---------------------------------------------------------------------------
\* The provider, the process and the login child of an alias.

Grants == DOMAIN world.of
Chain(g) == world.of[g].chain
LoginOf(g) == world.of[g].login
Superseded(g) == \E h \in Grants : h > g /\ Chain(h) = Chain(g)

Revoke ==
  /\ Spend("revokes")
  /\ \E g \in Grants : world' = [world EXCEPT !.dead = @ \cup {Chain(g)}]
  /\ UNCHANGED <<disk, recs, proc, login, owner, job, lock, server>>

Calling(a) == proc[a].call \in {"may", "must"}
Present(a) ==
  LET g == disk[a].journal
      next == Len(world.of) + 1
  IN
  /\ proc[a].live /\ Calling(a)
  /\ IF Chain(g) \in world.dead \/ Superseded(g)
     THEN /\ world' = [world EXCEPT !.dead = @ \cup {Chain(g)},
                                    !.reused = @ \/ Chain(g) \notin world.dead]
          /\ proc' = [proc EXCEPT ![a].call = "refused"] /\ UNCHANGED disk
     ELSE /\ world' = [world EXCEPT !.of = Append(@, @[g]), !.proved = @ \cup {Chain(g)}]
          /\ proc' = [proc EXCEPT ![a].call = "done"]
          /\ disk' = [disk EXCEPT ![a].journal = next]
  /\ UNCHANGED <<recs, login, owner, job, lock, server, spare>>
Skip(a) ==
  /\ proc[a].live /\ proc[a].call = "may" /\ proc' = [proc EXCEPT ![a].call = "done"]
  /\ UNCHANGED <<disk, recs, login, owner, job, lock, server, world, spare>>

\* Whoever has the code signs in with a login of theirs; the child saves the grant, and ends.
LastAt(a) == Len(recs[a])
Last(a) == recs[a][LastAt(a)]
SignIn(a, l) ==
  /\ login[a] = "live" /\ Last(a).file = None /\ Last(a).phase = "Pending" /\ Spend("signins")
  /\ LET next == Len(world.of) + 1 IN
     /\ world' = [world EXCEPT !.of = Append(@, [login |-> l, chain |-> next])]
     /\ recs' = [recs EXCEPT ![a][LastAt(a)].file = next]
  /\ UNCHANGED <<disk, proc, login, owner, job, lock, server>>
Exit(a) ==
  /\ login[a] = "live"
  /\ \/ Last(a).file # None /\ login' = [login EXCEPT ![a] = "ok"] /\ UNCHANGED spare
     \/ Spend("errors") /\ login' = [login EXCEPT ![a] = "failed"]
  /\ UNCHANGED <<disk, recs, proc, owner, job, lock, server, world>>

---------------------------------------------------------------------------
\* Evidence on disk.

InCommit(r) == r.phase \in {"Committing", "Promoted", "Retiring"}
Renewing(a) == recs[a] # <<>> /\ InCommit(Last(a))
\* stopped: the child ended, or the server that started it did.
LoginStopped(a, i) ==
  LET r == recs[a][i] IN
  \/ r.child \in {"none", "exited"} \/ r.boot # server.boot
  \/ r.child = "running" /\ (i = LastAt(a) => login[a] # "live")
\* The grant that an operation reserves.
Reserved(a, i) ==
  LET r == recs[a][i] IN
  IF r.retired \/ r.phase = "Completed" THEN None
  ELSE IF r.auth # None THEN r.auth
  ELSE IF LoginStopped(a, i) THEN r.file ELSE None
Operations == UNION {{<<a, i>> : i \in DOMAIN recs[a]} : a \in Aliases}
Holding(l) ==
  {x \in Operations : Reserved(x[1], x[2]) # None /\ LoginOf(Reserved(x[1], x[2])) = l}
\* previous_owner_exited. The exit of the server that was about to start the process proves
\* its exit too.
ProcStopped(a) ==
  \/ ~disk[a].pid /\ disk[a].failed
  \/ disk[a].pid /\ ~proc[a].live
  \/ Renewing(a) /\ Last(a).verifier \notin {None, server.boot}

\* reconcile_journal and Owner::snapshot.
Reconciled(s) ==
  IF (~s.verified /\ s.rejected) \/ s.journal > s.vault THEN s.journal ELSE s.vault
Snapshot(s, o) ==
  LET j == IF o.rpc THEN s.journal ELSE Reconciled(s) IN
  [s EXCEPT !.journal = j, !.vault = j,
            !.rejected = IF s.verified THEN @
                         ELSE IF o.rpc THEN o.refused /\ o.input = j
                         ELSE @ /\ s.vault = j]
Snap(a) == disk' = [disk EXCEPT ![a] = Snapshot(@, owner[a])]

---------------------------------------------------------------------------
\* A device starts a renewal, and the worker runs up to the sign-in.

At(a, pc) == server.up /\ job[a].pc = pc
Free(a, pc) == At(a, pc) /\ lock = None
Held(a, pc) == At(a, pc) /\ lock = a
Goto(a, pc) == job' = [job EXCEPT ![a].pc = pc]
Quit(a) == job' = [job EXCEPT ![a] = NoJob]
\* A worker that fails lets go of the lock first; a start goes on with the next alias.
Bail(a) ==
  /\ lock' = None
  /\ IF job[a].is = "login" THEN Goto(a, "fail") ELSE Quit(a)
SetPhase(a, phase) == recs' = [recs EXCEPT ![a][LastAt(a)].phase = phase]

Start(a) ==
  /\ server.up /\ server.stage = "serve" /\ lock = None /\ job[a] = NoJob /\ ~Renewing(a)
  /\ recs[a] # <<>> => LoginStopped(a, LastAt(a))
  /\ Spend("starts")
  /\ recs' = [recs EXCEPT ![a] = Append(@,
       [phase |-> "Starting", child |-> "none", boot |-> server.boot, auth |-> None,
        file |-> None, retired |-> FALSE, verifier |-> None, original |-> disk[a].vault])]
  /\ owner' = [owner EXCEPT ![a].avail = FALSE]
  /\ job' = [job EXCEPT ![a] = [is |-> "login", pc |-> "stop"]]
  /\ UNCHANGED <<disk, proc, login, lock, server, world>>

\* settle_and_stop waits for a call that may still rotate the grant.
Settle(a) ==
  /\ ~Calling(a) /\ proc' = [proc EXCEPT ![a] = NoProc]
  /\ owner' = [owner EXCEPT ![a].rpc = FALSE]
StopOwner(a) ==
  /\ Free(a, "stop")
  /\ IF owner[a].rpc \/ ProcStopped(a)
     THEN /\ Settle(a) /\ Goto(a, "spawn")
          /\ disk' = [disk EXCEPT ![a] = Snapshot(@, owner'[a])]
          /\ recs' = [recs EXCEPT ![a][LastAt(a)].original = disk'[a].vault]
     ELSE Goto(a, "fail") /\ UNCHANGED <<disk, recs, proc, owner>>
  /\ UNCHANGED <<login, lock, server, world, spare>>

\* The intent, the child and its evidence are one critical section.
Spawn(a) ==
  /\ Free(a, "spawn") /\ lock' = a /\ Goto(a, "fork")
  /\ recs' = [recs EXCEPT ![a][LastAt(a)].child = "spawning"]
  /\ UNCHANGED <<disk, proc, login, owner, server, world, spare>>
Fork(a) ==
  /\ Held(a, "fork") /\ lock' = None
  /\ \/ /\ login' = [login EXCEPT ![a] = "live"] /\ Goto(a, "wait") /\ UNCHANGED spare
        /\ recs' = [recs EXCEPT ![a][LastAt(a)].child = "running"]
     \/ /\ Spend("errors") /\ Goto(a, "fail") /\ UNCHANGED login
        /\ recs' = [recs EXCEPT ![a][LastAt(a)].child = "none"]
  /\ UNCHANGED <<disk, proc, owner, server, world>>
Prompt(a) ==
  /\ Free(a, "wait") /\ login[a] = "live" /\ Last(a).phase = "Starting"
  /\ SetPhase(a, "Pending")
  /\ UNCHANGED <<disk, proc, login, owner, job, lock, server, world, spare>>

\* The child ends, or is killed: canceled, at the deadline, at shutdown; or unreadable.
Awaited(a) ==
  /\ At(a, "wait")
  /\ \/ login[a] \in {"ok", "failed"} /\ UNCHANGED <<login, spare>>
     \/ Spend("cancels") /\ login' = [login EXCEPT ![a] = "canceled"]
     \/ Spend("errors") /\ login' = [login EXCEPT ![a] = "failed"]
  /\ Goto(a, "land")
  /\ UNCHANGED <<disk, recs, proc, owner, lock, server, world>>

---------------------------------------------------------------------------
\* The grant lands, under the imports lock. The repair of another alias may have retired it.

\* Mutated form: the worker writes its own copy of the record back.
Unretired(r) == FALSE
Retired(r) == r.retired

Landed(r, how) ==
  [r EXCEPT !.child = "exited", !.auth = r.file, !.retired = FALSE,
            !.phase = IF how = "canceled" THEN "Canceled" ELSE @]
Land(a) ==
  LET r == Last(a)
      mine == r.file # None /\ LoginOf(r.file) = a
      wrong == r.file # None /\ LoginOf(r.file) # a
  IN
  /\ Free(a, "land")
  /\ IF Retired(r)
     THEN Quit(a) /\ UNCHANGED <<recs, lock, spare>>
     ELSE /\ recs' = [recs EXCEPT ![a][LastAt(a)] = Landed(r, login[a])]
          /\ \/ wrong /\ Goto(a, "wrong") /\ lock' = a /\ UNCHANGED spare
             \/ ~wrong /\ login[a] = "canceled" /\ Quit(a) /\ UNCHANGED <<lock, spare>>
             \/ /\ ~wrong /\ login[a] # "canceled" /\ (login[a] = "failed" \/ ~mine)
                /\ Goto(a, "fail") /\ UNCHANGED <<lock, spare>>
             \/ mine /\ login[a] = "ok" /\ Goto(a, "commit") /\ lock' = a /\ UNCHANGED spare
             \/ \* the device was revoked meanwhile
                mine /\ login[a] = "ok" /\ Spend("errors") /\ Goto(a, "fail") /\ UNCHANGED lock
  /\ UNCHANGED <<disk, proc, login, owner, server, world>>

\* A grant of another login is retained, and that login serves no more. Mutated form: only
\* the alias of the renewal is fenced.
OnlyMine(a, b) == b = a
ToFence(a, b) == LoginOf(disk[b].vault) = LoginOf(Last(a).auth) \/ login[b] = "live" \/ b = a
Fenced(a) == {b \in Aliases : ToFence(a, b)}
Wrong(a) ==
  LET ended == {b \in Fenced(a) : owner[b].rpc} IN
  /\ Held(a, "wrong") /\ \A b \in ended : ~Calling(b)
  /\ SetPhase(a, "Failed")
  /\ proc' = [b \in Aliases |-> IF b \in ended THEN NoProc ELSE proc[b]]
  /\ disk' = [b \in Aliases |-> IF b \in ended THEN Snapshot(disk[b], owner[b]) ELSE disk[b]]
  /\ owner' = [b \in Aliases |-> IF b \in Fenced(a)
                 THEN [owner[b] EXCEPT !.avail = FALSE, !.rpc = FALSE] ELSE owner[b]]
  /\ Bail(a) /\ UNCHANGED <<login, server, world, spare>>

\* What is past the intent to commit stays there for a repair.
Fail(a) ==
  /\ Free(a, "fail") /\ Quit(a)
  /\ owner' = [owner EXCEPT ![a].avail = FALSE]
  /\ SetPhase(a, IF InCommit(Last(a)) THEN Last(a).phase ELSE "Failed")
  /\ UNCHANGED <<disk, proc, login, lock, server, world, spare>>

---------------------------------------------------------------------------
\* promote, write by write; each write may fail.

Candidate(r) == IF r.auth # None THEN r.auth ELSE r.file
Promotable(a) ==
  LET g == Candidate(Last(a)) IN LoginOf(g) = a /\ disk[a].vault \in {Last(a).original, g}
Refuse(a) == Spend("errors") /\ Bail(a) /\ UNCHANGED <<disk, recs, owner>>
Commit(a) ==
  /\ Held(a, "commit")
  /\ IF Promotable(a)
     THEN \/ /\ Goto(a, "journal") /\ UNCHANGED <<disk, owner, lock, spare>>
             /\ recs' = [recs EXCEPT ![a][LastAt(a)].phase = "Committing",
                                     ![a][LastAt(a)].auth = Candidate(Last(a))]
          \/ Refuse(a)
     ELSE Bail(a) /\ UNCHANGED <<disk, recs, owner, spare>>
  /\ UNCHANGED <<proc, login, server, world>>
WriteJournal(a) ==
  /\ Held(a, "journal")
  /\ \/ /\ disk' = [disk EXCEPT ![a].journal = Last(a).auth]
        /\ Goto(a, "vault") /\ UNCHANGED <<recs, owner, lock, spare>>
     \/ Refuse(a)
  /\ UNCHANGED <<proc, login, server, world>>
WriteVault(a) ==
  /\ Held(a, "vault")
  /\ \/ /\ disk' = [disk EXCEPT ![a].vault = Last(a).auth, ![a].verified = FALSE,
                                ![a].rejected = FALSE]
        /\ Goto(a, "promoted") /\ UNCHANGED <<recs, owner, lock, spare>>
     \/ Refuse(a)
  /\ UNCHANGED <<proc, login, server, world>>
Promoted(a) ==
  /\ Held(a, "promoted")
  /\ \/ /\ SetPhase(a, "Promoted") /\ UNCHANGED <<disk, spare>>
        /\ IF job[a].is = "start"
           THEN /\ owner' = [owner EXCEPT ![a].repairing = TRUE]
                /\ Quit(a) /\ lock' = None
           ELSE owner' = [owner EXCEPT ![a].avail = TRUE] /\ Goto(a, "verify") /\ UNCHANGED lock
     \/ Refuse(a)
  /\ UNCHANGED <<proc, login, server, world>>

---------------------------------------------------------------------------
\* verify_replacement: a new process must refresh the grant.

\* finish_rejection: a grant that was refused as it stands ends the operation.
VerifyFails(a, s, o) ==
  /\ lock' = None
  /\ IF job[a].is = "login" THEN Goto(a, "fail") ELSE Quit(a)
  /\ IF ~s.verified /\ s.rejected
     THEN /\ proc' = [proc EXCEPT ![a] = NoProc] /\ SetPhase(a, "Failed")
          /\ owner' = [owner EXCEPT ![a] = [o EXCEPT !.avail = FALSE, !.rpc = FALSE]]
     ELSE owner' = [owner EXCEPT ![a] = [o EXCEPT !.avail = FALSE]] /\ UNCHANGED <<proc, recs>>
  /\ disk' = [disk EXCEPT ![a] = s]

Verify(a) ==
  /\ Held(a, "verify") /\ Goto(a, "intent")
  /\ disk' = [disk EXCEPT ![a] = [Snapshot(@, owner[a]) EXCEPT !.verified = FALSE,
                                                               !.rejected = FALSE]]
  /\ owner' = [owner EXCEPT ![a].input = disk'[a].vault, ![a].refused = FALSE]
  /\ UNCHANGED <<recs, proc, login, lock, server, world, spare>>
\* The server that starts the process is recorded before older evidence is dropped.
\* Mutated form: it is not.
KeepVerifier(r) == r
NameVerifier(r) == [r EXCEPT !.verifier = server.boot]
Intent(a) ==
  /\ Held(a, "intent")
  /\ IF ProcStopped(a)
     THEN /\ recs' = [recs EXCEPT ![a][LastAt(a)] = NameVerifier(@)] /\ Goto(a, "forget")
          /\ UNCHANGED <<disk, proc, owner, lock>>
     ELSE VerifyFails(a, disk[a], owner[a])
  /\ UNCHANGED <<login, server, world, spare>>

Restoring(a) == job[a].is = "restore"
Forget(a) ==
  /\ Held(a, "forget") /\ Goto(a, "exec")
  /\ disk' = [disk EXCEPT ![a].failed = FALSE, ![a].pid = FALSE]
  /\ UNCHANGED <<recs, proc, login, owner, lock, server, world, spare>>
Exec(a) ==
  /\ Held(a, "exec")
  /\ \/ /\ proc' = [proc EXCEPT ![a] = [live |-> TRUE, call |-> "may"]]
        /\ disk' = [disk EXCEPT ![a].pid = TRUE]
        /\ owner' = [owner EXCEPT ![a].rpc = TRUE]
        /\ Goto(a, "init") /\ UNCHANGED <<recs, lock, spare>>
     \/ Spend("errors") /\ VerifyFails(a, [disk[a] EXCEPT !.failed = TRUE], owner[a])
  /\ UNCHANGED <<login, server, world>>

\* A call ends with an answer, or at its deadline while the process goes on.
Ends(a, s, o) ==
  /\ VerifyFails(a, s, o)
  /\ IF Calling(a) THEN Spend("errors") ELSE proc[a].call = "refused" /\ UNCHANGED spare
Refused(a) == [owner[a] EXCEPT !.refused = @ \/ proc[a].call = "refused"]
Initialize(a) ==
  /\ Held(a, "init")
  /\ \/ /\ proc[a].call = "done" /\ UNCHANGED <<recs, spare>>
        /\ Snap(a)
        /\ IF Restoring(a)
           THEN /\ proc' = [proc EXCEPT ![a].call = "none"]
                /\ owner' = [owner EXCEPT ![a].avail = TRUE] /\ Quit(a) /\ lock' = None
           ELSE /\ proc' = [proc EXCEPT ![a].call = "must"]
                /\ owner' = [owner EXCEPT ![a].input = disk[a].journal]
                /\ Goto(a, "probe") /\ UNCHANGED lock
     \/ Ends(a, Snapshot(disk[a], Refused(a)), Refused(a))
  /\ UNCHANGED <<login, server, world>>
Probe(a) ==
  /\ Held(a, "probe")
  /\ \/ /\ proc[a].call = "done" /\ proc' = [proc EXCEPT ![a].call = "none"]
        /\ disk' = [disk EXCEPT ![a] = [Snapshot(@, owner[a]) EXCEPT !.verified = TRUE]]
        /\ Goto(a, "retiring") /\ UNCHANGED <<recs, owner, lock, spare>>
     \/ Ends(a, Snapshot(disk[a], Refused(a)), Refused(a))
  /\ UNCHANGED <<login, server, world>>

\* What other operations hold of this login is retired before the operation is complete.
Retiring(a) ==
  /\ Held(a, "retiring") /\ Goto(a, "retire") /\ SetPhase(a, "Retiring")
  /\ UNCHANGED <<disk, proc, login, owner, lock, server, world, spare>>
ToRetire(a) == Holding(LoginOf(disk[a].vault)) \ {<<a, LastAt(a)>>}
Superseding(r) ==
  [r EXCEPT !.retired = TRUE, !.phase = IF @ \in {"Starting", "Pending"} THEN "Failed" ELSE @]
Retire(a) ==
  /\ world' = [world EXCEPT !.retired = @ \cup ToRetire(a)]
  /\ recs' = [b \in Aliases |-> [i \in DOMAIN recs[b] |->
       IF <<b, i>> \in ToRetire(a) THEN Superseding(recs[b][i])
       ELSE IF <<b, i>> = <<a, LastAt(a)>> THEN [recs[b][i] EXCEPT !.phase = "Completed"]
       ELSE recs[b][i]]]
Complete(a) ==
  /\ Held(a, "retire")
  /\ \/ Retire(a) /\ Quit(a) /\ lock' = None /\ UNCHANGED <<disk, proc, owner, spare>>
     \/ Spend("errors") /\ VerifyFails(a, disk[a], owner[a]) /\ UNCHANGED world
  /\ UNCHANGED <<login, server>>

---------------------------------------------------------------------------
\* recover: an operation that was cut short is finished, repeated from its candidate, or
\* fails; a start calls it for every alias, a device's next request for its own.

\* Mutated form: a promoted grant is promoted again.
AnyUnfinished(r) == r.phase \in {"Starting", "Pending", "Committing", "Promoted"}
Unfinished(r) == r.phase \in {"Starting", "Pending", "Committing"}
Finishable(a) == Last(a).phase = "Retiring" /\ disk[a].verified
Interrupted(r) ==
  LET ended == ~r.retired /\ r.phase \in {"Starting", "Pending"} IN
  [r EXCEPT !.phase = IF ended THEN "Failed" ELSE @,
            !.auth = IF r.retired \/ r.phase = "Completed" THEN @ ELSE Candidate(r)]
Rejected(a) == ~disk[a].verified /\ disk[a].rejected
Open(a) == recs[a] # <<>> /\ ~Last(a).retired /\ Last(a).phase # "Completed"
Undecided(a) == Open(a) /\ (Unfinished(Last(a)) \/ InCommit(Last(a)))
Resumes(a) == Open(a) /\ Unfinished(Last(a)) /\ Candidate(Last(a)) # None /\ Promotable(a)
Verifies(a) == Open(a) /\ Last(a).phase \in {"Promoted", "Retiring"} /\ ~Finishable(a)
\* Everything that is not the last operation in progress, or is and cannot go on.
Closed(a) ==
  [i \in DOMAIN recs[a] |->
    LET r == recs[a][i] IN
    IF i = LastAt(a) /\ Open(a) /\ (Resumes(a) \/ (Verifies(a) /\ ~Rejected(a))) THEN r
    ELSE IF i = LastAt(a) /\ Open(a) /\ Verifies(a) THEN [r EXCEPT !.phase = "Failed"]
    ELSE Interrupted(r)]

\* start_owned, when the last operation of the alias is past its intent to commit.
Repair(a) ==
  /\ server.up /\ server.stage = "serve" /\ lock = None /\ job[a] = NoJob /\ Renewing(a)
  /\ Spend("starts")
  /\ IF owner[a].rpc \/ ProcStopped(a)
     THEN /\ Settle(a)
          /\ \/ /\ Finishable(a) /\ lock' = a /\ Retire(a)
                /\ disk' = [disk EXCEPT ![a] = Snapshot(@, owner'[a])]
                /\ job' = [job EXCEPT ![a] = [is |-> "restore", pc |-> "clear"]]
             \/ /\ ~Finishable(a) /\ recs' = [recs EXCEPT ![a] = Closed(a)]
                /\ UNCHANGED <<disk, world>>
                /\ IF Resumes(a) \/ (Verifies(a) /\ ~Rejected(a))
                   THEN /\ lock' = a
                        /\ job' = [job EXCEPT ![a] =
                             [is |-> "repair", pc |-> IF Resumes(a) THEN "commit" ELSE "verify"]]
                   ELSE UNCHANGED <<lock, job>>
     ELSE UNCHANGED <<disk, recs, proc, owner, job, lock, world>>
  /\ UNCHANGED <<login, server>>

\* clear_for_launch of an account that was verified: no other operation holds its login.
\* Mutated form: reservations are not looked at.
NoneReserved(a) == FALSE
IsReserved(a) == Holding(LoginOf(disk[a].vault)) # {}
Clear(a) ==
  /\ Held(a, "clear")
  /\ IF ProcStopped(a) /\ ~IsReserved(a)
     THEN Goto(a, "forget") /\ UNCHANGED <<owner, lock>>
     ELSE owner' = [owner EXCEPT ![a].avail = FALSE] /\ Quit(a) /\ lock' = None
  /\ UNCHANGED <<disk, recs, proc, login, server, world, spare>>

---------------------------------------------------------------------------
\* The server dies, and starts: every alias is recovered, then prepared, then launched.

Crash ==
  /\ server.up /\ Spend("crashes")
  /\ server' = [server EXCEPT !.up = FALSE]
  /\ proc' = [a \in Aliases |-> NoProc] /\ login' = [a \in Aliases |-> NoLogin]
  /\ owner' = [a \in Aliases |-> NoOwner] /\ job' = [a \in Aliases |-> NoJob] /\ lock' = None
  /\ UNCHANGED <<disk, recs, world>>
Boot ==
  /\ ~server.up
  /\ server' = [up |-> TRUE, boot |-> server.boot + 1, stage |-> "recover", todo |-> Aliases]
  /\ UNCHANGED <<disk, recs, proc, login, owner, job, lock, world, spare>>
Staged(stage) == server.up /\ server.stage = stage /\ lock = None
Did(a) == server' = [server EXCEPT !.todo = @ \ {a}]

RecoverOne(a) ==
  /\ Staged("recover") /\ a \in server.todo /\ Did(a)
  /\ IF Undecided(a) /\ ~ProcStopped(a) THEN UNCHANGED <<recs, world, owner, job, lock>>
     ELSE IF Undecided(a) /\ Finishable(a) THEN Retire(a) /\ UNCHANGED <<owner, job, lock>>
     ELSE /\ recs' = [recs EXCEPT ![a] = Closed(a)] /\ UNCHANGED world
          /\ IF Resumes(a)
             THEN /\ lock' = a /\ UNCHANGED owner
                  /\ job' = [job EXCEPT ![a] = [is |-> "start", pc |-> "commit"]]
             ELSE /\ UNCHANGED <<job, lock>>
                  /\ owner' = [owner EXCEPT ![a].repairing = Verifies(a) /\ ~Rejected(a)]
  /\ UNCHANGED <<disk, proc, login, spare>>

\* An alias whose last operation did not succeed serves nobody.
Blocked(a) ==
  recs[a] # <<>> /\ Last(a).phase \notin {"Completed", "Promoted", "Retiring"}
Prepare ==
  /\ Staged("recover") /\ server.todo = {}
  /\ disk' = [a \in Aliases |-> IF ProcStopped(a) THEN Snapshot(disk[a], NoOwner) ELSE disk[a]]
  /\ owner' = [a \in Aliases |-> [owner[a] EXCEPT !.avail =
       ProcStopped(a) /\ ~Blocked(a) /\ (disk[a].verified \/ owner[a].repairing)]]
  /\ server' = [server EXCEPT !.stage = "launch",
                              !.todo = {a \in Aliases : owner'[a].avail}]
  /\ UNCHANGED <<recs, proc, login, job, lock, world, spare>>
Launch(a) ==
  /\ Staged("launch") /\ a \in server.todo /\ Did(a)
  /\ IF owner[a].repairing
     THEN /\ lock' = a /\ UNCHANGED owner
          /\ job' = [job EXCEPT ![a] = [is |-> "start", pc |-> "verify"]]
     ELSE IF IsReserved(a)
     THEN owner' = [owner EXCEPT ![a].avail = FALSE] /\ UNCHANGED <<job, lock>>
     ELSE /\ lock' = a /\ UNCHANGED owner
          /\ job' = [job EXCEPT ![a] = [is |-> "restore", pc |-> "clear"]]
  /\ UNCHANGED <<disk, recs, proc, login, world, spare>>
Serve ==
  /\ Staged("launch") /\ server.todo = {}
  /\ server' = [server EXCEPT !.stage = "serve"]
  /\ UNCHANGED <<disk, recs, proc, login, owner, job, lock, world, spare>>

\* A token request, whose answer may come late.
Ask(a) ==
  /\ server.up /\ server.stage = "serve" /\ owner[a].avail /\ lock # a /\ proc[a].live
  /\ proc[a].call \in {"none", "done"} /\ Spend("tokens")
  /\ proc' = [proc EXCEPT ![a].call = "may"]
  /\ UNCHANGED <<disk, recs, login, owner, job, lock, server, world>>

FileLoginNext ==
  \/ Revoke \/ Crash \/ Boot \/ Prepare \/ Serve
  \/ \E a \in Aliases :
       \/ Present(a) \/ Skip(a) \/ Exit(a) \/ Ask(a) \/ \E l \in Aliases : SignIn(a, l)
       \/ Start(a) \/ StopOwner(a) \/ Spawn(a) \/ Fork(a) \/ Prompt(a) \/ Awaited(a)
       \/ Land(a) \/ Wrong(a) \/ Fail(a)
       \/ Commit(a) \/ WriteJournal(a) \/ WriteVault(a) \/ Promoted(a)
       \/ Verify(a) \/ Intent(a) \/ Forget(a) \/ Exec(a) \/ Initialize(a) \/ Probe(a)
       \/ Retiring(a) \/ Complete(a)
       \/ Repair(a) \/ Clear(a) \/ RecoverOne(a) \/ Launch(a)

FileLoginSpec == FileLoginInit /\ [][FileLoginNext]_fileLoginVars

---------------------------------------------------------------------------
FileLoginTypeOK ==
  /\ lock \in Aliases \cup {None}
  /\ \A a \in Aliases :
       /\ {disk[a].vault, disk[a].journal} \subseteq Grants
       /\ \A i \in DOMAIN recs[a] : {recs[a][i].auth, recs[a][i].file} \subseteq Grants \cup {None}

\* No process ever presents a grant that was superseded: a verification that is repeated
\* after a failure or a crash goes on from the grant the last one was given.
NoReuse == ~world.reused

\* The newest grant of a login's living chain is in the alias's journal from the promotion
\* on, whatever fails; and an operation is complete only when a process refreshed its grant.
GrantKept ==
  \A a \in Aliases :
    LET r == Last(a) IN
    recs[a] # <<>> /\ r.phase \in {"Promoted", "Retiring", "Completed"} =>
      /\ Chain(disk[a].journal) = Chain(r.auth)
      /\ Superseded(disk[a].journal) => Chain(r.auth) \in world.dead
      /\ r.phase # "Promoted" => Chain(r.auth) \in world.proved

\* An alias holds grants of its own login only, and serves none that is not verified, while
\* no login child of it runs.
OwnLogin ==
  \A a \in Aliases :
    /\ LoginOf(disk[a].journal) = a /\ LoginOf(disk[a].vault) = a
    /\ owner[a].avail /\ server.stage = "serve" /\ lock # a =>
         disk[a].verified /\ login[a] # "live" /\ ~Renewing(a)

\* A login whose grant another alias retains is served to nobody until it is renewed.
ReservedUnserved ==
  \A a \in Aliases :
    owner[a].avail /\ server.stage = "serve" /\ lock # a =>
      \A x \in Holding(a) :
        x[2] = LastAt(x[1]) /\ job[x[1]].pc \in {"wait", "land", "wrong"}

\* A grant that was retired stays retired, whatever its worker still does.
RetiredStays == \A x \in world.retired : recs[x[1]][x[2]].retired

\* A crash during a verification leaves evidence that its process ended.
ExitProvable ==
  \A a \in Aliases : ~server.up /\ Renewing(a) =>
    disk[a].pid \/ disk[a].failed \/ Last(a).verifier # None

FileLoginIInv ==
  /\ FileLoginTypeOK /\ NoReuse /\ GrantKept /\ OwnLogin /\ ReservedUnserved /\ RetiredStays
  /\ ExitProvable
=============================================================================
