--------------------------- MODULE AccountImport ---------------------------
(***************************************************************************)
(* Imports at a single server (file mode): one login, which machines may   *)
(* import under several aliases, the directory each alias gets, the native *)
(* child that proves its grant, and restarts between any two writes        *)
(* (import_account_locked, prepare_owner, spawn_owner, serve in            *)
(* src/central/managed.rs, verify_migrated_owner in owner_request.rs, and  *)
(* the inventory of relogin/inventory.rs).  Imports hold the imports lock, *)
(* so one runs at a time; token requests run beside it.                    *)
(*                                                                         *)
(* Grants are numbers in the order they were issued.  The provider is      *)
(* external: a refresh supersedes the grant that is presented, and a       *)
(* superseded grant that is presented again revokes its whole chain.       *)
(***************************************************************************)
EXTENDS Integers, FiniteSets, Sequences

CONSTANTS
  Aliases,
  Lives  \* bounds, of which a behaviour has one: imports, sign-ins, revocations, token
         \* requests, crashes and stops of the server, deaths of children, failing calls

VARIABLES
  disk,    \* alias -> its directory
  child,   \* alias -> the last process started for it
  owner,   \* alias -> the server's Owner
  server,  \* up, unresolved, and blocked (while it starts)
  job,     \* the import or the start that holds the imports lock
  world,   \* external: of (the chain of each grant), dead; history: proved, handed, reused,
           \* twice (two processes), forgot (a failed start hides that an earlier process ran)
  spare

importVars == <<disk, child, owner, server, job, world, spare>>

None == 0
NoDir ==
  [dir |-> FALSE, vault |-> None, verified |-> FALSE, rejected |-> FALSE, home |-> FALSE,
   journal |-> None, failed |-> FALSE, pid |-> FALSE]
NoChild == [live |-> FALSE, tied |-> FALSE, grant |-> None, call |-> "none"]
NoOwner ==
  [known |-> FALSE, avail |-> FALSE, enabled |-> FALSE, rpc |-> FALSE, refused |-> FALSE,
   input |-> None, asked |-> FALSE]
NoJob == [is |-> "none", pc |-> "none", of |-> None, grant |-> None, todo |-> {}]
Down == [up |-> FALSE, unresolved |-> FALSE, blocked |-> FALSE]

ImportInit ==
  /\ disk = [a \in Aliases |-> NoDir] /\ child = [a \in Aliases |-> NoChild]
  /\ owner = [a \in Aliases |-> NoOwner] /\ job = NoJob
  /\ server = [Down EXCEPT !.up = TRUE]
  /\ world = [of |-> <<1>>, dead |-> {}, proved |-> {}, handed |-> [a \in Aliases |-> None],
              reused |-> FALSE, forgot |-> FALSE, twice |-> FALSE]
  /\ spare \in Lives

Spend(kind) == spare[kind] > 0 /\ spare' = [spare EXCEPT ![kind] = @ - 1]

---------------------------------------------------------------------------
\* The provider and the machines.

Grants == DOMAIN world.of
Superseded(g) == \E h \in Grants : h > g /\ world.of[h] = world.of[g]
\* The grants of sign-ins are the ones a machine can hand in.
SignedIn(g) == \A h \in Grants : h < g => world.of[h] # world.of[g]
SignIn ==
  /\ Spend("signins")
  /\ world' = [world EXCEPT !.of = Append(@, Len(@) + 1)]
  /\ UNCHANGED <<disk, child, owner, server, job>>
Revoke ==
  /\ Spend("revokes")
  /\ \E g \in Grants : world' = [world EXCEPT !.dead = @ \cup {world.of[g]}]
  /\ UNCHANGED <<disk, child, owner, server, job>>

---------------------------------------------------------------------------
\* The native child of an alias. A call may, or must, present its grant; what it is given
\* in turn is in the journal before anyone hears of it.

Calling(a) == child[a].call \in {"may", "must"}
Present(a) ==
  LET g == child[a].grant
      c == world.of[g]
      next == Len(world.of) + 1
  IN
  /\ child[a].live /\ Calling(a)
  /\ IF c \in world.dead \/ Superseded(g)
     THEN /\ world' = [world EXCEPT !.dead = @ \cup {c}, !.reused = @ \/ c \notin world.dead]
          /\ child' = [child EXCEPT ![a].call = "refused"] /\ UNCHANGED disk
     ELSE /\ world' = [world EXCEPT !.of = Append(@, c), !.proved = @ \cup {c}]
          /\ child' = [child EXCEPT ![a].call = "done", ![a].grant = next]
          /\ disk' = [disk EXCEPT ![a].journal = next]
  /\ UNCHANGED <<owner, server, job, spare>>
Skip(a) ==
  /\ child[a].live /\ child[a].call = "may"
  /\ child' = [child EXCEPT ![a].call = "done"]
  /\ UNCHANGED <<disk, owner, server, job, world, spare>>
Err(a) ==
  /\ child[a].live /\ Calling(a) /\ Spend("errors")
  /\ child' = [child EXCEPT ![a].call = "failed"]
  /\ UNCHANGED <<disk, owner, server, job, world>>
\* It dies, or an orphan notices that its input is closed.
Dies(a) ==
  /\ child[a].live
  /\ IF child[a].tied THEN Spend("deaths") ELSE ~Calling(a) /\ UNCHANGED spare
  /\ child' = [child EXCEPT ![a] = [NoChild EXCEPT !.grant = child[a].grant]]
  /\ UNCHANGED <<disk, owner, server, job, world>>

---------------------------------------------------------------------------
\* Evidence on disk.

NotStarted(a) == ~disk[a].pid /\ disk[a].failed
\* previous_owner_exited. Mutated form: a pid that is not there is a process that is not.
StoppedWithoutPid(a) == ~disk[a].pid \/ ~child[a].live
Stopped(a) == ~disk[a].home \/ NotStarted(a) \/ (disk[a].pid /\ ~child[a].live)
Readable(a) == disk[a].vault # None /\ (disk[a].home => disk[a].journal # None)

\* clear_registry_inner, for the other directories: all of them hold this login.
\* Mutated form: an import that ended without a rejection yields too.
YieldsStopped(a) == ~disk[a].verified /\ Stopped(a)
Yields(a) == ~disk[a].verified /\ Stopped(a) /\ (disk[a].rejected \/ NotStarted(a))
Clear(mine) ==
  \A a \in Aliases \ {mine} : disk[a].dir => Readable(a) /\ Yields(a)

\* reconcile_journal. Mutated form: the newer grant wins, also against a replacement of a
\* rejected one.
ReconciledByAge(s) == IF s.journal > s.vault THEN s.journal ELSE s.vault
Reconciled(s) ==
  IF (~s.verified /\ s.rejected) \/ s.journal > s.vault THEN s.journal ELSE s.vault
\* Owner::snapshot: the vault follows the journal, a child's or a reconciled one.
Snapshot(s, o) ==
  LET j == IF o.rpc THEN s.journal ELSE Reconciled(s) IN
  [s EXCEPT !.journal = j, !.vault = j,
            !.rejected = IF s.verified THEN @
                         ELSE IF o.rpc THEN o.refused /\ o.input = j
                         ELSE @ /\ s.vault = j]
Snap(a) == disk' = [disk EXCEPT ![a] = Snapshot(@, owner[a])]

---------------------------------------------------------------------------
\* Import: admission.

At(pc) == server.up /\ job.pc = pc
Goto(pc) == job' = [job EXCEPT !.pc = pc]
Quit == job' = NoJob
Shut(a) == child' = [child EXCEPT ![a].live = FALSE, ![a].tied = FALSE]

Import(a, g) ==
  /\ server.up /\ job = NoJob /\ SignedIn(g) /\ Spend("imports")
  /\ job' = [NoJob EXCEPT !.is = "import", !.pc = "admit", !.of = a, !.grant = g]
  /\ UNCHANGED <<disk, child, owner, server, world>>

\* Every Owner's inventory is readable, or nothing is imported before a restart; an
\* unverified Owner of this login under another alias is settled.
Others == {a \in Aliases \ {job.of} : owner[a].known /\ ~disk[a].verified}
Settling == {a \in Others : owner[a].rpc}
Admit ==
  /\ At("admit") /\ \A a \in Aliases : ~owner[a].asked
  /\ IF server.unresolved \/ \E a \in Aliases : owner[a].known /\ ~Readable(a)
     THEN Quit /\ server' = [server EXCEPT !.unresolved = TRUE] /\ UNCHANGED <<disk, child, owner>>
     ELSE /\ \/ \* shutdown waits for an open call, and wants a clean exit
                /\ \E a \in Settling : Calling(a) \/ ~child[a].live
                /\ Quit /\ UNCHANGED <<disk, child, owner>>
             \/ /\ \E a \in Others \ Settling : ~Stopped(a)
                /\ Quit /\ UNCHANGED <<disk, child, owner>>
             \/ /\ \A a \in Settling : ~Calling(a)
                /\ \A a \in Others \ Settling : Stopped(a)
                /\ child' = [a \in Aliases |-> IF a \in Settling
                               THEN [child[a] EXCEPT !.live = FALSE, !.tied = FALSE] ELSE child[a]]
                /\ owner' = [a \in Aliases |-> IF a \in Others
                               THEN [owner[a] EXCEPT !.avail = FALSE] ELSE owner[a]]
                /\ disk' = [a \in Aliases |-> IF a \in Others
                              THEN Snapshot(disk[a], owner[a]) ELSE disk[a]]
                /\ Goto("clear")
          /\ UNCHANGED server
  /\ UNCHANGED <<world, spare>>

\* The registry, then the alias's own Owner: one that serves is probed, any other stopped.
Own ==
  LET a == job.of IN
  /\ At("clear") /\ ~owner[a].asked
  /\ IF ~Clear(a) \/ (disk[a].dir /\ ~owner[a].known)
     THEN Quit /\ UNCHANGED <<disk, child, owner>>
     ELSE IF ~disk[a].dir THEN Goto("mkdir") /\ UNCHANGED <<disk, child, owner>>
     ELSE IF disk[a].verified /\ owner[a].avail
     THEN /\ Quit /\ UNCHANGED disk
          /\ \/ /\ child[a].live /\ child[a].call = "none"
                /\ child' = [child EXCEPT ![a].call = "may"]
                /\ owner' = [owner EXCEPT ![a].asked = TRUE]
             \/ (~child[a].live \/ child[a].call # "none") /\ UNCHANGED <<child, owner>>
     ELSE \/ /\ owner[a].rpc /\ ~child[a].live /\ Goto("replace") /\ UNCHANGED child
             /\ owner' = [owner EXCEPT ![a].rpc = FALSE]
             /\ disk' = [disk EXCEPT ![a] = Snapshot(@, owner'[a])]
          \/ /\ owner[a].rpc /\ child[a].live /\ ~Calling(a) /\ Shut(a) /\ Snap(a)
             /\ Goto("replace") /\ UNCHANGED owner
          \/ /\ ~owner[a].rpc /\ Stopped(a) /\ Snap(a) /\ UNCHANGED <<child, owner>>
             /\ Goto("replace")
          \/ /\ IF owner[a].rpc THEN child[a].live /\ Calling(a) ELSE ~Stopped(a)
             /\ Quit /\ UNCHANGED <<disk, child, owner>>
  /\ UNCHANGED <<server, world, spare>>

\* A rejected grant yields to another one, in the journal first; any other is retained.
Replaceable == ~disk[job.of].verified /\ disk[job.of].rejected /\ disk[job.of].vault # job.grant
Replace ==
  /\ At("replace")
  /\ IF Replaceable
     THEN /\ disk' = [disk EXCEPT ![job.of].journal = job.grant]
          /\ world' = [world EXCEPT !.handed[job.of] = world.of[job.grant]] /\ Goto("replaced")
     ELSE Goto("prepare") /\ UNCHANGED <<disk, world>>
  /\ UNCHANGED <<child, owner, server, spare>>
Replaced ==
  /\ At("replaced") /\ Goto("prepare")
  /\ disk' = [disk EXCEPT ![job.of].vault = job.grant, ![job.of].rejected = FALSE]
  /\ UNCHANGED <<child, owner, server, world, spare>>
Create ==
  /\ \/ /\ At("mkdir") /\ Goto("create") /\ UNCHANGED world
        /\ disk' = [disk EXCEPT ![job.of].dir = TRUE]
     \/ /\ At("create") /\ Goto("prepare")
        /\ disk' = [disk EXCEPT ![job.of].vault = job.grant]
        /\ world' = [world EXCEPT !.handed[job.of] = world.of[job.grant]]
  /\ UNCHANGED <<child, owner, server, spare>>

---------------------------------------------------------------------------
\* prepare_owner, write by write, for an import or for a start that only reads what is
\* pending.

Starting == job.is = "start"
Pending == Starting /\ ~disk[job.of].verified
Onward == IF Starting THEN Goto("inventory") ELSE Goto("admitted")
Prepared ==
  owner' = [owner EXCEPT ![job.of] =
    [NoOwner EXCEPT !.known = TRUE, !.avail = ~Pending, !.enabled = ~Pending]]
Unprepared ==
  /\ IF Starting
     THEN /\ owner' = [owner EXCEPT ![job.of] = [NoOwner EXCEPT !.known = TRUE]]
          /\ Goto("inventory")
     ELSE UNCHANGED owner /\ Quit
Prepare ==
  LET s == disk[job.of] IN
  /\ \/ /\ At("prepare") /\ s.home
        /\ IF (~Pending \/ s.pid => Stopped(job.of)) /\ s.journal # None
           THEN /\ Prepared /\ Onward
                /\ disk' = [disk EXCEPT ![job.of] = Snapshot(@, NoOwner)]
           ELSE Unprepared /\ UNCHANGED disk
     \/ /\ At("prepare") /\ ~s.home /\ Goto("seed")
        /\ disk' = [disk EXCEPT ![job.of].home = TRUE] /\ UNCHANGED owner
     \/ /\ At("seed") /\ Goto("seeded")
        /\ disk' = [disk EXCEPT ![job.of].journal = s.vault] /\ UNCHANGED owner
     \/ /\ At("seeded") /\ Prepared /\ Onward
        /\ disk' = [disk EXCEPT ![job.of].failed = TRUE]
  /\ UNCHANGED <<child, server, world, spare>>

---------------------------------------------------------------------------
\* clear_for_launch, spawn_owner, initialize_owner, and the probe of an import. What fails
\* leaves an Owner that serves nobody, with its process.

NextStart == job' = [job EXCEPT !.pc = "launch", !.of = None]
Failed ==
  /\ owner' = [owner EXCEPT ![job.of].avail = FALSE]
  /\ IF Starting THEN NextStart ELSE Quit

Cleared ==
  /\ At("admitted")
  /\ IF Stopped(job.of) /\ Clear(job.of)
     THEN Goto("spawn") /\ UNCHANGED owner
     ELSE Failed
  /\ UNCHANGED <<disk, child, server, world, spare>>

\* Neither evidence of an earlier process outlives the next one.
\* Mutated form: the record of a failed start is left.
ForgetPid(s) == [s EXCEPT !.pid = FALSE]
Forget(s) == [s EXCEPT !.failed = FALSE, !.pid = FALSE]
Spawn ==
  LET a == job.of IN
  /\ At("spawn") /\ Goto("fork")
  /\ disk' = [disk EXCEPT ![a] = [Forget(@) EXCEPT !.rejected = @ /\ disk[a].verified]]
  /\ owner' = [owner EXCEPT ![a].input = IF disk[a].verified THEN @ ELSE disk[a].vault]
  /\ UNCHANGED <<child, server, world, spare>>
Fork ==
  LET a == job.of IN
  /\ At("fork")
  /\ \/ /\ Goto("pid") /\ UNCHANGED <<disk, spare>>
        /\ world' = [world EXCEPT !.twice = @ \/ \E b \in Aliases : child[b].live]
        /\ child' = [child EXCEPT ![a] =
             [live |-> TRUE, tied |-> TRUE, grant |-> disk[a].journal, call |-> "none"]]
        /\ owner' = [owner EXCEPT ![a].rpc = TRUE]
     \/ /\ Spend("errors") /\ Failed /\ UNCHANGED child
        /\ disk' = [disk EXCEPT ![a].failed = TRUE]
        /\ world' = [world EXCEPT !.forgot = @ \/ child[a].grant # None]
  /\ UNCHANGED server
Capture ==
  LET a == job.of IN
  /\ At("pid")
  /\ IF child[a].live
     THEN /\ disk' = [disk EXCEPT ![a].pid = TRUE]
          /\ child' = [child EXCEPT ![a].call = "may"] /\ Goto("init") /\ UNCHANGED owner
     ELSE Failed /\ UNCHANGED <<disk, child>>
  /\ UNCHANGED <<server, world, spare>>

\* What a call ends with: an answer, a death, or a deadline while the child goes on.
GivesUp(a) ==
  \/ ~child[a].live \/ child[a].call = "failed"
  \/ Calling(a)
Initialized ==
  LET a == job.of IN
  /\ At("init")
  /\ \/ /\ child[a].live /\ child[a].call = "done" /\ Snap(a) /\ UNCHANGED spare
        /\ IF Starting
           THEN /\ NextStart /\ child' = [child EXCEPT ![a].call = "none"]
                /\ owner' = [owner EXCEPT ![a].enabled = TRUE, ![a].avail = TRUE]
           ELSE /\ Goto("probe") /\ child' = [child EXCEPT ![a].call = "must"]
                /\ owner' = [owner EXCEPT ![a].enabled = TRUE,
                                          ![a].input = IF disk[a].verified THEN @
                                                       ELSE disk[a].journal]
     \/ /\ child[a].live /\ child[a].call = "refused"
        /\ child' = [child EXCEPT ![a].call = "none"]
        /\ owner' = [owner EXCEPT ![a].refused = TRUE, ![a].avail = FALSE]
        /\ disk' = [disk EXCEPT ![a] = Snapshot(@, owner'[a])]
        /\ IF Starting THEN NextStart ELSE Quit
        /\ UNCHANGED spare
     \/ /\ GivesUp(a) /\ (Calling(a) => Spend("errors")) /\ (~Calling(a) => UNCHANGED spare)
        /\ Failed /\ (Snap(a) \/ UNCHANGED disk)
        /\ child' = IF child[a].call = "failed" THEN [child EXCEPT ![a].call = "none"] ELSE child
  /\ UNCHANGED <<server, world>>

Proof(a) == child[a].live /\ child[a].call = "done"
Probed ==
  LET a == job.of IN
  /\ At("probe")
  /\ \/ /\ Proof(a) /\ child' = [child EXCEPT ![a].call = "none"]
        /\ disk' = [disk EXCEPT ![a] = [Snapshot(@, owner[a]) EXCEPT !.verified = TRUE]]
        /\ owner' = [owner EXCEPT ![a].input = None] /\ Quit /\ UNCHANGED spare
     \/ /\ child[a].live /\ child[a].call = "refused"
        /\ child' = [child EXCEPT ![a].call = "none"]
        /\ owner' = [owner EXCEPT ![a].refused = TRUE, ![a].avail = FALSE]
        /\ disk' = [disk EXCEPT ![a] = Snapshot(@, owner'[a])] /\ Quit /\ UNCHANGED spare
     \/ /\ GivesUp(a) /\ (Calling(a) => Spend("errors")) /\ (~Calling(a) => UNCHANGED spare)
        /\ Failed /\ Snap(a)
        /\ child' = IF child[a].call = "failed" THEN [child EXCEPT ![a].call = "none"] ELSE child
  /\ UNCHANGED <<server, world>>

---------------------------------------------------------------------------
\* A token request of an account that serves.
Ask(a) ==
  /\ server.up /\ ~Starting /\ job.of # a /\ owner[a].avail /\ owner[a].enabled /\ ~owner[a].asked
  /\ child[a].live /\ child[a].call = "none" /\ Spend("tokens")
  /\ \E call \in {"may", "must"} : child' = [child EXCEPT ![a].call = call]
  /\ owner' = [owner EXCEPT ![a].asked = TRUE]
  /\ UNCHANGED <<disk, server, job, world>>
Answered(a) ==
  /\ server.up /\ owner[a].asked
  /\ \/ /\ child[a].live /\ child[a].call \in {"done", "failed", "refused"} /\ UNCHANGED spare
        /\ child' = [child EXCEPT ![a].call = "none"]
     \/ ~child[a].live /\ UNCHANGED <<child, spare>>
     \/ Calling(a) /\ Spend("errors") /\ UNCHANGED child
  /\ owner' = [owner EXCEPT ![a].asked = FALSE,
                            ![a].refused = @ \/ child[a].call = "refused",
                            ![a].avail = @ /\ child[a].call # "refused"]
  /\ Snap(a)
  /\ UNCHANGED <<server, job, world>>

---------------------------------------------------------------------------
\* The server dies, or stops after its work, when every process has ended cleanly.
Cut == [a \in Aliases |-> [child[a] EXCEPT !.tied = FALSE]]
Crash ==
  /\ server.up /\ Spend("crashes")
  /\ server' = Down /\ job' = NoJob /\ owner' = [a \in Aliases |-> NoOwner] /\ child' = Cut
  /\ UNCHANGED <<disk, world>>
Stop ==
  LET running == {a \in Aliases : owner[a].rpc /\ child[a].live}
      ended == {a \in Aliases : owner[a].known /\ (owner[a].avail \/ owner[a].rpc)} IN
  /\ server.up /\ job = NoJob /\ \A a \in Aliases : ~owner[a].asked /\ ~Calling(a)
  /\ Spend("stops")
  /\ server' = Down /\ owner' = [a \in Aliases |-> NoOwner]
  /\ child' = [a \in Aliases |-> IF a \in running
                 THEN [child[a] EXCEPT !.live = FALSE, !.tied = FALSE] ELSE child[a]]
  /\ disk' = [a \in Aliases |-> IF a \in ended THEN Snapshot(disk[a], owner[a]) ELSE disk[a]]
  /\ UNCHANGED <<job, world>>

\* serve: every directory is inventoried and prepared before the first launch.
Start ==
  /\ ~server.up /\ server' = [Down EXCEPT !.up = TRUE]
  /\ job' = [NoJob EXCEPT !.is = "start", !.pc = "inventory",
                          !.todo = {a \in Aliases : disk[a].dir}]
  /\ UNCHANGED <<disk, child, owner, world, spare>>
Inventory(a) ==
  /\ At("inventory") /\ a \in job.todo
  /\ IF disk[a].vault = None
     THEN /\ server' = [server EXCEPT !.unresolved = TRUE, !.blocked = @ \/ ~Stopped(a)]
          /\ job' = [job EXCEPT !.todo = @ \ {a}]
     ELSE /\ job' = [job EXCEPT !.todo = @ \ {a}, !.of = a, !.pc = "prepare"]
          /\ server' = IF Readable(a) THEN server
                       ELSE [server EXCEPT !.unresolved = TRUE, !.blocked = @ \/ ~Stopped(a)]
  /\ UNCHANGED <<disk, child, owner, world, spare>>
Inventoried ==
  /\ At("inventory") /\ job.todo = {}
  /\ job' = [job EXCEPT !.pc = "launch", !.of = None,
                        !.todo = {a \in Aliases : owner[a].avail /\ ~server.blocked}]
  /\ owner' = [a \in Aliases |-> [owner[a] EXCEPT !.avail = @ /\ ~server.blocked]]
  /\ UNCHANGED <<disk, child, server, world, spare>>
Launch(a) ==
  /\ At("launch") /\ a \in job.todo
  /\ job' = [job EXCEPT !.todo = @ \ {a}, !.of = a, !.pc = "admitted"]
  /\ UNCHANGED <<disk, child, owner, server, world, spare>>
Started ==
  /\ At("launch") /\ job.todo = {} /\ Quit
  /\ server' = [server EXCEPT !.blocked = FALSE]
  /\ UNCHANGED <<disk, child, owner, world, spare>>

ImportNext ==
  \/ SignIn \/ Revoke
  \/ \E a \in Aliases : Present(a) \/ Skip(a) \/ Err(a) \/ Dies(a) \/ Ask(a) \/ Answered(a)
  \/ \E a \in Aliases, g \in Grants : Import(a, g)
  \/ Admit \/ Own \/ Replace \/ Replaced \/ Create \/ Prepare
  \/ Cleared \/ Spawn \/ Fork \/ Capture \/ Initialized \/ Probed
  \/ Crash \/ Stop \/ Start \/ \E a \in Aliases : Inventory(a) \/ Launch(a)
  \/ Inventoried \/ Started

ImportSpec == ImportInit /\ [][ImportNext]_importVars

---------------------------------------------------------------------------
ImportTypeOK ==
  /\ \A a \in Aliases : {disk[a].journal, disk[a].vault} \subseteq Grants \cup {None}
  /\ job.of \in Aliases \cup {None}

\* No process ever presents a grant that was superseded, so none of this server's own
\* refreshes revokes a login: not a second alias, a retry, or a restart. Only an alias whose
\* last start failed yields although an earlier process of it may have refreshed.
NoReuse == world.reused => world.forgot

\* One process and one verified account per login.
OneOwner ==
  /\ ~world.twice
  /\ Cardinality({a \in Aliases : disk[a].verified}) <= 1

\* The newest grant of a login that lives is in the journal of an alias: a refresh is
\* never lost, and no older copy takes its place.
RotationKept ==
  \A g \in Grants : ~SignedIn(g) /\ ~Superseded(g) /\ world.of[g] \notin world.dead =>
    \E a \in Aliases : disk[a].journal = g

\* An alias holds the chain it was last handed, across a crash between the two writes
\* that replace a rejected one; and only a refreshed one is verified.
HandedKept ==
  \A a \in Aliases :
    /\ disk[a].journal # None => world.of[disk[a].journal] = world.handed[a]
    /\ disk[a].verified => world.handed[a] \in world.proved

ImportIInv == ImportTypeOK /\ NoReuse /\ OneOwner /\ RotationKept /\ HandedKept
=============================================================================
