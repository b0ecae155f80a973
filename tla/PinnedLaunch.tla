---------------------------- MODULE PinnedLaunch ----------------------------
(***************************************************************************)
(* A launch of Codex that is pinned to one server account                  *)
(* (src/src/central/native/launch.rs): its private directory with the      *)
(* approved connection, the lock that says its launcher lives, the sweep   *)
(* of directories left behind, and the helper that Codex calls for a       *)
(* token.  The directory of a launcher bears the launcher's name here.     *)
(*                                                                         *)
(* The owner's lock goes with its process, however that ends, and a probe  *)
(* of the lock holds it for a moment when nobody else does.                *)
(***************************************************************************)
EXTENDS Naturals, FiniteSets

CONSTANTS
  Launchers, Helpers,
  None,
  LaunchBounds  \* how a behaviour may go: [revs, crashes, faults, helpers] (bounds)

VARIABLES
  lane,      \* directories: [dir, owner, conn], the latter two the files in it
  held,      \* who holds the lock on a lane's owner.lock
  sweep,     \* who holds sweep.lock
  launcher,  \* [pc, todo: lanes still to sweep, bills: what the operator saw]
  child,     \* the Codex of a launch
  helper,    \* [pc, lane, seen: the connection read first, latest: read last, token]
  service,   \* the server: revision and billing of the account
  bounds,
  served     \* history: lanes with a token given out after the close, whether one
             \* billed unasked, and lanes whose close failed

launchVars == <<lane, held, sweep, launcher, child, helper, service, bounds, served>>

NoDirectory == [dir |-> FALSE, owner |-> FALSE, conn |-> None]
NoHelper == [pc |-> "idle", lane |-> None, seen |-> None, latest |-> None, token |-> None]

LaunchInit ==
  /\ lane = [l \in Launchers |-> NoDirectory] /\ held = [l \in Launchers |-> None]
  /\ sweep = None
  /\ launcher = [l \in Launchers |-> [pc |-> "idle", todo |-> {}, bills |-> FALSE]]
  /\ child = [l \in Launchers |-> "none"]
  /\ helper = [h \in Helpers |-> NoHelper]
  /\ service \in [rev : {0}, bills : BOOLEAN]
  /\ bounds \in LaunchBounds
  /\ served = [late |-> {}, unasked |-> FALSE, unclosed |-> {}]

---------------------------------------------------------------------------
At(l, pc) == launcher[l].pc = pc
Move(l, pc) == launcher' = [launcher EXCEPT ![l].pc = pc]

\* Mutated form: a directory goes whatever its owner's lock says.
SweepableAny(x) == TRUE
\* Nobody holds the owner's lock, or the file is not there.
Sweepable(x) == lane[x].owner => held[x] = None

\* sweep_stale_launches, all of it under sweep.lock.
SweepStarts(l) ==
  /\ At(l, "idle") /\ sweep = None
  /\ sweep' = l
  /\ launcher' = [launcher EXCEPT ![l].pc = "sweeping", ![l].todo = {x \in Launchers : lane[x].dir}]
  /\ UNCHANGED <<lane, held, child, helper, service, bounds, served>>
SweepLane(l, x) ==
  /\ At(l, "sweeping") /\ x \in launcher[l].todo
  /\ lane' = [lane EXCEPT ![x] = IF Sweepable(x) THEN NoDirectory ELSE @]
  /\ launcher' = [launcher EXCEPT ![l].todo = @ \ {x}]
  /\ UNCHANGED <<held, sweep, child, helper, service, bounds, served>>
SweepEnds(l) ==
  /\ At(l, "sweeping") /\ launcher[l].todo = {}
  /\ sweep' = None /\ Move(l, "fetch")
  /\ UNCHANGED <<lane, held, child, helper, service, bounds, served>>

---------------------------------------------------------------------------
\* prepare_pinned_codex: the token says whether the account bills, and then
\* the operator has to agree.
PrepareFetch(l) ==
  /\ At(l, "fetch")
  /\ launcher' = [launcher EXCEPT ![l].pc = "create", ![l].bills = service.bills]
  /\ UNCHANGED <<lane, held, sweep, child, helper, service, bounds, served>>
Declined(l) ==
  /\ At(l, "create") /\ launcher[l].bills
  /\ Move(l, "over")
  /\ UNCHANGED <<lane, held, sweep, child, helper, service, bounds, served>>

\* The directory, the owner's lock and the approved connection are made under
\* sweep.lock; the temporary directory is removed again when a step fails.
CreateLane(l) ==
  /\ At(l, "create") /\ sweep = None
  /\ sweep' = l
  /\ lane' = [lane EXCEPT ![l] = [NoDirectory EXCEPT !.dir = TRUE]]
  /\ Move(l, "own")
  /\ UNCHANGED <<held, child, helper, service, bounds, served>>
OwnLane(l) ==
  /\ At(l, "own")
  /\ lane' = [lane EXCEPT ![l].owner = TRUE] /\ held' = [held EXCEPT ![l] = l]
  /\ Move(l, "connect")
  /\ UNCHANGED <<sweep, child, helper, service, bounds, served>>
SaveLane(l) ==
  /\ At(l, "connect")
  /\ lane' = [lane EXCEPT ![l].conn = [allow |-> launcher[l].bills, rev |-> service.rev]]
  /\ sweep' = None /\ Move(l, "spawn")
  /\ UNCHANGED <<held, child, helper, service, bounds, served>>
PrepareFails(l) ==
  /\ At(l, "own") \/ At(l, "connect")
  /\ bounds.faults > 0 /\ bounds' = [bounds EXCEPT !.faults = @ - 1]
  /\ lane' = [lane EXCEPT ![l] = NoDirectory] /\ held' = [held EXCEPT ![l] = None]
  /\ sweep' = None /\ Move(l, "over")
  /\ UNCHANGED <<child, helper, service, served>>

\* run_pinned_codex.  A signal closes the launch before Codex is told.
SpawnChild(l) ==
  /\ At(l, "spawn")
  /\ Move(l, "running") /\ child' = [child EXCEPT ![l] = "running"]
  /\ UNCHANGED <<lane, held, sweep, helper, service, bounds, served>>
Signal(l) ==
  /\ At(l, "spawn") \/ At(l, "running")
  /\ Move(l, "revoke")
  /\ UNCHANGED <<lane, held, sweep, child, helper, service, bounds, served>>
ChildSeen(l) ==
  /\ At(l, "running") /\ child[l] = "over"
  /\ Move(l, "close")
  /\ UNCHANGED <<lane, held, sweep, child, helper, service, bounds, served>>

Closed(l) == launcher[l].pc \in {"kill", "over"}
AfterClose(l) == IF child[l] = "running" THEN "kill" ELSE "over"
\* close_launch: the directory goes under sweep.lock, and the owner's lock
\* with the launch.
CloseLaunch(l) ==
  /\ At(l, "revoke") \/ At(l, "close")
  /\ sweep = None
  /\ lane' = [lane EXCEPT ![l] = NoDirectory] /\ held' = [held EXCEPT ![l] = None]
  /\ Move(l, AfterClose(l))
  /\ UNCHANGED <<sweep, child, helper, service, bounds, served>>
\* Some files of it stay; or sweep.lock did not come in time, and the temporary
\* directory goes without it.
CloseFails(l) ==
  /\ At(l, "revoke") \/ At(l, "close")
  /\ bounds.faults > 0 /\ bounds' = [bounds EXCEPT !.faults = @ - 1]
  /\ \E left \in {NoDirectory} \cup
                 [dir : {TRUE}, owner : BOOLEAN, conn : {lane[l].conn, None}] :
       lane' = [lane EXCEPT ![l] = left]
  /\ held' = [held EXCEPT ![l] = None]
  /\ served' = [served EXCEPT !.unclosed = @ \cup {l}]
  /\ Move(l, AfterClose(l))
  /\ UNCHANGED <<sweep, child, helper, service>>
KillChild(l) ==
  /\ At(l, "kill")
  /\ child' = [child EXCEPT ![l] = "over"] /\ Move(l, "over")
  /\ UNCHANGED <<lane, held, sweep, helper, service, bounds, served>>

---------------------------------------------------------------------------
\* print_token.  Taking its lock makes the directory again if it is gone.
Locked(l) == [lane[l] EXCEPT !.dir = TRUE]
Help(h, pc) == helper' = [helper EXCEPT ![h].pc = pc]
HelperQuits(h) == helper' = [helper EXCEPT ![h] = NoHelper]

HelperReads(h, l) ==
  /\ helper[h].pc = "idle" /\ h \in bounds.helpers /\ child[l] = "running"
  /\ lane' = [lane EXCEPT ![l] = Locked(l)]
  /\ IF lane[l].conn = None THEN UNCHANGED helper
     ELSE helper' = [helper EXCEPT ![h].pc = "probe", ![h].lane = l, ![h].seen = lane[l].conn]
  /\ UNCHANGED <<held, sweep, launcher, child, service, bounds, served>>

\* require_live_launch, outside sweep.lock: a free lock is taken, and given back.
HelperProbes(h) ==
  LET l == helper[h].lane
  IN  /\ helper[h].pc = "probe"
      /\ \/ ~lane[l].owner /\ HelperQuits(h) /\ UNCHANGED held
         \/ lane[l].owner /\ held[l] # None /\ Help(h, "fetch") /\ UNCHANGED held
         \/ lane[l].owner /\ held[l] = None /\ Help(h, "probing") /\ held' = [held EXCEPT ![l] = h]
      /\ UNCHANGED <<lane, sweep, launcher, child, service, bounds, served>>
ProbeEnds(h) ==
  /\ helper[h].pc = "probing"
  /\ held' = [held EXCEPT ![helper[h].lane] = IF @ = h THEN None ELSE @]
  /\ HelperQuits(h)
  /\ UNCHANGED <<lane, sweep, launcher, child, service, bounds, served>>

HelperFetches(h) ==
  /\ helper[h].pc = "fetch"
  /\ helper' = [helper EXCEPT ![h].pc = "finish", ![h].token = service]
  /\ UNCHANGED <<lane, held, sweep, launcher, child, service, bounds, served>>

\* lock_live_launch
HelperLocks(h) ==
  LET l == helper[h].lane
  IN  /\ helper[h].pc = "finish" /\ sweep = None
      /\ lane' = [lane EXCEPT ![l] = Locked(l)]
      /\ IF lane[l].owner /\ held[l] # None /\ lane[l].conn # None
         THEN /\ sweep' = h
              /\ helper' = [helper EXCEPT ![h].pc = "publish", ![h].latest = lane[l].conn]
         ELSE HelperQuits(h) /\ UNCHANGED sweep
      /\ UNCHANGED <<held, launcher, child, service, bounds, served>>

Approved(latest, token) == token.bills => latest.allow
\* finish_token: saved unless another helper saved meanwhile, then printed.  The
\* write makes the directory again if a close without the lock removed it.
HelperPublishes(h) ==
  LET l == helper[h].lane
      token == helper[h].token
      latest == helper[h].latest
      saved == [lane[l] EXCEPT !.dir = TRUE, !.conn = [latest EXCEPT !.rev = token.rev]]
  IN  /\ helper[h].pc = "publish"
      /\ IF Approved(latest, token)
         THEN /\ lane' = [lane EXCEPT ![l] = IF latest = helper[h].seen THEN saved ELSE @]
              /\ served' = [served EXCEPT !.late = @ \cup {x \in {l} : Closed(x)},
                              !.unasked = @ \/ (token.bills /\ ~launcher[l].bills)]
         ELSE UNCHANGED <<lane, served>>
      /\ sweep' = None /\ HelperQuits(h)
      /\ UNCHANGED <<held, launcher, child, service, bounds>>

---------------------------------------------------------------------------
ChildEnds(l) ==
  /\ child[l] = "running"
  /\ child' = [child EXCEPT ![l] = "over"]
  /\ UNCHANGED <<lane, held, sweep, launcher, helper, service, bounds, served>>

\* A launcher is killed: its locks go, its Codex stays.
LauncherDies(l) ==
  /\ ~At(l, "idle") /\ ~At(l, "over") /\ ~At(l, "dead")
  /\ bounds.crashes > 0 /\ bounds' = [bounds EXCEPT !.crashes = @ - 1]
  /\ Move(l, "dead")
  /\ held' = [x \in Launchers |-> IF held[x] = l THEN None ELSE held[x]]
  /\ sweep' = IF sweep = l THEN None ELSE sweep
  /\ UNCHANGED <<lane, child, helper, service, served>>

\* The server renews the credential, or its billing changes.
ServiceChanges ==
  /\ bounds.revs > 0 /\ bounds' = [bounds EXCEPT !.revs = @ - 1]
  /\ \E bills \in BOOLEAN : service' = [rev |-> service.rev + 1, bills |-> bills]
  /\ UNCHANGED <<lane, held, sweep, launcher, child, helper, served>>

LaunchNext ==
  \/ ServiceChanges
  \/ \E l \in Launchers :
       \/ SweepStarts(l) \/ SweepEnds(l) \/ PrepareFetch(l) \/ Declined(l) \/ CreateLane(l)
       \/ OwnLane(l) \/ SaveLane(l) \/ PrepareFails(l) \/ SpawnChild(l) \/ Signal(l)
       \/ ChildSeen(l) \/ CloseLaunch(l) \/ CloseFails(l) \/ KillChild(l) \/ ChildEnds(l)
       \/ LauncherDies(l)
       \/ \E x \in Launchers : SweepLane(l, x)
  \/ \E h \in Helpers :
       \/ HelperProbes(h) \/ ProbeEnds(h) \/ HelperFetches(h) \/ HelperLocks(h) \/ HelperPublishes(h)
       \/ \E l \in Launchers : HelperReads(h, l)

LaunchSpec == LaunchInit /\ [][LaunchNext]_launchVars

---------------------------------------------------------------------------
LaunchTypeOK ==
  /\ lane \in [Launchers -> [dir : BOOLEAN, owner : BOOLEAN,
                             conn : {None} \cup [allow : BOOLEAN, rev : Nat]]]
  /\ held \in [Launchers -> Launchers \cup Helpers \cup {None}]
  /\ sweep \in Launchers \cup Helpers \cup {None}
  /\ child \in [Launchers -> {"none", "running", "over"}]

\* A launch that runs keeps its directory, its lock and its connection: no
\* sweep of another one takes them.
LiveKept ==
  \A l \in Launchers : launcher[l].pc \in {"spawn", "running", "revoke", "close"} =>
    lane[l].dir /\ lane[l].owner /\ lane[l].conn # None /\ held[l] = l

\* What was closed stays closed: the connection does not come back with a
\* helper that was under way, and no helper gives out a token any more, unless
\* the close failed.
ClosedForGood ==
  /\ \A l \in Launchers : Closed(l) => lane[l].conn = None \/ l \in served.unclosed
  /\ served.late \subseteq served.unclosed

\* A token that bills goes only to a launch whose operator saw that it bills.
ConsentSeen == ~served.unasked

\* A connection has an owner's file: what is left without one is empty and
\* goes with the next sweep.
ConnectionOwned ==
  \A l \in Launchers : lane[l].conn # None => lane[l].owner \/ l \in served.unclosed

LaunchIInv == LaunchTypeOK /\ LiveKept /\ ClosedForGood /\ ConsentSeen /\ ConnectionOwned
=============================================================================
