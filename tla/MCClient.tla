------------------------------ MODULE MCClient ------------------------------
(***************************************************************************)
(* The client's components in one run: a behaviour is one of one component *)
(* (part), and the variables of the others stay 0.                         *)
(***************************************************************************)
EXTENDS RelayFrames

CONSTANTS
  s1, s2, t1, t2, Accounts, Stated, Server, NoThread, Threads, Switchers, \* DaemonSync
  Sessions, Budget, Idle, Evict, PruneEvery, BaseDelay, MaxDelay, Doublings,
  Upstream, MaxNow, MaxOpen,                                              \* RelayStreaks
  MaxTurns, MaxPendingStops, InspectLimit,                                \* RelayStops
  k1, k2, x1, Commands, Relays, Direct, None,                             \* NativeProvider
  Lanes, NoLane, RecoveryLimit, Hour, MaxClock, MaxWorks, MaxAsking \* CodexLaunch

VARIABLES
  part,
  bound, auth, provider, daemon, thread, turns, ctl, agreed, behind,
  now, streaks, open, pruned, run,
  labelled, turn, ended, pendingStops, watch, observer, lost, counts,
  disk, billing, locks, at, my, children, plan, history,
  lane, held, sweep, launcher, child, helper, service, bounds, served,
  file, journal, backup, kept, agent, appProvider, appService, appLocks, appAt, appMy, appPlan,
  past,
  wrapper, screen, selected, asking, approved, codex, signals, slot, tried, recoveries, clock,
  facts,
  offered, chosen,
  rollout, archive, index, torn, usage, job, gone, spare

---------------------------------------------------------------------------
\* Two sessions and one switch that asks, then one session and pairs of switches.
Switching(loaded, unreadable, n, one, two) ==
  [threads |-> loaded, unreadable |-> unreadable, turns |-> n, auth |-> "a",
   plan |-> (s1 :> one) @@ (s2 :> two)]
MCBounds ==
  {Switching({t1, t2}, FALSE, 1, {"ask"}, {}),
   Switching({t1}, TRUE, 1, {"ask"}, {"always", "pinned"}),
   Switching({t1}, FALSE, 0, {"server"}, {"ask", "never"})}

\* An activation against every other command, with a fault and a crash, and
\* with two faults.
Doing(mine, others, faults, crashes, changes) ==
  [of |-> [k \in Commands |-> IF k = k1 THEN mine ELSE others],
   faults |-> faults, crashes |-> crashes, changes |-> changes]
MCPlans ==
  {Doing({"use"}, {"use", "local"}, 1, 1, 0), Doing({"use", "relay"}, {"relay", "launch"}, 1, 1, 0),
   Doing({"use", "token"}, {"use", "wrapper"}, 0, 0, 1), Doing({"use"}, {"local"}, 2, 0, 0)}

\* A launch that is crashed, swept or told to stop while a helper, or two, get
\* it a token; and one whose own steps fail.
Launching(revs, crashes, faults, helpers) ==
  [revs |-> revs, crashes |-> crashes, faults |-> faults, helpers |-> helpers]
MCLaunches ==
  {Launching(1, 1, 0, {"h1"}), Launching(0, 1, 0, {"h1", "h2"}), Launching(0, 0, 1, {"h1"})}

\* The desktop app's login: failing writes, a crash, the app's own writes, and
\* the switches of the provider.
Pinning(one, two, crashes, faults, moves, changes) ==
  [of |-> [k \in Commands |-> IF k = k1 THEN one ELSE two],
   crashes |-> crashes, faults |-> faults, moves |-> moves, changes |-> changes]
MCAppPlans ==
  {Pinning({"enable", "refresh"}, {"refresh", "disable"}, 0, 1, 1, 1),
   Pinning({"enable", "refresh"}, {}, 1, 2, 0, 1), Pinning({"enable", "refresh"}, {}, 2, 0, 0, 1),
   Pinning({"enable"}, {"enable", "disable"}, 1, 0, 1, 0),
   Pinning({"enable", "disable"}, {"use", "switch"}, 1, 0, 0, 0)}

\* Usage readings: with headroom, near a limit, and with a window used up that a
\* banked reset would clear, one that lapses before the window does among them.
Reading(reached, short, long, longReset, applicable, credits) ==
  [included |-> TRUE, reached |-> reached, short |-> short, long |-> long, shortReset |-> 2,
   longReset |-> longReset, applicable |-> applicable, credits |-> credits]
MCReports ==
  {[included |-> FALSE, reached |-> reached] : reached \in BOOLEAN} \cup
  {Reading(reached, short, 50, longReset, FALSE, {}) :
     reached \in BOOLEAN, short \in {50, 96}, longReset \in {2, 4}} \cup
  {Reading(reached, w[1], w[2], 4, TRUE, credits) :
     reached \in BOOLEAN, w \in {<<100, 50>>, <<50, 100>>}, credits \in {{}, {1, 3}, {3}}} \cup
  {Reading(reached, 100, 50, 4, FALSE, {}) : reached \in BOOLEAN}
Entry(owned, fit, used, most, live, resets) ==
  [owned |-> owned, fit |-> fit, used |-> used, most |-> most, live |-> live, resets |-> resets]
MCEntries ==
  {Entry(TRUE, FALSE, 50, 50, 1, 1)} \cup
  {Entry(TRUE, TRUE, used, used, live, resets) :
     used \in {50, 96, 100, 1000000}, live \in {1, 2, 1000000}, resets \in {1, 2}} \cup
  {Entry(FALSE, TRUE, u[1], u[2], live, 1) :
     u \in {<<50, 50>>, <<50, 96>>, <<96, 96>>, <<50, 1000000>>}, live \in {1, 2}}

D == INSTANCE DaemonSync WITH Bounds <- MCBounds
S == INSTANCE RelayStreaks
T == INSTANCE RelayStops
N == INSTANCE NativeProvider WITH Plans <- MCPlans
L == INSTANCE PinnedLaunch WITH Launchers <- {"l1", "l2"}, Helpers <- {"h1", "h2"},
       LaunchBounds <- MCLaunches
A == INSTANCE AppAuth WITH Accounts <- {"a"}, Logins <- {"p", "q"}, HeldLogins <- {"p"},
       AppPlans <- MCAppPlans, provider <- appProvider, service <- appService,
       locks <- appLocks, at <- appAt, my <- appMy, plan <- appPlan

X == INSTANCE CodexLaunch
H == INSTANCE AccountChoice WITH Reports <- MCReports, Entries <- MCEntries, MaxLocal <- 3,
       MaxCatalog <- 2

\* Two runs and a resume while Codex writes, with a kill and a failing step.
Season(runs, kills, errors) ==
  [runs |-> runs, resumes |-> 1, writes |-> 1, kills |-> kills, errors |-> errors]
MCSeasons == {Season(2, 1, 0), Season(1, 0, 1)}
Q == INSTANCE StateCap WITH Rollouts <- 1..2, Seasons <- MCSeasons, file <- rollout,
       codex <- usage, past <- gone

\* Frames with and without an event line, with the type early and late, the
\* code before or after what the relay can hold, and advice or none.
Named(kind, code, data) ==
  [kind |-> kind, code |-> code, pieces |-> <<"name1", "name2">> \o data \o <<"end">>]
Plain(kind, code, data) == [kind |-> kind, code |-> code, pieces |-> data \o <<"end">>]
Bulk(n) == [i \in 1..n |-> "bulk"]
MCBudget == [rate_429 |-> 2, overloaded |-> 4]
MCFrames ==
  {Named("output", Unknown, <<"type", "bulk">>), Plain("output", Unknown, <<"bulk", "type", "bulk">>),
   Named("completed", Unknown, <<"type">> \o Bulk(4)),
   Plain("completed", Unknown, Bulk(2) \o <<"type">> \o Bulk(4)),
   Named("failed", "overloaded", <<"type", "code", "advice">>),
   Plain("failed", "overloaded", <<"advice", "code", "type">>),
   Named("failed", "overloaded", <<"advice">> \o Bulk(3) \o <<"code", "type">>),
   Plain("failed", "login", <<"type">> \o Bulk(5) \o <<"code">>),
   Named("failed", "other", <<"advice", "type", "code">>),
   Named("error", "other", <<"bulk", "type">>), Plain("incomplete", Unknown, <<"type", "bulk">>)}

---------------------------------------------------------------------------
daemonVars == <<bound, auth, provider, daemon, thread, turns, ctl, agreed, behind>>
streaksVars == <<now, streaks, open, pruned, run>>
stopsVars == <<labelled, turn, ended, pendingStops, watch, observer, lost, counts>>
nativeVars == <<disk, billing, locks, at, my, children, plan, history>>
launchVars == <<lane, held, sweep, launcher, child, helper, service, bounds, served>>
appVars ==
  <<file, journal, backup, kept, agent, appProvider, appService, appLocks, appAt, appMy,
    appPlan, past>>
codexVars ==
  <<wrapper, screen, selected, asking, approved, codex, signals, slot, tried, recoveries, clock,
    facts>>
choiceVars == <<offered, chosen>>
stateCapVars == <<rollout, archive, index, torn, usage, job, gone, spare>>
clientVars ==
  <<part, daemonVars, framesVars, streaksVars, stopsVars, nativeVars, launchVars, appVars,
    codexVars, choiceVars, stateCapVars>>

NoDaemon ==
  /\ bound = 0 /\ auth = 0 /\ provider = 0 /\ daemon = 0 /\ thread = 0 /\ turns = 0 /\ ctl = 0
  /\ agreed = 0 /\ behind = 0
NoFrames ==
  /\ upstream = 0 /\ pending = 0 /\ forwarded = 0 /\ scan = 0 /\ named = 0 /\ cut = 0
  /\ request = 0 /\ out = 0 /\ got = 0
NoStreaks ==
  /\ now = 0 /\ streaks = 0 /\ open = 0 /\ pruned = 0 /\ run = 0
NoStops ==
  /\ labelled = 0 /\ turn = 0 /\ ended = 0 /\ pendingStops = 0 /\ watch = 0 /\ observer = 0
  /\ lost = 0 /\ counts = 0
NoNative ==
  /\ disk = 0 /\ billing = 0 /\ locks = 0 /\ at = 0 /\ my = 0 /\ children = 0 /\ plan = 0
  /\ history = 0
NoLaunch ==
  /\ lane = 0 /\ held = 0 /\ sweep = 0 /\ launcher = 0 /\ child = 0 /\ helper = 0
  /\ service = 0 /\ bounds = 0 /\ served = 0
NoApp ==
  /\ file = 0 /\ journal = 0 /\ backup = 0 /\ kept = 0 /\ agent = 0 /\ appProvider = 0
  /\ appService = 0 /\ appLocks = 0 /\ appAt = 0 /\ appMy = 0 /\ appPlan = 0 /\ past = 0
NoCodex ==
  /\ wrapper = 0 /\ screen = 0 /\ selected = 0 /\ asking = 0 /\ approved = 0 /\ codex = 0
  /\ signals = 0 /\ slot = 0 /\ tried = 0 /\ recoveries = 0 /\ clock = 0 /\ facts = 0
NoChoice ==
  /\ offered = 0 /\ chosen = 0
NoCap ==
  /\ rollout = 0 /\ archive = 0 /\ index = 0 /\ torn = 0 /\ usage = 0 /\ job = 0 /\ gone = 0
  /\ spare = 0

ClientInit ==
  \/ part = "daemon" /\ D!DaemonInit /\ NoFrames /\ NoStreaks /\ NoStops /\ NoNative /\ NoLaunch
     /\ NoApp /\ NoCodex /\ NoChoice /\ NoCap
  \/ part = "frames" /\ FramesInit /\ NoDaemon /\ NoStreaks /\ NoStops /\ NoNative /\ NoLaunch
     /\ NoApp /\ NoCodex /\ NoChoice /\ NoCap
  \/ part = "streaks" /\ S!StreaksInit /\ NoDaemon /\ NoFrames /\ NoStops /\ NoNative
     /\ NoLaunch /\ NoApp /\ NoCodex /\ NoChoice /\ NoCap
  \/ part = "stops" /\ T!StopsInit /\ NoDaemon /\ NoFrames /\ NoStreaks /\ NoNative /\ NoLaunch
     /\ NoApp /\ NoCodex /\ NoChoice /\ NoCap
  \/ part = "native" /\ N!NativeInit /\ NoDaemon /\ NoFrames /\ NoStreaks /\ NoStops /\ NoLaunch
     /\ NoApp /\ NoCodex /\ NoChoice /\ NoCap
  \/ part = "launch" /\ L!LaunchInit /\ NoDaemon /\ NoFrames /\ NoStreaks /\ NoStops /\ NoNative
     /\ NoApp /\ NoCodex /\ NoChoice /\ NoCap
  \/ part = "app" /\ A!AppInit /\ NoDaemon /\ NoFrames /\ NoStreaks /\ NoStops /\ NoNative
     /\ NoLaunch /\ NoCodex /\ NoChoice /\ NoCap
  \/ part = "codex" /\ X!CodexInit /\ NoDaemon /\ NoFrames /\ NoStreaks /\ NoStops /\ NoNative
     /\ NoLaunch /\ NoApp /\ NoChoice /\ NoCap
  \/ part = "choice" /\ H!ChoiceInit /\ NoDaemon /\ NoFrames /\ NoStreaks /\ NoStops /\ NoNative
     /\ NoLaunch /\ NoApp /\ NoCodex /\ NoCap
  \/ part = "cap" /\ Q!StateCapInit /\ NoDaemon /\ NoFrames /\ NoStreaks /\ NoStops /\ NoNative
     /\ NoLaunch /\ NoApp /\ NoCodex /\ NoChoice

ClientNext ==
  /\ UNCHANGED part
  /\ \/ /\ part = "daemon" /\ D!DaemonNext
        /\ UNCHANGED <<framesVars, streaksVars, stopsVars, nativeVars, launchVars, appVars,
                        codexVars, choiceVars, stateCapVars>>
     \/ /\ part = "frames" /\ FramesNext
        /\ UNCHANGED <<daemonVars, streaksVars, stopsVars, nativeVars, launchVars, appVars,
                        codexVars, choiceVars, stateCapVars>>
     \/ /\ part = "streaks" /\ S!StreaksNext
        /\ UNCHANGED <<daemonVars, framesVars, stopsVars, nativeVars, launchVars, appVars,
                        codexVars, choiceVars, stateCapVars>>
     \/ /\ part = "stops" /\ T!StopsNext
        /\ UNCHANGED <<daemonVars, framesVars, streaksVars, nativeVars, launchVars, appVars,
                        codexVars, choiceVars, stateCapVars>>
     \/ /\ part = "native" /\ N!NativeNext
        /\ UNCHANGED <<daemonVars, framesVars, streaksVars, stopsVars, launchVars, appVars,
                        codexVars, choiceVars, stateCapVars>>
     \/ /\ part = "launch" /\ L!LaunchNext
        /\ UNCHANGED <<daemonVars, framesVars, streaksVars, stopsVars, nativeVars, appVars,
                        codexVars, choiceVars, stateCapVars>>
     \/ /\ part = "app" /\ A!AppNext
        /\ UNCHANGED <<daemonVars, framesVars, streaksVars, stopsVars, nativeVars, launchVars,
                        codexVars, choiceVars, stateCapVars>>
     \/ /\ part = "codex" /\ X!CodexNext
        /\ UNCHANGED <<daemonVars, framesVars, streaksVars, stopsVars, nativeVars, launchVars,
                        appVars, choiceVars, stateCapVars>>
     \/ /\ part = "choice" /\ H!ChoiceNext
        /\ UNCHANGED <<daemonVars, framesVars, streaksVars, stopsVars, nativeVars, launchVars,
                        appVars, codexVars, stateCapVars>>
     \/ /\ part = "cap" /\ Q!StateCapNext
        /\ UNCHANGED <<daemonVars, framesVars, streaksVars, stopsVars, nativeVars, launchVars,
                        appVars, codexVars, choiceVars>>
ClientSpec == ClientInit /\ [][ClientNext]_clientVars

---------------------------------------------------------------------------
\* The invariant of each component, in its own behaviours.

\* DaemonSync: consent, permissions of a switch's prompt, the daemon's account.
DaemonIInv == part = "daemon" => D!DaemonIInv
\* RelayFrames: failures are held, frames stay whole, stops are counted.
\* RelayStreaks: the budget of a streak holds although the table is pruned.
\* RelayStops: every capacity stop counts, and once.
RelayIInv ==
  /\ part = "frames" => FramesIInv
  /\ part = "streaks" => S!StreaksIInv
  /\ part = "stops" => T!StopsIInv
\* The files that decide which login Codex uses, through every interleaving of commands,
\* failed write and crash.  NativeProvider: one credential owner, whole activations, approved
\* tokens.  PinnedLaunch: a live launch is kept, a closed one stays closed.  AppAuth: no login
\* is lost, and app-auth's file is never taken for one.
ProviderIInv ==
  /\ part = "native" => N!NativeIInv
  /\ part = "launch" => L!LaunchIInv
  /\ part = "app" => A!AppIInv
\* CodexLaunch: recovery is wanted, allowed, bounded and never against a signal.
\* AccountChoice: what costs nothing comes first.
RecoveryIInv ==
  /\ part = "codex" => X!CodexIInv
  /\ part = "choice" => H!ChoiceIInv
\* StateCap: a rollout is whole in its file or in an archive, which the index names unless the
\* entry was written after a line that was cut off.
StateCapIInv == part = "cap" => Q!StateCapIInv
\* DaemonSync: a switch prompts no session that finished on its own.
FinishedLeftAlone ==
  [][part = "daemon" => \A p \in Switchers : D!PromptsOnly(p)]_clientVars

---------------------------------------------------------------------------
\* A command that dies after its write and another between its journal and its
\* write.
AppJournalSpec ==
  (ClientInit /\ part = "app" /\ appPlan.crashes = 2) /\ [][ClientNext]_clientVars
\* AppAuth: what app_auth.rs says of its journal: a crash between the journal
\* and the write leaves either file recognizable.
EitherFileKnown == part = "app" => A!EitherFileKnown
=============================================================================
