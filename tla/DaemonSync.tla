----------------------------- MODULE DaemonSync -----------------------------
(***************************************************************************)
(* Codex's shared app-server daemon follows an account switch: inspect it, *)
(* ask, restart it and give the sessions the restart or the usage limit    *)
(* stopped a new turn without sandbox (src/src/commands/daemon_sync.rs,    *)
(* src/src/daemon.rs).                                                     *)
(*                                                                         *)
(* Several switches run at once, and the users of the daemon's sessions go *)
(* on meanwhile: a switch holds no lock here.  The daemon is external.  A  *)
(* restart drains it, which lets running turns finish and rejects new      *)
(* ones, then kills what still runs; a killed turn goes on, as it was      *)
(* permitted before, as soon as somebody loads its session again.          *)
(***************************************************************************)
EXTENDS Naturals, FiniteSets

CONSTANTS
  Accounts,    \* local accounts
  Stated,      \* those whose token states the workspace and the login
  Server,      \* what a daemon runs when the server provider is enabled
  Unknown,     \* an account the daemon did not tell
  Threads,     \* its resumable sessions: no subagent, not ephemeral
  Switchers,   \* commands that switch the account, one switch each
  Bounds,      \* bounds, of which a behaviour has one: the sessions the daemon
               \* has loaded, whether one of them may be unreadable, the turns users
               \* start, and the policies each switch may have
  NoThread

VARIABLES
  bound,     \* the bounds of this behaviour
  auth,      \* the account in the live auth file
  provider,  \* whether the server provider is enabled
  daemon,    \* the daemon: its phase, account and restarts
  thread,    \* its sessions: the last turn, whether that turn
             \* runs without sandbox (perm) and with a switch's prompt (ours),
             \* the sticky permission (full) and the saved provider (central)
  turns,     \* turns the users started
  ctl,       \* the switches
  agreed,    \* history: sessions whose resumption without sandbox was agreed to
  behind     \* history: a switch ended knowing that the daemon may not follow

daemonVars == <<bound, auth, provider, daemon, thread, turns, ctl, agreed, behind>>

Phases == {"idle", "inspect", "asked", "fresh", "added", "restart", "stopping", "connect",
           "load", "checked", "update", "recheck", "interrupt", "start", "done"}
Turns == {"none", "running", "completed", "limited", "killed", "stopped"}
Policies == {"always", "ask", "never", "server"}

DaemonTypeOK ==
  /\ bound \in Bounds /\ auth \in Accounts /\ provider \in BOOLEAN
  /\ daemon.phase \in {"up", "draining", "down"}
  /\ daemon.account \in Accounts \cup {Server} /\ daemon.gen \in Nat
  /\ thread \in [Threads -> [loaded : BOOLEAN, turn : Turns,
                             perm : BOOLEAN, full : BOOLEAN, central : BOOLEAN, ours : BOOLEAN]]
  /\ \A p \in Switchers :
       /\ ctl[p].pc \in Phases /\ ctl[p].policy \in Policies
       /\ ctl[p].sessions \subseteq Threads /\ ctl[p].rest \subseteq Threads
       /\ ctl[p].cur \in Threads \cup {NoThread} /\ ctl[p].seen \in BOOLEAN
  /\ turns \in 0..bound.turns /\ agreed \subseteq Threads /\ behind \in BOOLEAN

NoSwitch == [pc |-> "idle", policy |-> "never", exclude |-> NoThread, sessions |-> {},
             rest |-> {}, cur |-> NoThread, seen |-> FALSE, gen |-> 0]

\* A daemon on the live account; its sessions run, or stopped at the limit.
DaemonInit ==
  /\ bound \in Bounds
  /\ auth = bound.auth /\ provider = FALSE
  /\ daemon = [phase |-> "up", account |-> auth, gen |-> 0]
  /\ \E last \in [bound.threads -> {"running", "limited"}] :
       thread = [t \in Threads |->
         [loaded |-> t \in bound.threads, turn |-> IF t \in bound.threads THEN last[t] ELSE "none",
          perm |-> FALSE, full |-> FALSE, central |-> FALSE, ours |-> FALSE]]
  /\ ctl = [p \in Switchers |-> NoSwitch]
  /\ turns = 0 /\ agreed = {} /\ behind = FALSE

---------------------------------------------------------------------------
Boots == IF provider THEN Server ELSE auth
In(p, pc) == ctl[p].pc = pc
Step(p, pc) == ctl' = [ctl EXCEPT ![p].pc = pc]
Done(p) == ctl' = [ctl EXCEPT ![p] = [NoSwitch EXCEPT !.pc = "done"]]
KeepDaemon == UNCHANGED <<bound, turns, auth, provider, daemon, thread>>

\* The switch itself: use, switch, or the recovery of codexctl codex, which
\* resumes its own session.  Local switches are refused under the provider.
SwitchTo(p, a, policy, own) ==
  /\ In(p, "idle") /\ ~provider
  /\ policy \in bound.plan[p]
  /\ own # NoThread => policy = "always"
  /\ auth' = a
  /\ ctl' = [ctl EXCEPT ![p].pc = "inspect", ![p].policy = policy, ![p].exclude = own]
  /\ UNCHANGED <<bound, turns, provider, daemon, thread, agreed, behind>>

\* A pinned home links the daemon of the live home and must leave it alone.
SwitchPinned(p) ==
  /\ In(p, "idle") /\ "pinned" \in bound.plan[p]
  /\ Done(p)
  /\ UNCHANGED <<agreed, behind>> /\ KeepDaemon

ServerSwitch(p) ==
  /\ In(p, "idle") /\ "server" \in bound.plan[p]
  /\ provider' = TRUE
  /\ ctl' = [ctl EXCEPT ![p].pc = "inspect", ![p].policy = "server"]
  /\ UNCHANGED <<bound, turns, auth, daemon, thread, agreed, behind>>

\* daemon_runs_installed: what either side does not state is disagreement.
RunsInstalled(account) == account = auth /\ auth \in Stated

\* stopped_sessions: a session that cannot be read is named and left out.
StopReason(t) == thread[t].turn \in {"running", "limited"}
Listings(p) ==
  LET all == {t \in Threads \ {ctl[p].exclude} : thread[t].loaded /\ StopReason(t)}
  IN  IF bound.unreadable THEN SUBSET all ELSE {all}
\* inspect_or_assume_stale, of a daemon that runs.
Inspections(p) ==
  {[account |-> daemon.account, sessions |-> S] : S \in Listings(p)}
    \cup {[account |-> Unknown, sessions |-> {}]}

Restarting(p, S) ==
  /\ ctl' = [ctl EXCEPT ![p].pc = "restart", ![p].sessions = S]
  /\ UNCHANGED behind
Declined(p) == Done(p) /\ behind' = TRUE

Inspect(p) ==
  /\ In(p, "inspect")
  /\ \/ /\ daemon.phase = "down"
        /\ Done(p)
        /\ UNCHANGED <<agreed, behind>>
     \/ /\ daemon.phase # "down"
        /\ \E seen \in Inspections(p) :
             LET policy == ctl[p].policy
                 current == policy # "server" /\ RunsInstalled(seen.account)
             IN  \/ current /\ Done(p) /\ UNCHANGED <<agreed, behind>>
                 \/ /\ ~current /\ policy \in {"always", "server"}
                    /\ Restarting(p, seen.sessions)
                    /\ agreed' = agreed \cup seen.sessions
                 \/ ~current /\ policy = "never" /\ Declined(p) /\ UNCHANGED agreed
                 \/ /\ ~current /\ policy = "ask"
                    /\ ctl' = [ctl EXCEPT ![p].pc = "asked", ![p].sessions = seen.sessions]
                    /\ UNCHANGED <<agreed, behind>>
  /\ KeepDaemon

Answer(p) ==
  /\ In(p, "asked")
  /\ \/ Declined(p) /\ UNCHANGED agreed
     \/ Step(p, "fresh") /\ agreed' = agreed \cup ctl[p].sessions /\ UNCHANGED behind
  /\ KeepDaemon

\* Mutated form: one answer is good for whatever is listed by then.
SplitApprovedAll(p, S) == S
\* split_approved: the answer covers the sessions it was shown.
SplitApproved(p, S) == S \cap ctl[p].sessions

\* While the question waited, the sessions moved on and another switch may
\* have restarted the daemon.
Reinspect(p) ==
  /\ In(p, "fresh")
  /\ \/ /\ daemon.phase = "down"
        /\ Done(p)
        /\ UNCHANGED behind
     \/ /\ daemon.phase # "down"
        /\ \E seen \in Inspections(p) :
             LET approved == SplitApproved(p, seen.sessions)
                 added == seen.sessions \ approved
             IN  \/ RunsInstalled(seen.account) /\ Done(p) /\ UNCHANGED behind
                 \/ ~RunsInstalled(seen.account) /\ added = {} /\ Restarting(p, approved)
                 \/ /\ ~RunsInstalled(seen.account) /\ added # {}
                    /\ ctl' = [ctl EXCEPT ![p].pc = "added", ![p].sessions = approved,
                                          ![p].rest = added]
                    /\ UNCHANGED behind
  /\ UNCHANGED agreed /\ KeepDaemon

AnswerAdded(p) ==
  /\ In(p, "added")
  /\ \E yes \in BOOLEAN :
       LET added == IF yes THEN ctl[p].rest ELSE {}
       IN  /\ ctl' = [ctl EXCEPT ![p].pc = "restart", ![p].rest = {},
                                 ![p].sessions = @ \cup added]
           /\ agreed' = agreed \cup added
  /\ UNCHANGED behind /\ KeepDaemon

---------------------------------------------------------------------------
(* restart_with: codex app-server daemon restart.                          *)

Drain(p) ==
  /\ In(p, "restart")
  /\ daemon' = [daemon EXCEPT !.phase = IF @ = "up" THEN "draining" ELSE @]
  /\ Step(p, "stopping")
  /\ UNCHANGED <<bound, turns, auth, provider, thread, agreed, behind>>

Unloaded == [t \in Threads |->
  [thread[t] EXCEPT !.loaded = FALSE, !.turn = IF @ = "running" THEN "killed" ELSE @]]

StopStart(p) ==
  /\ In(p, "stopping")
  /\ thread' = Unloaded
  /\ daemon' = [phase |-> "up", account |-> Boots, gen |-> daemon.gen + 1]
  /\ IF ctl[p].sessions = {} THEN Done(p) ELSE Step(p, "connect")
  /\ UNCHANGED <<bound, turns, auth, provider, agreed, behind>>

RestartFails(p) ==
  /\ In(p, "stopping")
  /\ Declined(p)
  /\ \/ /\ daemon' = [daemon EXCEPT !.phase = IF @ = "draining" THEN "up" ELSE @]
        /\ UNCHANGED thread
     \/ /\ daemon' = [daemon EXCEPT !.phase = "down"]
        /\ thread' = Unloaded
  /\ UNCHANGED <<bound, turns, auth, provider, agreed>>

---------------------------------------------------------------------------
(* restart_and_resume_with: one connection, one session after the other.   *)

\* connect_when_ready; a daemon out of reach leaves every session unresumed.
ConnectReady(p) ==
  /\ In(p, "connect")
  /\ \/ /\ daemon.phase # "down"
        /\ ctl' = [ctl EXCEPT ![p].pc = "load", ![p].sessions = {}, ![p].rest = ctl[p].sessions,
                              ![p].gen = daemon.gen]
     \/ Done(p)
  /\ UNCHANGED <<agreed, behind>> /\ KeepDaemon

\* A new turn of a session is not the one a switch looked at.
Superseding(t) == [p \in Switchers |->
  [ctl[p] EXCEPT !.seen = IF ctl[p].cur = t THEN FALSE ELSE @]]

Connected(p) == daemon.phase # "down" /\ daemon.gen = ctl[p].gen
NextSession(p) == IF ctl[p].rest = {} THEN [NoSwitch EXCEPT !.pc = "done"]
                  ELSE [ctl[p] EXCEPT !.pc = "load", !.cur = NoThread, !.seen = FALSE]
Next1(p) == ctl' = [ctl EXCEPT ![p] = NextSession(p)]

\* A request that times out or is rejected, or a connection the next restart
\* closed: the session is reported and the others are tried.
ResumeFails(p) ==
  /\ ctl[p].cur # NoThread
  /\ Next1(p)
  /\ UNCHANGED <<agreed, behind>> /\ KeepDaemon

Over(r, how) == [r EXCEPT !.turn = how, !.perm = FALSE, !.ours = FALSE]
Loading(r) == [r EXCEPT !.loaded = TRUE, !.turn = IF @ = "killed" THEN "running" ELSE @]

\* thread/resume: the overrides are ignored on a loaded thread, and a killed
\* turn goes on with the permissions it had.
Load(p, t) ==
  /\ In(p, "load") /\ t \in ctl[p].rest
  /\ ctl' = [ctl EXCEPT ![p].pc = "checked", ![p].cur = t, ![p].rest = @ \ {t}]
  /\ thread' = IF ~Connected(p) \/ thread[t].loaded THEN thread
               ELSE [thread EXCEPT ![t] = [Loading(@) EXCEPT !.full = TRUE,
                       !.central = @ \/ ctl[p].policy = "server"]]
  /\ UNCHANGED <<bound, turns, auth, provider, daemon, agreed, behind>>

Finished(t) == thread[t].turn = "completed"
CheckFinished(p) ==
  /\ In(p, "checked") /\ Connected(p)
  /\ IF Finished(ctl[p].cur) THEN Next1(p) ELSE Step(p, "update")
  /\ UNCHANGED <<agreed, behind>> /\ KeepDaemon

\* thread/settings/update makes the permissions sticky for every client.
Updated(t) == [thread[t] EXCEPT !.full = TRUE]

\* The update, and the second thread/resume that confirms the provider.
UpdateSettings(p) ==
  LET t == ctl[p].cur
  IN  /\ In(p, "update") /\ Connected(p)
      /\ thread' = [thread EXCEPT ![t] = Updated(t)]
      /\ IF ctl[p].policy = "server" /\ ~thread[t].central THEN Next1(p) ELSE Step(p, "recheck")
      /\ UNCHANGED <<bound, turns, auth, provider, daemon, agreed, behind>>

\* Mutated form: what ended meanwhile is started again.
RecheckNothing(t) == FALSE
FinishedSince(t) == Finished(t)

Recheck(p) ==
  LET t == ctl[p].cur
  IN  /\ In(p, "recheck") /\ Connected(p)
      /\ IF FinishedSince(t) THEN Next1(p)
         ELSE ctl' = [ctl EXCEPT ![p].seen = TRUE,
                       ![p].pc = IF thread[t].turn = "running" THEN "interrupt" ELSE "start"]
      /\ UNCHANGED <<agreed, behind>> /\ KeepDaemon

\* turn/interrupt names the turn; one that is over is rejected (ResumeFails).
Interrupt(p) ==
  LET t == ctl[p].cur
  IN  /\ In(p, "interrupt") /\ Connected(p)
      /\ thread[t].turn = "running" /\ ctl[p].seen
      /\ thread' = [thread EXCEPT ![t] = Over(@, "stopped")]
      /\ Step(p, "start")
      /\ UNCHANGED <<bound, turns, auth, provider, daemon, agreed, behind>>

\* turn/start: input to a running turn joins it and drops the overrides.  The
\* answer may be lost after the turn began.
StartTurn(p) ==
  LET t == ctl[p].cur
  IN  /\ In(p, "start") /\ Connected(p) /\ daemon.phase = "up"
      /\ thread' = [thread EXCEPT ![t] =
           IF @.turn = "running" THEN [@ EXCEPT !.ours = TRUE]
           ELSE [@ EXCEPT !.turn = "running", !.perm = TRUE, !.ours = TRUE]]
      /\ ctl' = [Superseding(t) EXCEPT ![p] = NextSession(p)]
      /\ UNCHANGED <<bound, turns, auth, provider, daemon, agreed, behind>>

---------------------------------------------------------------------------
(* The daemon and its users.                                               *)

\* Users act while a switch is under way (bound).
Attended == \E p \in Switchers : ctl[p].pc \notin {"idle", "done"}

\* A reconnecting TUI loads its session before the switch gets to it.
TuiLoad(t) ==
  /\ daemon.phase = "up" /\ ~thread[t].loaded /\ Attended
  /\ thread' = [thread EXCEPT ![t] = Loading(@)]
  /\ UNCHANGED <<bound, turns, auth, provider, daemon, ctl, agreed, behind>>

TuiStart(t) ==
  /\ daemon.phase = "up" /\ thread[t].loaded
  /\ thread[t].turn # "running" /\ Attended /\ turns < bound.turns
  /\ turns' = turns + 1
  /\ thread' = [thread EXCEPT ![t] = [@ EXCEPT !.turn = "running",
                  !.perm = thread[t].full, !.ours = FALSE]]
  /\ ctl' = Superseding(t)
  /\ UNCHANGED <<bound, auth, provider, daemon, agreed, behind>>

TurnEnds(t) ==
  /\ daemon.phase # "down" /\ thread[t].turn = "running" /\ Attended
  /\ \E how \in {"completed", "limited"} : thread' = [thread EXCEPT ![t] = Over(@, how)]
  /\ UNCHANGED <<bound, turns, auth, provider, daemon, ctl, agreed, behind>>

DaemonStarts ==
  /\ daemon.phase = "down"
  /\ daemon' = [phase |-> "up", account |-> Boots, gen |-> daemon.gen + 1]
  /\ UNCHANGED <<bound, turns, auth, provider, thread, ctl, agreed, behind>>

Starting(p) ==
  /\ In(p, "idle")
  /\ \/ \E policy \in bound.plan[p] \ {"server", "pinned"}, a \in Accounts,
           own \in Threads \cup {NoThread} : SwitchTo(p, a, policy, own)
     \/ SwitchPinned(p) \/ ServerSwitch(p)
Restarts(p) ==
  \/ Inspect(p) \/ Answer(p) \/ Reinspect(p) \/ AnswerAdded(p)
  \/ Drain(p) \/ StopStart(p) \/ RestartFails(p)
  \/ ConnectReady(p) \/ \E t \in Threads : Load(p, t)
Resumes(p) ==
  /\ ctl[p].cur # NoThread
  /\ \/ ResumeFails(p) \/ CheckFinished(p) \/ UpdateSettings(p)
     \/ Recheck(p) \/ Interrupt(p) \/ StartTurn(p)

DaemonNext ==
  \/ \E p \in Switchers :
       Starting(p) \/ (ctl[p].pc \notin {"idle", "done"} /\ (Restarts(p) \/ Resumes(p)))
  \/ \E t \in Threads : TuiLoad(t) \/ TuiStart(t) \/ TurnEnds(t)
  \/ DaemonStarts

DaemonSpec == DaemonInit /\ [][DaemonNext]_daemonVars

---------------------------------------------------------------------------
(* The properties.                                                         *)

\* No session loses its sandbox unless somebody agreed to that session.
ConsentHeld == \A t \in Threads : thread[t].full => t \in agreed

\* The prompt of a switch never runs in a turn with the old permissions.
PromptUnrestricted ==
  \A t \in Threads : thread[t].ours /\ thread[t].turn = "running" => thread[t].perm

\* Once every switch is over, the daemon runs what the last one installed,
\* unless a switch was declined or failed and said so.
DaemonFollows ==
  (\A p \in Switchers : ctl[p].pc \in {"idle", "done"}) /\ ~behind /\ daemon.phase # "down"
    => daemon.account = Boots

\* A switch prompts no session that finished on its own: a completed turn is
\* followed by a prompt only if it began after the last look.
PromptsOnly(p) ==
  ctl[p].pc = "start" /\ ctl'[p].pc # "start" /\ thread' # thread =>
    (thread[ctl[p].cur].turn = "completed" => ~ctl[p].seen)
FinishedLeftAlone == [][\A p \in Switchers : PromptsOnly(p)]_daemonVars

DaemonIInv == DaemonTypeOK /\ ConsentHeld /\ PromptUnrestricted /\ DaemonFollows
=============================================================================
