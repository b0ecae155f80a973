---------------------------- MODULE CodexLaunch ----------------------------
(***************************************************************************)
(* `codexctl codex` (src/commands/codex.rs): the wrapper that runs Codex   *)
(* in a terminal of its own, reads what it prints, and when the account is *)
(* stopped (by a spend cap, a 429, or an overloaded model) moves to        *)
(* another account and resumes the session.  The main loop, the output     *)
(* thread and the threads that ask the server for capacity run             *)
(* concurrently; a signal may arrive at any time.                          *)
(***************************************************************************)
EXTENDS Integers, Sequences, FiniteSets

CONSTANTS
  Lanes,       \* the accounts Codex can run on
  NoLane,
  RecoveryLimit, Hour, \* 429 recoveries in a sliding window (3 in 3600 s)
  MaxClock, MaxWorks, MaxAsking \* bounds: time, turns seen per child, requests in flight

VARIABLES
  wrapper,     \* control: mode, at, stop (why Codex stopped), pick, resume, end
  screen,      \* the output thread: open, row, attempted, gen, spend, rate
  selected,    \* CapacityDecision.selected: the lane an answer allows, and its request
  asking,      \* requests in flight, by the generation they were made in
  approved,    \* the selection the main loop took
  codex,       \* the child: none, running, killed, dead
  signals,     \* LaunchSignals.received of the launch in the slot
  slot,        \* the launch: its lane and whether its connection is open
  tried,
  recoveries,  \* when the 429 recoveries of this wrapper started
  clock,
  facts        \* history: told (a signal came), spent and granted, ran

launcherVars == <<wrapper, screen, selected, asking, approved, codex, signals, slot, tried,
                  recoveries, clock, facts>>

NoOffer == [lane |-> NoLane, gen |-> 0]
Quiet == [open |-> FALSE, row |-> FALSE, attempted |-> FALSE, gen |-> 0, spend |-> FALSE,
          rate |-> FALSE]
Central == wrapper.mode = "central"
\* Only a launch of its own can be moved for a 429; capacity also needs a known model.
AsksCapacity == Central /\ wrapper.model

CodexInit ==
  /\ \E mode \in {"central", "local"}, model \in BOOLEAN, lane0 \in Lanes :
       /\ model => mode = "central"
       /\ wrapper = [mode |-> mode, model |-> model, at |-> "start", stop |-> "", pick |-> NoLane,
                     bills |-> FALSE, cost |-> "headroom", resume |-> FALSE, end |-> ""]
       /\ slot = [lane |-> lane0, open |-> mode = "central"]
       /\ tried = {lane0}
  /\ screen = Quiet /\ selected = NoOffer /\ approved = NoOffer
  /\ asking = [g \in 0..MaxWorks |-> 0]
  /\ codex = "none" /\ signals = FALSE /\ recoveries = <<>> /\ clock = 0
  /\ facts = [told |-> FALSE, late |-> FALSE, stale |-> FALSE, again |-> FALSE,
              granted |-> {}, spent |-> {}]

Goto(place) == wrapper' = [wrapper EXCEPT !.at = place]
\* Every way out of the wrapper closes the launch in the slot.
End(why) ==
  /\ wrapper' = [wrapper EXCEPT !.at = "end", !.end = why]
  /\ slot' = [slot EXCEPT !.open = FALSE]
threadVars == <<screen, selected, asking, approved, codex>>
Recovery == <<tried, recoveries, clock>>

---------------------------------------------------------------------------
\* run_codex_in_pty: a signal received while an account was chosen ends the
\* wrapper before Codex runs again.
SignalledBefore ==
  /\ wrapper.at = "start" /\ Central /\ signals
  /\ End("signal")
  /\ UNCHANGED <<screen, selected, asking, approved, codex, signals, tried, recoveries, clock,
                 facts>>

Spawn ==
  /\ wrapper.at = "start" /\ ~(Central /\ signals)
  /\ Goto("running")
  /\ codex' = "running"
  /\ screen' = [Quiet EXCEPT !.open = TRUE]
  /\ facts' = [facts EXCEPT !.late = @ \/ facts.told, !.granted = {}, !.spent = {}]
  /\ UNCHANGED <<selected, asking, approved, signals, slot, tried, recoveries, clock>>

\* spawn_output_thread: one chunk.  A turn seen working clears what was on the
\* screen and forgets the selection; then come the spend cap, the overloaded
\* model and the 429, in this order.
Capped(seen) == seen.spend
Chunk(seen) ==
  /\ screen.open /\ codex \in {"running", "killed", "dead"}
  /\ seen.working => screen.gen < MaxWorks
  /\ LET gen == IF seen.working THEN screen.gen + 1 ELSE screen.gen
         row == (screen.row /\ ~seen.working /\ ~seen.scrolled) \/ seen.row
         before == screen.attempted /\ ~seen.working /\ row
         asks == ~Capped(seen) /\ AsksCapacity /\ row /\ ~before
         rated == ~Capped(seen) /\ Central /\ seen.rate
     IN
     /\ asks /\ seen.named => asking[gen] < MaxAsking
     /\ screen' = [screen EXCEPT !.gen = gen, !.row = row, !.attempted = before \/ asks,
                                 !.spend = @ \/ Capped(seen), !.rate = @ \/ rated,
                                 !.open = ~(Capped(seen) \/ rated)]
     /\ selected' = IF seen.working THEN NoOffer ELSE selected
     /\ asking' = [asking EXCEPT ![gen] = @ + (IF asks /\ seen.named THEN 1 ELSE 0)]
     /\ codex' = IF codex = "running" /\ (Capped(seen) \/ rated) THEN "killed" ELSE codex
  /\ UNCHANGED <<wrapper, approved, signals, slot, facts, Recovery>>

Output ==
  \E sight \in {"none", "working", "scrolled", "spend", "rate"}, row, named \in BOOLEAN :
    /\ screen.open
    /\ row \/ sight # "none"
    /\ named => row
    /\ Chunk([working |-> sight = "working", scrolled |-> sight = "scrolled", row |-> row,
              spend |-> sight = "spend", rate |-> sight = "rate", named |-> named])

\* The output ends with the child.
OutputEnds ==
  /\ screen.open /\ codex = "dead"
  /\ screen' = [screen EXCEPT !.open = FALSE]
  /\ UNCHANGED <<wrapper, selected, asking, approved, codex, signals, slot, facts, Recovery>>

\* Mutated form: an answer is taken whatever happened since it was asked for.
AnsweredLate(g) ==
  /\ asking[g] > 0
  /\ asking' = [asking EXCEPT ![g] = @ - 1]
  /\ \/ \E lane \in Lanes \ tried : selected' = [lane |-> lane, gen |-> g]
     \/ UNCHANGED selected
  /\ UNCHANGED <<wrapper, screen, approved, codex, signals, slot, facts, Recovery>>

\* A worker: the server's answer counts only while no turn was seen working
\* since the request.  A refusal or an error leaves the selection alone.
Answered(g) ==
  /\ asking[g] > 0
  /\ asking' = [asking EXCEPT ![g] = @ - 1]
  /\ \/ screen.gen = g /\ \E lane \in Lanes \ tried : selected' = [lane |-> lane, gen |-> g]
     \/ UNCHANGED selected
  /\ UNCHANGED <<wrapper, screen, approved, codex, signals, slot, facts, Recovery>>

Stale == facts' = [facts EXCEPT !.stale = @ \/ selected.gen # screen.gen]

\* The poll loop: an approved lane ends Codex.
TakeOffer ==
  /\ wrapper.at = "running" /\ approved = NoOffer /\ selected # NoOffer
  /\ approved' = selected /\ selected' = NoOffer /\ Stale
  /\ codex' = IF codex = "running" THEN "killed" ELSE codex
  /\ UNCHANGED <<wrapper, screen, asking, signals, slot, Recovery>>

\* The poll loop: a signal revokes the launch before it is passed on, and Codex
\* is killed when it does not leave.  A launch that cannot be removed fails the
\* wrapper once Codex is reaped.
Signalled ==
  /\ wrapper.at = "running" /\ Central /\ signals
  /\ slot' = [slot EXCEPT !.open = FALSE]
  /\ codex' = "dead"
  /\ \E why \in {"signal", "error"} :
       wrapper' = [wrapper EXCEPT !.at = "reaped", !.end = why]
  /\ UNCHANGED <<screen, selected, asking, approved, signals, tried, recoveries, clock, facts>>

Reap ==
  /\ wrapper.at = "running" /\ codex = "dead"
  /\ Goto("reaped")
  /\ UNCHANGED <<threadVars, signals, slot, facts, Recovery>>

---------------------------------------------------------------------------
\* The threads are joined, then the reasons are read in the order of the code.
Joined == wrapper.at = "reaped" /\ ~screen.open /\ \A g \in DOMAIN asking : asking[g] = 0
Stopped(why, lane) ==
  /\ wrapper' = [wrapper EXCEPT !.at = "stopped", !.stop = why, !.pick = lane]
  /\ UNCHANGED slot

Outcome ==
  /\ Joined
  /\ codex' = "none" /\ screen' = Quiet /\ selected' = NoOffer /\ approved' = NoOffer
  /\ \/ wrapper.end # "" /\ End(wrapper.end) /\ UNCHANGED facts
     \/ wrapper.end = "" /\ screen.spend /\ Stopped("spend", NoLane) /\ UNCHANGED facts
     \/ /\ wrapper.end = "" /\ ~screen.spend /\ approved # NoOffer
        /\ Stopped("capacity", approved.lane) /\ UNCHANGED facts
     \/ /\ wrapper.end = "" /\ ~screen.spend /\ approved = NoOffer /\ selected # NoOffer
        /\ Stopped("capacity", selected.lane) /\ Stale
     \/ /\ wrapper.end = "" /\ ~screen.spend /\ approved = NoOffer /\ selected = NoOffer
        /\ IF screen.rate THEN Stopped("rate", NoLane) ELSE End("code")
        /\ UNCHANGED facts
  /\ UNCHANGED <<asking, signals, Recovery>>

\* run_with_reporter_inner: the fourth 429 in an hour ends the wrapper.
Recent == SelectSeq(recoveries, LAMBDA at : clock - at < Hour)
\* Mutated form: the recoveries are counted after this one was forgiven.
CountLate ==
  /\ wrapper.at = "stopped" /\ wrapper.stop = "rate"
  /\ IF Len(Recent) > RecoveryLimit
     THEN End("error") /\ recoveries' = Recent
     ELSE Goto("plan") /\ recoveries' = Append(Recent, clock) /\ UNCHANGED slot
  /\ UNCHANGED <<threadVars, signals, tried, clock, facts>>

Count ==
  /\ wrapper.at = "stopped" /\ wrapper.stop = "rate"
  /\ IF Len(Recent) >= RecoveryLimit
     THEN End("error") /\ recoveries' = Recent
     ELSE Goto("plan") /\ recoveries' = Append(Recent, clock) /\ UNCHANGED slot
  /\ UNCHANGED <<threadVars, signals, tried, clock, facts>>

\* recovery_plan: the resume arguments are built at the first stop, when a
\* session is known, named on the command line or found, and used ever after.
Plan ==
  /\ \/ wrapper.at = "plan"
     \/ wrapper.at = "stopped" /\ wrapper.stop # "rate"
  /\ \/ wrapper' = [wrapper EXCEPT !.at = "choose", !.resume = TRUE] /\ UNCHANGED slot
     \/ ~wrapper.resume /\ End("error")
  /\ UNCHANGED <<threadVars, signals, facts, Recovery>>

\* The lane the server approved, or the best one not tried yet.  The server's
\* lanes are free; on this machine a lane may bill, or need a banked reset.
Candidate(lane, bills, cost) ==
  wrapper' = [wrapper EXCEPT !.at = "consent", !.pick = lane, !.bills = bills, !.cost = cost]
Choose ==
  /\ wrapper.at = "choose"
  /\ \/ wrapper.stop = "capacity" /\ Candidate(wrapper.pick, FALSE, "headroom") /\ UNCHANGED slot
     \/ /\ wrapper.stop # "capacity" /\ UNCHANGED slot
        /\ \E lane \in Lanes \ tried, bills \in BOOLEAN, cost \in {"headroom", "reset", "lapsing"} :
             /\ Central => ~bills /\ cost = "headroom"
             /\ Candidate(lane, bills, cost)
     \/ wrapper.stop # "capacity" /\ End("error")
  /\ UNCHANGED <<threadVars, signals, facts, Recovery>>

\* Mutated form: an account that needs a reset is not asked about its billing.
NeedsBillingHeadroom == wrapper.bills /\ wrapper.cost = "headroom"
NeedsBilling == wrapper.bills
NeedsReset == wrapper.cost = "reset"

\* Money first, then the reset; one that would lapse is not asked about.
Consent ==
  /\ wrapper.at = "consent"
  /\ LET wanted == {w \in {"billing", "reset"} : IF w = "billing" THEN NeedsBilling ELSE NeedsReset}
     IN \/ /\ facts' = [facts EXCEPT !.granted = wanted]
           /\ Goto(IF wrapper.cost = "headroom" THEN "switch" ELSE "redeem") /\ UNCHANGED slot
        \/ wanted # {} /\ End("error") /\ UNCHANGED facts
  /\ UNCHANGED <<threadVars, signals, Recovery>>

\* A reset that fails, or clears nothing, ends the wrapper before the switch.
Redeem ==
  /\ wrapper.at = "redeem"
  /\ facts' = [facts EXCEPT !.spent = IF wrapper.cost = "reset" THEN {"reset"} ELSE {}]
  /\ \/ Goto("switch") /\ UNCHANGED slot
     \/ End("error")
  /\ UNCHANGED <<threadVars, signals, Recovery>>

\* Mutated form: the new launch listens for signals of its own.
SwitchDeaf ==
  /\ wrapper.at = "switch"
  /\ \/ /\ Goto("start")
        /\ slot' = [lane |-> wrapper.pick, open |-> Central]
        /\ tried' = tried \cup {wrapper.pick}
        /\ signals' = FALSE
        /\ facts' = [facts EXCEPT !.again = @ \/ wrapper.pick \in tried,
                                  !.spent = @ \cup (IF wrapper.bills THEN {"billing"} ELSE {})]
     \/ End("error") /\ UNCHANGED <<tried, signals, facts>>
  /\ UNCHANGED <<threadVars, recoveries, clock>>

\* switch_to: the new launch takes over the signals of the one it replaces, and
\* closes it; a failure of either ends the wrapper.
Switch ==
  /\ wrapper.at = "switch"
  /\ \/ /\ Goto("start")
        /\ slot' = [lane |-> wrapper.pick, open |-> Central]
        /\ tried' = tried \cup {wrapper.pick}
        /\ facts' = [facts EXCEPT !.again = @ \/ wrapper.pick \in tried,
                                  !.spent = @ \cup (IF wrapper.bills THEN {"billing"} ELSE {})]
     \/ End("error") /\ UNCHANGED <<tried, facts>>
  /\ UNCHANGED <<threadVars, signals, recoveries, clock>>

---------------------------------------------------------------------------
\* Codex leaves, of itself or because it was killed.
ChildEnds ==
  /\ wrapper.at = "running" /\ codex \in {"running", "killed"}
  /\ codex' = "dead"
  /\ UNCHANGED <<wrapper, screen, selected, asking, approved, signals, slot, facts, Recovery>>

SignalComes ==
  /\ Central /\ wrapper.at # "end" /\ ~signals
  /\ signals' = TRUE
  /\ facts' = [facts EXCEPT !.told = TRUE]
  /\ UNCHANGED <<wrapper, threadVars, slot, Recovery>>

TimePasses ==
  /\ wrapper.at = "running" /\ clock < MaxClock
  /\ clock' = clock + 1
  /\ UNCHANGED <<wrapper, threadVars, signals, slot, tried, recoveries, facts>>

CodexNext ==
  \/ SignalledBefore \/ Spawn \/ Output \/ OutputEnds
  \/ \E g \in DOMAIN asking : Answered(g)
  \/ TakeOffer \/ Signalled \/ Reap \/ Outcome \/ Count \/ Plan \/ Choose \/ Consent \/ Redeem
  \/ Switch \/ ChildEnds \/ SignalComes \/ TimePasses

CodexSpec == CodexInit /\ [][CodexNext]_launcherVars

---------------------------------------------------------------------------
CodexTypeOK ==
  /\ wrapper.at \in {"start", "running", "reaped", "stopped", "plan", "choose", "consent",
                     "redeem", "switch", "end"}
  /\ selected.lane \in Lanes \cup {NoLane} /\ approved.lane \in Lanes \cup {NoLane}
  /\ tried \subseteq Lanes /\ slot.lane \in tried
  /\ codex \in {"none", "running", "killed", "dead"}

\* Codex is only moved for an overload no turn has recovered from: the answer
\* acted on was asked for after the last turn that was seen working.
StillStopped == ~facts.stale

\* An account that stopped Codex is never tried again by the same wrapper.
NeverBack == ~facts.again

\* At most RecoveryLimit recoveries from a 429 start in any hour.
RecoveriesBounded ==
  \A i \in DOMAIN recoveries :
    Cardinality({j \in DOMAIN recoveries : recoveries[j] \in recoveries[i] - Hour + 1..recoveries[i]})
      <= RecoveryLimit

\* Credits and banked resets are spent only on a lane they were approved for.
SpentWithConsent == facts.spent \subseteq facts.granted

\* A signal is never lost while accounts are exchanged: Codex is not started
\* after one, and the wrapper leaves no Codex and no open launch behind.
SignalKept == ~facts.late
NothingLeft == wrapper.at = "end" => codex \in {"none", "dead"} /\ ~slot.open

CodexIInv ==
  CodexTypeOK /\ StillStopped /\ NeverBack /\ RecoveriesBounded /\ SpentWithConsent /\ SignalKept
  /\ NothingLeft
=============================================================================
