---------------------------- MODULE RelayStreaks ----------------------------
(***************************************************************************)
(* How long the relay advises one Codex thread to retry: the failures of a *)
(* thread form a streak with a budget, the table of streaks is pruned, and *)
(* requests of a thread overlap (src/src/relay/policy.rs, and its callers  *)
(* in src/src/relay/mod.rs).                                               *)
(***************************************************************************)
EXTENDS Integers

CONSTANTS
  Sessions,     \* the Codex threads that are followed
  Budget,       \* rate_budget and overloaded_budget: [Causes -> seconds]
  Idle,         \* STREAK_IDLE
  Evict,        \* STREAK_EVICT
  PruneEvery,   \* PRUNE_INTERVAL
  BaseDelay, MaxDelay,
  Doublings,    \* the exponent at which the delay stops doubling
  Upstream,     \* delays that upstream asks for
  MaxNow,       \* length of a behaviour (bound)
  MaxOpen       \* requests of one thread at once (bound)

Causes == {"rate_429", "overloaded"}

VARIABLES
  now,
  streaks,     \* by_thread
  open,        \* in_flight: requests without an answer, and with one
  pruned,      \* last_pruned
  run          \* history: the streaks of a table that is never pruned

streaksVars == <<now, streaks, open, pruned, run>>

NoStreak == [kind |-> "none"]
NewStreak(kind) ==
  [kind |-> kind, started |-> now, active |-> now, retryAt |-> now,
   attempts |-> 0, exhausted |-> FALSE]

StreaksInit ==
  /\ now = 0 /\ pruned = -PruneEvery
  /\ streaks = [t \in Sessions |-> NoStreak] /\ run = streaks
  /\ open = [t \in Sessions |-> [waiting |-> 0, answered |-> 0]]

---------------------------------------------------------------------------
InFlight(t) == open[t].waiting + open[t].answered > 0
Latest(a, b) == IF a > b THEN a ELSE b
Least(a, b) == IF a < b THEN a ELSE b
Touched(streak) ==
  IF streak = NoStreak THEN streak ELSE [streak EXCEPT !.active = Latest(@, now)]

\* Mutated form: a streak whose requests are under way is dropped as well.
PruneKeepsIdle(t) ==
  \/ now - streaks[t].started < Budget[streaks[t].kind]
  \/ now - Latest(streaks[t].active, streaks[t].retryAt) <= Evict
\* Streaks::prune: the streaks that stay.
PruneKeeps(t) ==
  \/ InFlight(t)
  \/ now - streaks[t].started < Budget[streaks[t].kind]
  \/ now - Latest(streaks[t].active, streaks[t].retryAt) <= Evict

PruneDue == now - pruned >= PruneEvery
Pruned ==
  IF PruneDue
  THEN [t \in Sessions |-> IF streaks[t] # NoStreak /\ PruneKeeps(t) THEN streaks[t] ELSE NoStreak]
  ELSE streaks

\* A request this long after the advised time is a later resume.
Resumed(t, streak) == ~InFlight(t) /\ streak # NoStreak /\ now - streak.retryAt > Idle
Requested(t, streak) == IF Resumed(t, streak) THEN NoStreak ELSE Touched(streak)

\* Streaks::request, from forward.
Request(t) ==
  /\ open[t].waiting + open[t].answered < MaxOpen
  /\ streaks' = [Pruned EXCEPT ![t] = Requested(t, @)]
  /\ run' = [run EXCEPT ![t] = Requested(t, @)]
  /\ pruned' = IF PruneDue THEN now ELSE pruned
  /\ open' = [open EXCEPT ![t].waiting = @ + 1]
  /\ UNCHANGED now

\* A request of a thread that is not followed here.
RequestElsewhere ==
  /\ streaks' = Pruned
  /\ pruned' = IF PruneDue THEN now ELSE pruned
  /\ UNCHANGED <<now, open, run>>

Answered(t) ==
  /\ open[t].waiting > 0
  /\ open' = [open EXCEPT ![t] = [waiting |-> @.waiting - 1, answered |-> @.answered + 1]]
  /\ UNCHANGED <<now, pruned>>

---------------------------------------------------------------------------
\* Streaks::failure.
Counted(streak, kind) ==
  LET same == streak # NoStreak /\ streak.kind = kind /\ ~streak.exhausted
      s    == IF same THEN streak ELSE NewStreak(kind)
  IN  [s EXCEPT !.active = Latest(@, now), !.attempts = Least(@ + 1, Doublings + 1)]

Cap(attempts) == Least(BaseDelay * 2 ^ (attempts - 1), MaxDelay)
\* jittered
Delays(attempts) == Latest((Cap(attempts) + 1) \div 2, 1)..Cap(attempts)

Advised(streak, delay) ==
  IF now - streak.started + delay > Budget[streak.kind]
  THEN [streak EXCEPT !.exhausted = TRUE]
  ELSE [streak EXCEPT !.retryAt = now + delay]

\* Relay::failure, of a rate limit that Codex may retry or of a streamed
\* overload, with upstream's own delay or without.
Failure(t, kind) ==
  /\ Answered(t)
  /\ LET s == Counted(streaks[t], kind)
         r == Counted(run[t], kind)
     IN  \E delay \in Delays(s.attempts) \cup Upstream :
           /\ streaks' = [streaks EXCEPT ![t] = Advised(s, delay)]
           /\ run' = [run EXCEPT ![t] = Advised(r, delay)]

\* Relay::success and Streaks::end: a completed response, a terminal 429 or any
\* other streamed failure.
Ended(t) ==
  /\ Answered(t)
  /\ streaks' = [streaks EXCEPT ![t] = NoStreak]
  /\ run' = [run EXCEPT ![t] = NoStreak]

\* An answer that says nothing about the streak: a 5xx, or no stream at all.
Unrelated(t) == Answered(t) /\ UNCHANGED <<streaks, run>>

\* Streaks::finish_request, when the response is over or Codex has gone.
FinishRequest(t) ==
  /\ InFlight(t)
  /\ \E side \in {"waiting", "answered"} :
       open[t][side] > 0 /\ open' = [open EXCEPT ![t][side] = @ - 1]
  /\ LET last == open[t].waiting + open[t].answered = 1
     IN  /\ streaks' = [streaks EXCEPT ![t] = IF last THEN Touched(@) ELSE @]
         /\ run' = [run EXCEPT ![t] = IF last THEN Touched(@) ELSE @]
  /\ UNCHANGED <<now, pruned>>

Tick == now < MaxNow /\ now' = now + 1 /\ UNCHANGED <<streaks, open, pruned, run>>

StreaksNext ==
  \/ Tick \/ RequestElsewhere
  \/ \E t \in Sessions :
       \/ Request(t) \/ Ended(t) \/ Unrelated(t) \/ FinishRequest(t)
       \/ \E kind \in Causes : Failure(t, kind)

StreaksSpec == StreaksInit /\ [][StreaksNext]_streaksVars

---------------------------------------------------------------------------
StreaksTypeOK ==
  /\ now \in 0..MaxNow /\ pruned \in -PruneEvery..now
  /\ \A t \in Sessions :
       /\ open[t].waiting \in 0..MaxOpen /\ open[t].answered \in 0..MaxOpen
       /\ streaks[t] # NoStreak => /\ streaks[t].kind \in Causes
                                   /\ streaks[t].started <= now
                                   /\ streaks[t].attempts \in 1..(Doublings + 1)

\* Codex is never told to retry later than the budget after the first failure
\* of an unbroken series, although streaks are dropped from the table to bound
\* it: a series ends with a success, another failure or a resume, not with a
\* prune.
WithinBudget ==
  \A t \in Sessions : run[t] # NoStreak => run[t].retryAt - run[t].started <= Budget[run[t].kind]
PruneUnseen ==
  \A t \in Sessions : InFlight(t) => streaks[t] = run[t]

\* A streak that survives a prune is still of use.
TableBounded ==
  \A t \in Sessions : streaks[t] # NoStreak /\ pruned = now => PruneKeeps(t)

StreaksIInv == StreaksTypeOK /\ WithinBudget /\ PruneUnseen /\ TableBounded
=============================================================================
