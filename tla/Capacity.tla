------------------------------ MODULE Capacity ------------------------------
(***************************************************************************)
(* The account server's policy for overloaded models                       *)
(* (src/central/capacity.rs, storage/capacity.rs), for one model: clients  *)
(* report failures, successes and terminal stops, late, twice or out of    *)
(* order; three failures in a window cool an account down; a session whose *)
(* stop is proved may move to another account, a few times an hour.  The   *)
(* session is followed with its launcher, which may start again, ask again *)
(* and lose the answer.  Each login stands for its aliases: the policy     *)
(* resolves an alias, borrowed or renamed, to a login before anything else.*)
(***************************************************************************)
EXTENDS Integers, FiniteSets

CONSTANTS
  Accounts,                  \* the logins
  Window, Cooldown, Retention,  \* 120, 300 and 3600 seconds
  LastTick,
  Bounds       \* of a behaviour: the failures that cool an account and the moves of a
               \* session (both 3 in the code), the accounts that fail, and bounds on
               \* the reports of a kind, how late they come, new launchers and deaths

VARIABLES
  ticks,
  reports,   \* the evidence that happened: a report may arrive at any time, any number of times
  histories, \* the published history of each account
  moves,     \* the published moves of the session: at, from, to, stop; one for a stop, and
             \* nothing depends on their order
  backend,   \* mode (file or postgres), the write in progress, deaths left
  session,   \* the launcher: on, tried, stop (the terminal stop it asks about)
  advised,   \* history: the moves the launcher was told to make
  limits

capacityVars == <<ticks, reports, histories, moves, backend, session, advised, limits>>

Never == -1
Streak == limits.streak
MoveLimit == limits.moves
NoHistory == [completed |-> Never, done |-> {}, seen |-> {}, failures |-> {}, cooling |-> 0,
              terminal |-> {}]
NoWrite == [histories |-> <<>>, to |-> Never]

CapacityInit ==
  /\ ticks = 1 /\ reports = {} /\ moves = {} /\ advised = {}
  /\ histories = [a \in Accounts |-> NoHistory]
  /\ limits \in Bounds
  /\ \E mode \in {"file", "postgres"} :
       backend = [mode |-> mode, busy |-> FALSE, write |-> NoWrite,
                  deaths |-> limits.deaths]
  /\ session = [on |-> limits.on, tried |-> {limits.on}, stop |-> Never]

---------------------------------------------------------------------------
\* State::prune.
Current(S, time) == {e \in S : time - e.at <= Window}
\* Mutated form: an identifier is forgotten while its report is still accepted.
PrunedEarly(h, time) ==
  [h EXCEPT !.seen = {e \in @ : time - e.at < Window}, !.failures = Current(@, time),
            !.done = Current(@, time), !.terminal = {t \in @ : time - t.at < Cooldown}]

Pruned(h, time) ==
  [h EXCEPT !.seen = Current(@, time), !.failures = Current(@, time), !.done = Current(@, time),
            !.terminal = {t \in @ : time - t.at < Cooldown}]
\* A history with nothing left is dropped, its success with it once it expired.
Kept(h, time) ==
  LET p == Pruned(h, time)
  IN IF /\ p.seen = {} /\ p.cooling <= time /\ p.terminal = {}
        /\ ~(p.completed >= 0 /\ time - p.completed <= Window)
     THEN NoHistory ELSE p
Retained(ms, time) == {m \in ms : time - m.at < Retention}

\* State::observe: a success clears what it followed, in the order of observation.
Completed(h, e) ==
  IF e.at < h.completed \/ e \in h.done THEN h
  ELSE LET newer == {f \in h.failures : f.at > e.at}
       IN [h EXCEPT !.completed = e.at, !.done = {d \in @ : d.at >= e.at} \cup {e},
                    !.failures = newer, !.cooling = IF Cardinality(newer) < Streak THEN 0 ELSE @,
                    !.terminal = {t \in @ : t.at > e.at}]
Terminal(h, e) ==
  IF e.at < h.completed THEN h ELSE [h EXCEPT !.terminal = {e}]
\* A new failure is remembered during a cooldown too, and does not extend it.
Overloaded(h, e, time) ==
  IF e.at < h.completed \/ e \in h.seen THEN h
  ELSE LET failures == h.failures \cup {e}
       IN [h EXCEPT !.seen = @ \cup {e}, !.failures = failures,
                    !.cooling = IF Cardinality(failures) >= Streak /\ @ <= time
                                THEN time + Cooldown ELSE @]
Observed(h, e, time) ==
  CASE e.kind = "completed" -> Completed(h, e)
    [] e.kind = "terminal" -> Terminal(h, e)
    [] OTHER -> Overloaded(h, e, time)

---------------------------------------------------------------------------
\* One operation at a time: a file lock, or the transaction's advisory locks.
Free == ~backend.busy
Histories(time) == [a \in Accounts |-> Kept(histories[a], time)]

\* What the clients see: requests that fail, requests that complete, and a
\* session that gives up.  Every report keeps the time of its observation.
Of(kind) == {e \in reports : e.kind = kind}
Happens ==
  \E kind \in {"failed", "completed", "terminal"}, a \in Accounts :
    /\ Cardinality(Of(kind)) < limits[kind]
    /\ kind = "terminal" => a = session.on /\ session.stop = Never
    /\ a \in limits.where \cup {session.on}
    /\ LET e == [kind |-> kind, id |-> Cardinality(reports), of |-> a, at |-> ticks]
       IN /\ reports' = reports \cup {e}
          /\ session' = IF kind = "terminal" THEN [session EXCEPT !.stop = e.id] ELSE session
    /\ UNCHANGED <<ticks, histories, moves, backend, advised, limits>>

\* CapacityRecovery::observe: a report older than the window is refused.
Report(e) ==
  /\ Free
  /\ ticks - e.at <= Window /\ ticks - e.at <= limits.late
  /\ histories' = [Histories(ticks) EXCEPT ![e.of] = Observed(@, e, ticks)]
  /\ UNCHANGED <<ticks, reports, moves, backend, session, advised, limits>>

\* State::plan for the session's stop: what it answers, and what it charges.
Cooling(hs, a) == hs[a].cooling > ticks
Proof(hs) == {e \in hs[session.on].terminal : e.id = session.stop}
Charged == {m \in Retained(moves, ticks) : m.from = session.on /\ m.stop = session.stop}
Excluded ==
  session.tried \cup {session.on} \cup UNION {{m.from, m.to} : m \in Retained(moves, ticks)}
Candidates(hs) ==
  {a \in Accounts \ Excluded : ~Cooling(hs, a) /\ hs[a].terminal = {}}

\* The answer is written before it is given: in one transaction, or, in file
\* mode, the budget first and the history after it.
Move(a) == [at |-> ticks, from |-> session.on, to |-> a, stop |-> session.stop]
Answer(m) ==
  /\ advised' = advised \cup {m}
  /\ session' = [on |-> m.to, tried |-> session.tried \cup {m.to}, stop |-> Never]
NoAnswer == UNCHANGED <<advised, session>>

PlanAgain ==
  /\ Free /\ session.stop # Never
  /\ Proof(Histories(ticks)) # {}
  /\ \E m \in Charged :
       /\ m.to \notin session.tried /\ ~Cooling(Histories(ticks), m.to)
       /\ Answer(m) \/ NoAnswer
  /\ histories' = Histories(ticks) /\ moves' = Retained(moves, ticks)
  /\ UNCHANGED <<ticks, reports, backend, limits>>

\* Mutated form: the budget counts the moves after this one.
BudgetLeftOver(ms) == Cardinality(ms) <= MoveLimit
BudgetLeft(ms) == Cardinality(ms) < MoveLimit

PlanMove ==
  /\ Free /\ session.stop # Never
  /\ LET hs == Histories(ticks)
         ms == Retained(moves, ticks)
     IN /\ Proof(hs) # {} /\ Charged = {}
        /\ BudgetLeft(ms) /\ Cooling(hs, session.on)
        /\ \E a \in Candidates(hs) :
             /\ moves' = ms \cup {Move(a)}
             /\ IF backend.mode = "file"
                THEN /\ backend' = [backend EXCEPT !.busy = TRUE, !.write = [histories |-> hs, to |-> a]]
                     /\ UNCHANGED histories /\ NoAnswer
                ELSE /\ histories' = hs /\ UNCHANGED backend
                     /\ Answer(Move(a)) \/ NoAnswer
  /\ UNCHANGED <<ticks, reports, limits>>

FinishWrite ==
  /\ backend.busy
  /\ histories' = backend.write.histories
  /\ backend' = [backend EXCEPT !.busy = FALSE, !.write = NoWrite]
  /\ Answer(Move(backend.write.to)) \/ NoAnswer
  /\ UNCHANGED <<ticks, reports, moves, limits>>

\* The server dies between the two files.
Die ==
  /\ backend.busy /\ backend.deaths > 0
  /\ backend' = [backend EXCEPT !.busy = FALSE, !.write = NoWrite, !.deaths = @ - 1]
  /\ UNCHANGED <<ticks, reports, histories, moves, session, advised, limits>>

\* A new launcher resumes the session, on any account that is not cooling, and
\* knows only the one it runs on.
Resume ==
  /\ Free /\ session.stop # Never /\ limits.resumes > 0
  /\ \E a \in Accounts :
       /\ ~Cooling(Histories(ticks), a)
       /\ session' = [on |-> a, tried |-> {a}, stop |-> Never]
  /\ limits' = [limits EXCEPT !.resumes = @ - 1]
  /\ UNCHANGED <<ticks, reports, histories, moves, backend, advised>>

Advance ==
  /\ ticks < LastTick /\ Free
  /\ ticks' = ticks + 1
  /\ UNCHANGED <<reports, histories, moves, backend, session, advised, limits>>

CapacityNext ==
  \/ Happens \/ \E e \in reports : Report(e)
  \/ PlanAgain \/ PlanMove \/ FinishWrite \/ Die \/ Resume \/ Advance

CapacitySpec == CapacityInit /\ [][CapacityNext]_capacityVars

---------------------------------------------------------------------------
CapacityTypeOK ==
  /\ \A a \in Accounts : histories[a].failures \subseteq histories[a].seen
                         /\ histories[a].seen \subseteq {e \in Of("failed") : e.of = a}
  /\ session.on \in session.tried
  /\ \A m \in advised : m.from \in Accounts /\ m.to \in Accounts

\* At most MoveLimit moves of a session are charged in any hour, through lost answers, deaths
\* and new launchers.
MovesBounded ==
  \A m \in advised :
    Cardinality({n \in advised : n.at <= m.at /\ m.at - n.at < Retention}) <= MoveLimit

\* A move that was made stays charged for its hour.
MovesCharged ==
  \A m \in advised : ticks - m.at < Retention =>
    \E n \in moves : n.stop = m.stop /\ n.to = m.to

\* A stop is advised with one account, however often it is asked about, and a
\* session does not come back to an account it left within the hour.
OneAnswer == \A m, n \in advised : m.stop = n.stop /\ m.from = n.from => m.to = n.to
NoReturn ==
  \A m, n \in moves : m.stop < n.stop => n.to \notin {m.from, m.to}

\* An account cools down only for Streak different failures, none of which was
\* followed by a success the server knows of.
CoolingJustified ==
  \A a \in Accounts : histories[a].cooling > ticks =>
    Cardinality({e \in Of("failed") : e.of = a /\ e.at >= histories[a].completed}) >= Streak

CapacityIInv ==
  CapacityTypeOK /\ MovesBounded /\ MovesCharged /\ OneAnswer /\ NoReturn /\ CoolingJustified
=============================================================================
