----------------------------- MODULE RelayStops -----------------------------
(***************************************************************************)
(* Which capacity stops of a launch are counted.  Codex retries an         *)
(* overloaded response by itself, so the relay only remembers it; the stop *)
(* counts when the launch's output observer or its watcher says that Codex *)
(* gave the turn up (src/src/relay/terminal.rs, terminal/completion.rs,    *)
(* lane_stop and http_error in src/src/relay/mod.rs).  An overload in a    *)
(* stream whose streak is spent counts at once.                            *)
(*                                                                         *)
(* One launch of one thread, whose turns follow one another.  A receipt is *)
(* handled while its sender waits, or is lost.                             *)
(***************************************************************************)
EXTENDS Naturals, Sequences, FiniteSets, FiniteSetsExt, Functions

CONSTANTS
  MaxTurns,      \* turns of the thread (bound)
  MaxPendingStops, \* MAX_PENDING
  InspectLimit   \* turns that an inspection returns

Turns == 1..MaxTurns
Shared == 0      \* the key of a turn that Codex gives no id ("unknown")

VARIABLES
  labelled,   \* whether the requests carry their turn's id
  turn,       \* the last turn, whether it is under way, its last answer
  ended,      \* how each turn ended, and its last answer
  pendingStops, \* failures: key |-> [turn, live, unavailable]
  watch,      \* the watcher: phase, turns still to check, closing
  observer,   \* [shown: the error row is on the screen, reported]
  lost,       \* history: something the count needs was lost
  counts      \* history: stops counted for each turn

stopsVars == <<labelled, turn, ended, pendingStops, watch, observer, lost, counts>>

Answers == {"none", "overloaded", "exhausted", "other"}
Ends == {"not", "completed", "capacity", "given_up"}

StopsTypeOK ==
  /\ turn.at \in 0..MaxTurns /\ turn.active \in BOOLEAN /\ turn.last \in Answers
  /\ \A u \in Turns : ended[u].how \in Ends /\ ended[u].last \in Answers /\ counts[u] \in 0..2
  /\ DOMAIN pendingStops \subseteq Turns \cup {Shared}
  /\ Cardinality(DOMAIN pendingStops) <= MaxPendingStops
  /\ watch.phase \in {"idle", "polling", "closed"} /\ watch.left \subseteq Turns

StopsInit ==
  /\ labelled \in BOOLEAN
  /\ turn = [at |-> 0, active |-> FALSE, last |-> "none"]
  /\ ended = [u \in Turns |-> [how |-> "not", last |-> "none"]]
  /\ pendingStops = <<>>
  /\ watch = [phase |-> "idle", left |-> {}, closing |-> FALSE, stop |-> FALSE]
  /\ observer = [shown |-> FALSE, reported |-> FALSE]
  /\ lost = FALSE /\ counts = [u \in Turns |-> 0]

---------------------------------------------------------------------------
Key(u) == IF labelled THEN u ELSE Shared
Forget(keys) == Restrict(pendingStops, DOMAIN pendingStops \ keys)
Live(key) == pendingStops[key].live
CountStop(u) == counts' = [counts EXCEPT ![u] = @ + 1]

\* Mutated form: a response that is no overload leaves the failure pending.
ClearNothing == {}
\* Pending::clear: without a turn id nothing is proved.
Clear == IF labelled THEN {turn.at} ELSE {}

\* A turn starts once the launch runs; the JSON observer starts anew.
TurnStart ==
  /\ ~turn.active /\ ~watch.stop /\ turn.at < MaxTurns
  /\ ~observer.shown
  /\ turn' = [at |-> turn.at + 1, active |-> TRUE, last |-> "none"]
  /\ \E json \in BOOLEAN : observer' = [observer EXCEPT !.reported = @ /\ ~json]
  /\ UNCHANGED <<labelled, ended, pendingStops, watch, lost, counts>>

\* Pending::observe of an overloaded 5xx.
Overload ==
  /\ turn.active
  /\ turn' = [turn EXCEPT !.last = "overloaded"]
  /\ LET expired == {k \in DOMAIN pendingStops : ~Live(k)}
         kept == Forget(expired)
         key == Key(turn.at)
         full == Cardinality(DOMAIN kept) >= MaxPendingStops /\ key \notin DOMAIN kept
         known == key \in DOMAIN kept /\ kept[key].unavailable
         failure == [turn |-> turn.at, live |-> TRUE, unavailable |-> known]
     IN  /\ pendingStops' = IF full THEN kept
                            ELSE [k \in DOMAIN kept \cup {key} |-> IF k = key THEN failure ELSE kept[k]]
         /\ lost' = (lost \/ full)
  /\ UNCHANGED <<labelled, ended, watch, observer, counts>>

\* Any other answer: forward clears for one that is no 5xx, http_error for a
\* 5xx of another kind, or one whose body did not come in time.
OtherAnswer ==
  /\ turn.active
  /\ \E unread \in BOOLEAN :
       /\ turn' = [turn EXCEPT !.last = IF unread THEN "overloaded" ELSE "other"]
       /\ lost' = (lost \/ unread)
  /\ pendingStops' = Forget(Clear)
  /\ UNCHANGED <<labelled, ended, watch, observer, counts>>

Ending(how, last) ==
  /\ turn' = [turn EXCEPT !.active = FALSE, !.last = last]
  /\ ended' = [ended EXCEPT ![turn.at] = [how |-> how, last |-> last]]
  /\ observer' = [observer EXCEPT !.shown = how = "capacity"]

\* lane_stop of a stream whose streak is spent: it counts, and its pending
\* failure with it.
Exhausted ==
  /\ turn.active
  /\ Ending("capacity", "exhausted")
  /\ CountStop(turn.at)
  /\ pendingStops' = Forget(Clear \cup {Key(turn.at)})
  /\ UNCHANGED <<labelled, watch, lost>>

\* Codex ends the turn: completed, after its own retries, or by the user.
TurnEnds ==
  /\ turn.active
  /\ \/ turn.last = "other" /\ Ending("completed", turn.last)
     \/ turn.last = "overloaded" /\ Ending("capacity", turn.last)
     \/ Ending("given_up", turn.last)
  /\ UNCHANGED <<labelled, pendingStops, watch, lost, counts>>

\* Failure::live: nobody asked for too long.
Expire(key) ==
  /\ key \in DOMAIN pendingStops /\ Live(key)
  /\ pendingStops' = [pendingStops EXCEPT ![key].live = FALSE]
  /\ lost' = TRUE
  /\ UNCHANGED <<labelled, turn, ended, watch, observer, counts>>

---------------------------------------------------------------------------
\* The failure a confirmation without a turn id speaks of.
Matching == IF Cardinality(DOMAIN pendingStops) = 1 THEN DOMAIN pendingStops ELSE {}

\* accept, of a confirmation: the failure is consumed, and counts unless it
\* has expired.
Consume(keys) ==
  /\ pendingStops' = Forget(keys)
  /\ IF \E k \in keys : Live(k)
     THEN \E k \in keys : CountStop(pendingStops[k].turn)
     ELSE UNCHANGED counts

\* TerminalObserver: the error row is seen, and reported once.
Confirm ==
  /\ observer.shown
  /\ observer' = [shown |-> FALSE, reported |-> TRUE]
  /\ \/ ~observer.reported /\ Consume(Matching)
     \/ UNCHANGED <<pendingStops, counts>>
  /\ UNCHANGED <<labelled, turn, ended, watch, lost>>

---------------------------------------------------------------------------
\* The launch is over, and the watcher polls once more.
Close ==
  /\ ~turn.active /\ ~watch.stop /\ turn.at > 0
  /\ watch' = [watch EXCEPT !.stop = TRUE]
  /\ UNCHANGED <<labelled, turn, ended, pendingStops, observer, lost, counts>>

Lowest(turns) ==
  {u \in turns : Cardinality({v \in turns : v < u}) < InspectLimit}
Inspectable == {k \in DOMAIN pendingStops : k # Shared /\ Live(k)}

\* Inspect: the launch's live failures with a turn id, the first of them.
InspectStops ==
  /\ watch.phase = "idle"
  /\ \/ /\ watch' = [watch EXCEPT !.phase = "polling", !.left = Lowest(Inspectable),
                                  !.closing = watch.stop]
        /\ lost' = (lost \/ Lowest(Inspectable) # Inspectable)
     \/ /\ watch' = [watch EXCEPT !.phase = IF watch.stop THEN "closed" ELSE "idle"]
        /\ lost' = (lost \/ watch.stop)
  /\ UNCHANGED <<labelled, turn, ended, pendingStops, observer, counts>>

\* The watcher reads the turn's last completion and says what it found.
Checked(u) == watch' = [watch EXCEPT !.left = @ \ {u}]

\* completed_capacity said yes.
Completion(u) ==
  /\ ended[u].how = "capacity" /\ Checked(u)
  /\ \/ u \in DOMAIN pendingStops /\ Consume({u}) /\ UNCHANGED lost
     \/ u \notin DOMAIN pendingStops /\ UNCHANGED <<pendingStops, counts, lost>>
     \/ lost' = TRUE /\ UNCHANGED <<pendingStops, counts>>
\* It said no, or the record is not there or too far back.
NoCompletion(u) ==
  /\ Checked(u)
  /\ lost' = (lost \/ ended[u].how = "capacity")
  /\ UNCHANGED <<pendingStops, counts>>
\* It could not tell: Pending::mark_unavailable keeps the failure alive, and
\* the last poll counts it as unconfirmed.
StateUnavailable(u) ==
  /\ Checked(u)
  /\ IF u \in DOMAIN pendingStops /\ Live(u)
     THEN IF watch.closing
          THEN CountStop(pendingStops[u].turn) /\ pendingStops' = Forget({u})
          ELSE /\ pendingStops' = [pendingStops EXCEPT ![u].unavailable = TRUE]
               /\ UNCHANGED counts
     ELSE UNCHANGED <<pendingStops, counts>>
  /\ UNCHANGED lost

CheckTurn(u) ==
  /\ watch.phase = "polling" /\ u \in watch.left
  /\ Completion(u) \/ NoCompletion(u) \/ StateUnavailable(u)
  /\ UNCHANGED <<labelled, turn, ended, observer>>

PollEnds ==
  /\ watch.phase = "polling" /\ watch.left = {}
  /\ watch' = [watch EXCEPT !.phase = IF watch.closing THEN "closed" ELSE "idle"]
  /\ UNCHANGED <<labelled, turn, ended, pendingStops, observer, lost, counts>>

StopsNext ==
  \/ TurnStart \/ Overload \/ OtherAnswer \/ Exhausted \/ TurnEnds
  \/ Confirm \/ Close \/ InspectStops \/ PollEnds
  \/ \E key \in DOMAIN pendingStops : Expire(key)
  \/ \E u \in Turns : CheckTurn(u)

StopsSpec == StopsInit /\ [][StopsNext]_stopsVars

---------------------------------------------------------------------------
StoppedOverloaded(u) == ended[u].how # "not" /\ ended[u].last \in {"overloaded", "exhausted"}

\* No more stops are counted than turns that Codex left on an overload, and
\* with turn ids each is counted for such a turn, and once: a turn that went
\* on after an overload, or whose stop the stream told, is not counted again.
NoStopTwice ==
  /\ MapThenSumSet(LAMBDA u : counts[u], Turns) <= Cardinality({u \in Turns : StoppedOverloaded(u)})
  /\ labelled => \A u \in Turns : counts[u] <= 1 /\ (counts[u] = 1 => StoppedOverloaded(u))

\* When the watcher of a launch has ended and nothing was lost, every turn
\* that Codex gave up for capacity was counted.
StopsCounted ==
  watch.phase = "closed" /\ labelled /\ ~lost =>
    \A u \in Turns : ended[u].how = "capacity" => counts[u] = 1

StopsIInv == StopsTypeOK /\ NoStopTwice /\ StopsCounted
=============================================================================
