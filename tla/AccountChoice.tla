--------------------------- MODULE AccountChoice ---------------------------
(***************************************************************************)
(* Which account codexctl moves to (src/commands/use_profile.rs for the    *)
(* profiles of this machine, src/central/remote.rs and loans.rs for the    *)
(* accounts of the server): the rankings, on every small set of usage      *)
(* readings, against what they promise.  Percentages and scores are the    *)
(* code's.                                                                 *)
(***************************************************************************)
EXTENDS Integers, Sequences, FiniteSets

CONSTANTS
  Reports,     \* local usage readings: see Reading below
  Entries,     \* accounts of the server's catalog
  MaxLocal, MaxCatalog   \* bounds: the accounts offered at once

VARIABLES
  offered,     \* the accounts, in the order they are listed
  chosen       \* what was asked (path, aware) and the answer

choiceVars == <<offered, chosen>>

Threshold == 95
Exhausted == 500
Forever == 1000000      \* i64::MAX, f64::MAX: unknown sorts last
Full == 100

\* A reading of the usage API: [included, reached, short, long, shortReset,
\* longReset, applicable, credits]: the plan is a known subscription, overage is
\* closed, the windows' use and resets, whether a banked reset would clear
\* anything, and when the listed ones lapse.  Unread: it could not be read, or
\* is not a known subscription.
Unread(reached) == [included |-> FALSE, reached |-> reached]

ChoiceInit == offered = <<>> /\ chosen = [path |-> "none", aware |-> FALSE, pick |-> 0]

---------------------------------------------------------------------------
LexLess(a, b) ==
  \E i \in DOMAIN a : a[i] < b[i] /\ \A j \in 1..i - 1 : a[j] = b[j]
\* The first of the least: min_by over a list.
First(S, Key(_)) ==
  IF S = {} THEN 0
  ELSE CHOOSE c \in S : \A d \in S \ {c} : LexLess(Append(Key(c), c), Append(Key(d), d))
Greatest(S) == CHOOSE x \in S : \A y \in S : y <= x
Least(S) == CHOOSE x \in S : \A y \in S : x <= y

\* RateLimit::availability_score: a used-up window puts the account past every other.
Score(short, long) ==
  IF short >= Full /\ long >= Full THEN 900
  ELSE IF long >= Full THEN 700 + short
  ELSE IF short >= Full THEN 500 + long ELSE 2 * short + long

\* recovery_class, natural_reset_ts, reset_plan.
Bills(r) == ~r.reached
Points(r) == IF r.included THEN Score(r.short, r.long) ELSE Forever
NeedsReset(r) == Points(r) >= Exhausted
Usable(r) == r.included /\ (NeedsReset(r) => r.applicable)
NaturalReset(r) ==
  Greatest((IF r.short >= Full THEN {r.shortReset} ELSE {}) \cup
           (IF r.long >= Full THEN {r.longReset} ELSE {}))
Expiry(r) == IF r.credits = {} THEN Forever ELSE Least(r.credits)
Lapses(r) == Expiry(r) # Forever /\ Expiry(r) < NaturalReset(r)

\* Mutated form: money before a reset worth keeping.
RankMoneyFirst(r) ==
  CASE ~NeedsReset(r) /\ ~Bills(r) -> 0
    [] NeedsReset(r) /\ ~Bills(r) /\ Lapses(r) -> 1
    [] ~NeedsReset(r) /\ Bills(r) -> 2
    [] NeedsReset(r) /\ ~Bills(r) /\ ~Lapses(r) -> 3
    [] NeedsReset(r) /\ Bills(r) /\ Lapses(r) -> 4
    [] OTHER -> 5

\* ScoredRecovery::rank: cheapest first.
Rank(r) ==
  CASE ~NeedsReset(r) /\ ~Bills(r) -> 0
    [] NeedsReset(r) /\ ~Bills(r) /\ Lapses(r) -> 1
    [] NeedsReset(r) /\ ~Bills(r) /\ ~Lapses(r) -> 2
    [] NeedsReset(r) /\ Bills(r) /\ Lapses(r) -> 3
    [] ~NeedsReset(r) /\ Bills(r) -> 4
    [] OTHER -> 5

Tiebreak(r) == IF NeedsReset(r) THEN Expiry(r) ELSE r.longReset
\* best_candidate_from_usages and select_recovery.
Recovery(rows, aware) ==
  First({i \in DOMAIN rows : Usable(rows[i])},
        LAMBDA i : IF aware THEN <<Rank(rows[i]), Tiebreak(rows[i]), Points(rows[i])>>
                   ELSE <<Rank(rows[i]), Points(rows[i])>>)

\* select_with_headroom: the class that cannot bill first, and inside a class
\* nobody near the threshold while another is below it.
AtThreshold(r) == r.short >= Threshold \/ r.long >= Threshold
WithHeadroom(rows, aware) ==
  LET room == {i \in DOMAIN rows : Points(rows[i]) < Exhausted}
      free == {i \in room : ~Bills(rows[i])}
      class == IF free # {} THEN free ELSE room
      below == {i \in class : ~AtThreshold(rows[i])}
  IN First(IF below # {} THEN below ELSE class,
           LAMBDA i : IF aware THEN <<rows[i].longReset, Points(rows[i])>> ELSE <<Points(rows[i])>>)

\* find_most_available_excluding: headroom, then a reset, then the least bad.
MostAvailable(rows, aware) ==
  LET first == WithHeadroom(rows, aware)
      second == Recovery(rows, aware)
      least == First(DOMAIN rows, LAMBDA i : <<IF Bills(rows[i]) THEN 1 ELSE 0, Points(rows[i])>>)
  IN IF first # 0 THEN first
     ELSE IF second # 0 THEN second
     ELSE IF Points(rows[least]) < Forever THEN least ELSE 0

ChooseLocal(rows, path, aware) ==
  /\ offered' = rows
  /\ chosen' = [path |-> path, aware |-> aware,
                pick |-> IF path = "use" THEN MostAvailable(rows, aware) ELSE Recovery(rows, aware)]

---------------------------------------------------------------------------
\* An account of the catalog: [owned, fit, used, most, live, resets]: available
\* with a fresh included reading, the windows' use, the most used of all windows
\* (Forever: not reported), its live sessions (Forever: unknown).
Near(e) == e.used # Forever /\ e.used >= Threshold
\* select_included: `codexctl use`.
Included(rows, of, aware) ==
  LET able == {i \in of : rows[i].fit /\ rows[i].used # Forever}
      below == {i \in able : ~Near(rows[i])}
      out(i) == IF rows[i].used >= Full THEN 1 ELSE 0
  IN First(IF below # {} THEN below ELSE able,
           LAMBDA i : <<out(i), IF aware /\ out(i) = 0 THEN rows[i].resets ELSE 0, rows[i].used>>)

\* select_least_loaded: a launch, or a recovery from a 429.
LeastLoaded(rows, of) ==
  First({i \in of : rows[i].fit /\ rows[i].live # Forever /\ rows[i].used < Full},
        LAMBDA i : <<rows[i].live, rows[i].used>>)

\* Mutated form: a window nobody reported has room.
RoomyUnreported(e) ==
  ~e.owned /\ e.fit /\ e.used < Threshold /\ (e.most = Forever \/ e.most < Threshold)

\* borrowed_auto_eligible: below the backoff in every window, all of them reported.
Roomy(e) == ~e.owned /\ e.fit /\ e.used < Threshold /\ e.most < Threshold

\* owned_then_borrowed.
OwnedThenBorrowed(rows, From(_)) ==
  LET own == From({i \in DOMAIN rows : rows[i].owned})
  IN IF own # 0 THEN own ELSE From({i \in DOMAIN rows : Roomy(rows[i])})

ChooseCatalog(rows, path, aware) ==
  /\ offered' = rows
  /\ chosen' = [path |-> path, aware |-> aware,
                pick |-> OwnedThenBorrowed(rows, LAMBDA of :
                           IF path = "activate" THEN Included(rows, of, aware)
                           ELSE LeastLoaded(rows, of))]

Rows(S, most) == UNION {[1..n -> S] : n \in 1..most}
ChoiceNext ==
  /\ chosen.path = "none"
  /\ \/ \E rows \in Rows(Reports, MaxLocal), path \in {"use", "recover"}, aware \in BOOLEAN :
          ChooseLocal(rows, path, aware)
     \/ \E rows \in Rows(Entries, MaxCatalog), path \in {"activate", "launch"}, aware \in BOOLEAN :
          ChooseCatalog(rows, path, aware)

ChoiceSpec == ChoiceInit /\ [][ChoiceNext]_choiceVars

---------------------------------------------------------------------------
Local == chosen.path \in {"use", "recover"} /\ chosen.pick # 0
FromServer == chosen.path \in {"activate", "launch"} /\ chosen.pick # 0
Pick == offered[chosen.pick]
FreeRoom(r) == r.included /\ ~NeedsReset(r) /\ ~Bills(r)
FreeReset(r) == r.included /\ NeedsReset(r) /\ r.applicable /\ ~Bills(r)
Some(Is(_)) == \E i \in DOMAIN offered : Is(offered[i])

\* A profile that may be billed for use, or that could not be read, is never
\* chosen, and included use that cannot bill comes before everything.
IncludedFirst == Local => Pick.included /\ (Some(FreeRoom) => FreeRoom(Pick))
\* In a recovery money is the last resort: an account that may bill is chosen
\* only when no account that cannot is usable, with or without a banked reset.
MoneyLast ==
  Local /\ chosen.path = "recover" /\ Bills(Pick) => ~Some(FreeRoom) /\ ~Some(FreeReset)
\* A reset worth keeping is never spent while one that would lapse clears an account.
ResetsKept ==
  Local /\ Usable(Pick) /\ NeedsReset(Pick) /\ ~Lapses(Pick) =>
    ~Some(LAMBDA r : FreeReset(r) /\ Lapses(r))
\* `use` moves to an account near its limit only when the whole class is.
BelowThreshold ==
  Local /\ chosen.path = "use" /\ ~NeedsReset(Pick) /\ AtThreshold(Pick) =>
    ~Some(LAMBDA r : r.included /\ ~NeedsReset(r) /\ Bills(r) = Bills(Pick) /\ ~AtThreshold(r))
\* A borrowed account is chosen only below the backoff in every window, and only
\* when no account of one's own would do.
BorrowedLast ==
  FromServer /\ ~Pick.owned =>
    /\ Pick.most < Threshold /\ Pick.used < Threshold
    /\ ~Some(LAMBDA e : e.owned /\ e.fit /\ e.used < Full /\ e.live # Forever)
\* Codex is launched, and recovers, on the least used account with room left.
RoomToLaunch ==
  FromServer /\ chosen.path = "launch" =>
    /\ Pick.used < Full
    /\ ~Some(LAMBDA e : e.owned = Pick.owned /\ e.owned /\ e.fit /\ e.used < Full /\ e.live < Pick.live)

ChoiceIInv ==
  IncludedFirst /\ MoneyLast /\ ResetsKept /\ BelowThreshold /\ BorrowedLast /\ RoomToLaunch
=============================================================================
