------------------------- MODULE MCResetRedemption -------------------------
EXTENDS ResetRedemption, TLC

CONSTANTS a, b, wa, wb, c1, c2

MCRequests == 1..3
MCHome == (wa :> a) @@ (wb :> b)

\* A journal of an earlier release: receipts without their order, and a
\* pending batch beyond today's limit.
Unordered == [pending |-> None, completed |-> (1 :> "reset"), order |-> <<>>]
Oversized ==
  {[EmptyJournal EXCEPT !.pending = [request |-> 1, credit |-> c, joined |-> {2, 3}]] : c \in Credits}

\* Redemption alone, with journal writes for two settlements after each initial
\* journal; or two writes beside refresh, recovery and removal of the account on both
\* replicas, or one on a replica that lacks its Owner at first.
Alone(journals, versions) ==
  [refreshers |-> {}, lazy |-> {}, versions |-> versions, revisions |-> 0, journals |-> journals]
Beside(refreshers, lazy, versions) ==
  [refreshers |-> refreshers, lazy |-> lazy, versions |-> versions, revisions |-> 1,
   journals |-> {EmptyJournal}]
MCScopes ==
  {Alone({EmptyJournal} \cup Oversized, 4), Alone({Unordered}, 5), Beside({a, b}, {}, 2)}
  \cup {Beside({h}, {h}, 1) : h \in {a, b}}

\* Credits are interchangeable, and so are replicas with their workers.
Swap == (a :> b) @@ (b :> a) @@ (wa :> wb) @@ (wb :> wa)
Symmetry == Permutations(Credits) \cup {Swap @@ p : p \in Permutations(Credits)}

\* Bound: beside a refresh two requests are made, one for each worker.
Asked == scope.refreshers # {} => \A w \in Workers : work[w].req # 3
============================================================================
