-------------------------- MODULE MCLocalProfiles --------------------------
EXTENDS LocalProfiles

CONSTANTS work, home, s1, s2, w1, w2, c1, c2

\* One person's seats in two workspaces.
Workspace == (s1 :> w1) @@ (s2 :> w2)
Declared == [x \in Seats \X Generations |-> [ws |-> Workspace[x[1]], uid |-> "p", sub |-> "p"]]
\* The first tokens predate the claims of the later ones.
Legacy == [x \in Seats \X Generations |->
  IF x[2] = 1 THEN [ws |-> None, uid |-> None, sub |-> "p"] ELSE Declared[x]]
World(declared, latest, deaths, entries, atonce) ==
  [claims |-> declared, generations |-> 1..latest, crashes |-> deaths, logins |-> entries,
   busy |-> atonce]
MCWorlds == {World(Declared, 2, 1, 1, 2), World(Declared, 3, 0, 2, 2), World(Legacy, 2, 0, 1, 1)}
\* A third token only of a seat both logins were of.
TwoLogins == \A s, t \in Seats : newest[s] = 3 /\ s # t => logins = 2 /\ newest[t] = 1

\* Commands are interchangeable, and so are the seats with their workspaces.
Swap == (s1 :> s2) @@ (s2 :> s1) @@ (w1 :> w2) @@ (w2 :> w1)
Symmetry == Permutations(Commands) \cup {Swap @@ p : p \in Permutations(Commands)}
MCQualified == (work :> home) @@ (home :> None)
=============================================================================
