------------------------- MODULE MCCredentialOwner -------------------------
EXTENDS CredentialOwner, TLC

MCHolders == Replicas \X (0..MaxBoots)

\* Requests with a restart each, or with background recovery and a third claim
\* (request, recovery, a rival).
Requests == [recovery |-> FALSE, epochs |-> 2, boots |-> 1]
Recovery == [recovery |-> TRUE, epochs |-> MaxEpoch, boots |-> 0]
MCScopes == {Requests, Recovery}
MCRecovery == {Recovery}
MCLiveness == {[Requests EXCEPT !.epochs = 3], Recovery}

\* Replicas are interchangeable, and so are their holder ids.
Symmetry == Permutations(Replicas)

\* Bound: one replica is cut off from the database at a time.
OneCutOff == \E h \in Replicas : reach[h]
=============================================================================
