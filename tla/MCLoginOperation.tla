-------------------------- MODULE MCLoginOperation --------------------------
EXTENDS LoginOperation, TLC

CONSTANTS r1, r2, h1, h2, h3

MCBoot == r1 :> h1 @@ r2 :> h2

\* The replicas are interchangeable, each with the holder it boots with.
Symmetry ==
  {p \in Permutations(Replicas \cup Holders) :
     \A r \in Replicas : p[r] \in Replicas /\ p[Boot[r]] = Boot[p[r]]}

\* Bounds: a recovered operation is followed for a machine's login (the authority is
\* read by the worker and the supervisor of the device login alone, whose receipt is
\* the first epoch), and a request reports its failure only once its worker has ended.
Followed ==
  /\ row.epoch > 1 => ~browser
  /\ poll.op.epoch > 1 => poll.pc = "report" /\ \A r \in Replicas : At(r, "idle")
=============================================================================
