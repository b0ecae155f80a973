------------------------------ MODULE FastPath ------------------------------
(***************************************************************************)
(* Token requests of one account at several replicas: the lease-free fast  *)
(* path (src/central/fast_path.rs), the evidence that the lease path       *)
(* leaves for it, and the wait of a request that loses the lease           *)
(* (src/central/managed/owner_request.rs).  What the credential owner does *)
(* under the lease is CredentialOwner.                                     *)
(***************************************************************************)
EXTENDS Integers, FiniteSets

CONSTANTS
  Replicas, Requests,
  Free,       \* who has a lock or a lease that nobody has
  MaxAge,     \* EVIDENCE_MAX_AGE
  Wait,       \* LEASE_WAIT
  Delay,      \* how long the three attempts of a publication may take
  LastTime,   \* bound: the clock
  Traffic     \* bounds of a behaviour: what each request asks and where (asks), and how
              \* often tokens rotate and run out, leases expire, clears fail, the provider
              \* and the row change

VARIABLES
  now,
  row,        \* central_accounts: rev (the credential's), state, expiring
  evidence,   \* central_token_evidence, or none: of, routed, billed, high; tainted (history)
  lease,      \* its holder
  owner,      \* replica -> by (who has its lock), open, rev
  req,        \* the requests
  provider,   \* routing, high; and when the committed credential last was routed, and the
              \* use last low (history)
  bounds      \* what is left of Traffic

fastVars == <<now, row, evidence, lease, owner, req, provider, bounds>>

Never == -1
LongAgo == -(MaxAge + Delay) - 1
NoEvidence == [of |-> 0, routed |-> Never, billed |-> Never, high |-> FALSE, tainted |-> FALSE]
NoRead == [from |-> Never, age |-> 0, rev |-> 0, high |-> FALSE, tainted |-> FALSE]
NoAnswer == [how |-> "none", rev |-> 0, routed |-> 0, low |-> 0]
NoRequest ==
  [pc |-> "probe", busy |-> FALSE, lost |-> 0, due |-> Never, read |-> NoRead, got |-> NoAnswer]

FastInit ==
  /\ now = 0 /\ lease = Free
  /\ row = [rev |-> 1, state |-> "live", expiring |-> FALSE]
  /\ evidence = NoEvidence
  /\ owner = [r \in Replicas |-> [by |-> Free, open |-> TRUE, rev |-> 1]]
  /\ req = [q \in Requests |-> NoRequest]
  /\ provider = [routing |-> TRUE, high |-> FALSE, routed |-> 0, low |-> 0]
  /\ bounds \in Traffic

---------------------------------------------------------------------------
At(q) == bounds.asks[q].at
Locked(q) == owner[At(q)].by = q
Fresh(time) == time # Never /\ now - time <= MaxAge

\* decide, observed: what the committed row and its evidence allow.
\* Mutated form: the evidence may be of another revision.
OfAny(r) == evidence.of > 0
OfRow(r) == evidence.of = row.rev
Observed(q) ==
  /\ OfRow(row) /\ Fresh(evidence.routed)
  /\ bounds.asks[q].billing => Fresh(evidence.billed) /\ ~evidence.high
\* fast_token. A busy owner hides its fence; under its lock the request sees it.
Servable(q) ==
  /\ row.state = "live" /\ owner[At(q)].open
  /\ ~row.expiring /\ bounds.asks[q].previous # row.rev /\ Observed(q)

Answer(how) ==
  [how |-> how, rev |-> row.rev, routed |-> now - provider.routed, low |-> now - provider.low]
Ended(q, got) == [NoRequest EXCEPT !.pc = "ended", !.got = got, !.lost = req[q].lost]
Refused(q) == Ended(q, [NoAnswer EXCEPT !.how = "refused"])
Unlocked(r) == [owner EXCEPT ![r].by = Free]

Probe(q) ==
  /\ req[q].pc = "probe"
  /\ req' = [req EXCEPT ![q] =
       IF row.state = "removed" THEN Refused(q)
       ELSE IF owner[At(q)].by # Free /\ row.state = "live"
       THEN [@ EXCEPT !.pc = "lock", !.busy = TRUE]
       ELSE IF Servable(q) THEN Ended(q, Answer("fast"))
       ELSE [@ EXCEPT !.pc = "lock"]]
  /\ UNCHANGED <<now, row, evidence, lease, owner, provider, bounds>>

\* Under the owner's lock: reconcile_owner_from_central, the local fence, and for a
\* request that found the owner busy the fast path once more.
Lock(q) ==
  /\ req[q].pc = "lock" /\ owner[At(q)].by = Free
  /\ IF row.state = "removed" \/ ~owner[At(q)].open
     THEN req' = [req EXCEPT ![q] = Refused(q)] /\ UNCHANGED owner
     ELSE IF req[q].busy /\ Servable(q)
     THEN /\ req' = [req EXCEPT ![q] = Ended(q, Answer("fast"))]
          /\ owner' = [owner EXCEPT ![At(q)].rev = row.rev]
     ELSE /\ req' = [req EXCEPT ![q].pc = "claim", ![q].busy = FALSE]
          /\ owner' = [owner EXCEPT ![At(q)].by = q, ![At(q)].rev = row.rev]
  /\ UNCHANGED <<now, row, evidence, lease, provider, bounds>>

\* acquire_lease. A loser drops its lock and waits, once for all its rounds.
Elsewhere(q) == lease \notin {Free, At(q)}
Claim(q) ==
  /\ req[q].pc = "claim"
  /\ IF row.state = "removed"
     THEN req' = [req EXCEPT ![q] = Refused(q)] /\ owner' = Unlocked(At(q)) /\ UNCHANGED lease
     ELSE IF Elsewhere(q)
     THEN /\ req' = [req EXCEPT ![q].pc = "wait", ![q].lost = owner[At(q)].rev,
                                ![q].due = IF @ = Never THEN now + Wait ELSE @]
          /\ owner' = Unlocked(At(q)) /\ UNCHANGED lease
     ELSE /\ lease' = At(q)
          /\ owner' = [owner EXCEPT ![At(q)].rev = row.rev]
          /\ req' = [req EXCEPT ![q].pc = "read", ![q].read = [NoRead EXCEPT !.from = now]]
  /\ UNCHANGED <<now, row, evidence, provider, bounds>>

\* wait_for_holder: what one poll sees.
Poll(q) ==
  /\ req[q].pc = "wait"
  /\ \/ row.state = "removed" /\ req' = [req EXCEPT ![q] = Refused(q)]
     \/ row.state # "removed" /\ row.rev # req[q].lost /\ req' = [req EXCEPT ![q].pc = "probe"]
     \/ row.state # "removed" /\ row.rev = req[q].lost /\ ~Elsewhere(q)
          /\ req' = [req EXCEPT ![q].pc = "lock"]
     \/ now >= req[q].due /\ req' = [req EXCEPT ![q] = Refused(q)]
  /\ UNCHANGED <<now, row, evidence, lease, owner, provider, bounds>>

---------------------------------------------------------------------------
\* The native read ends. A good one has seen the routing of the credential it leaves,
\* which it may have rotated; its age is taken once, before the attempts to write it.
ReadOk(q, rev) ==
  /\ req[q].pc = "read" /\ provider.routed >= req[q].read.from
  /\ rev = owner[At(q)].rev \/ (rev = row.rev + 1 /\ bounds.rotations > 0)
  /\ bounds' = [bounds EXCEPT !.rotations = @ - (IF rev = owner[At(q)].rev THEN 0 ELSE 1)]
  /\ req' = [req EXCEPT ![q].pc = "publish",
       ![q].read = [@ EXCEPT !.age = now - req[q].read.from, !.rev = rev, !.from = now,
                             !.high = provider.low < req[q].read.from]]
  /\ UNCHANGED <<now, row, evidence, lease, owner, provider>>

\* A read that failed withdraws the evidence and fences the local owner; three attempts
\* at the withdrawal may fail.
ReadFails(q) ==
  /\ req[q].pc = "read"
  /\ \/ /\ evidence' = NoEvidence /\ UNCHANGED bounds
        /\ req' = [x \in Requests |->
             IF x = q THEN Refused(q)
             ELSE IF lease = At(q) /\ req[x].pc \in {"read", "publish"}
                  THEN [req[x] EXCEPT !.read.tainted = TRUE]
             ELSE req[x]]
     \/ /\ bounds.clears > 0 /\ bounds' = [bounds EXCEPT !.clears = @ - 1]
        /\ req' = [req EXCEPT ![q] = Refused(q)] /\ UNCHANGED evidence
  /\ owner' = [owner EXCEPT ![At(q)].by = Free, ![At(q)].open = FALSE]
  /\ lease' = IF lease = At(q) THEN Free ELSE lease
  /\ UNCHANGED <<now, row, provider>>

\* fenced_write_observed: the credential and its evidence, if the lease is still held.
\* Mutated form: the evidence is written without the lease.
HeldOnce(q) == TRUE
Holds(q) == lease = At(q)
\* record_observation: a billing-free one keeps the billing of the same revision.
Observation(q) ==
  LET read == req[q].read
      keep == evidence.of = read.rev /\ ~bounds.asks[q].billing
  IN [of |-> read.rev, routed |-> now - read.age, tainted |-> read.tainted,
      billed |-> IF keep THEN evidence.billed
                 ELSE IF bounds.asks[q].billing THEN now - read.age ELSE Never,
      high |-> IF keep THEN evidence.high ELSE bounds.asks[q].billing /\ read.high]
Publish(q) ==
  /\ req[q].pc = "publish"
  /\ IF Holds(q) /\ row.state # "removed" /\ req[q].read.rev >= row.rev
     THEN /\ row' = [row EXCEPT !.rev = req[q].read.rev,
                                !.expiring = @ /\ req[q].read.rev = row.rev]
          /\ evidence' = Observation(q)
          /\ owner' = [owner EXCEPT ![At(q)].by = Free, ![At(q)].rev = req[q].read.rev]
          /\ req' = [req EXCEPT ![q] =
               Ended(q, [Answer("lease") EXCEPT !.rev = req[q].read.rev])]
     ELSE /\ req' = [req EXCEPT ![q] = Refused(q)]
          /\ owner' = [owner EXCEPT ![At(q)].by = Free, ![At(q)].open = FALSE]
          /\ UNCHANGED <<row, evidence>>
  /\ lease' = IF lease = At(q) THEN Free ELSE lease
  /\ UNCHANGED <<now, provider, bounds>>

---------------------------------------------------------------------------
\* The background recovery reopens an owner; the read it makes for that may rotate the
\* credential, which it commits without evidence: nothing says the new one is routed.
Recover(r) ==
  /\ ~owner[r].open /\ owner[r].by = Free /\ provider.routing /\ lease \in {Free, r}
  /\ row.state # "removed"
  /\ \/ /\ owner' = [owner EXCEPT ![r].open = TRUE, ![r].rev = row.rev]
        /\ UNCHANGED <<row, provider, bounds>>
     \/ /\ bounds.rotations > 0 /\ bounds' = [bounds EXCEPT !.rotations = @ - 1]
        /\ owner' = [owner EXCEPT ![r].open = TRUE, ![r].rev = row.rev + 1]
        /\ row' = [row EXCEPT !.rev = @ + 1, !.expiring = FALSE]
        /\ provider' = [provider EXCEPT !.routing = FALSE, !.routed = LongAgo]
  /\ UNCHANGED <<now, evidence, lease, req>>

\* The lease runs out under its holder.
LeaseExpires ==
  /\ lease # Free /\ bounds.expiries > 0
  /\ lease' = Free
  /\ bounds' = [bounds EXCEPT !.expiries = @ - 1]
  /\ UNCHANGED <<now, row, evidence, owner, req, provider>>

\* The account's routing, its use, the token's life, a login journal and a removal.
Change ==
  /\ bounds.changes > 0
  /\ bounds' = [bounds EXCEPT !.changes = @ - 1]
  /\ \/ /\ \E kind \in {"routing", "high"} : provider' = [provider EXCEPT ![kind] = ~@]
        /\ UNCHANGED row
     \/ /\ row.state = "live"
        /\ \/ row' = [row EXCEPT !.expiring = TRUE]
           \/ \E s \in {"removed", "login"} : row' = [row EXCEPT !.state = s]
        /\ UNCHANGED provider
  /\ UNCHANGED <<now, evidence, lease, owner, req>>

\* Time passes; a publication takes its Delay at most, and a poll its turn.
Tick ==
  /\ now < LastTime
  /\ \A q \in Requests :
       /\ req[q].pc = "publish" => now < req[q].read.from + Delay
       /\ req[q].pc = "wait" => now < req[q].due
  /\ now' = now + 1
  /\ provider' = [provider EXCEPT !.routed = IF provider.routing THEN now + 1 ELSE @,
                                  !.low = IF ~provider.high THEN now + 1 ELSE @]
  /\ UNCHANGED <<row, evidence, lease, owner, req, bounds>>

FastNext ==
  \/ \E q \in Requests :
       \/ Probe(q) \/ Lock(q) \/ Claim(q) \/ Poll(q) \/ ReadFails(q) \/ Publish(q)
       \/ \E rev \in {row.rev + 1, owner[At(q)].rev} : ReadOk(q, rev)
  \/ \E r \in Replicas : Recover(r)
  \/ LeaseExpires \/ Change \/ Tick

FastSpec == FastInit /\ [][FastNext]_fastVars

---------------------------------------------------------------------------
FastTypeOK ==
  /\ lease \in Replicas \cup {Free}
  /\ \A r \in Replicas : owner[r].by \in Requests \cup {Free}
  /\ evidence.of <= row.rev

Served(q) == req[q].got.how \in {"fast", "lease"}
ServedFast(q) == req[q].got.how = "fast"

\* What a token served without a lease claims was so at most MaxAge, and the time of one
\* publication, ago: this very credential was routed, and had headroom if the client pays
\* for use.
FastTrue ==
  \A q \in Requests : ServedFast(q) =>
    /\ req[q].got.routed <= MaxAge + Delay
    /\ bounds.asks[q].billing => req[q].got.low <= MaxAge + Delay

\* The evidence is never of a read that began before a withdrawal by the lease's holder.
WithdrawnForGood == ~evidence.tainted

\* A request that waited for a holder's commit is answered with a credential no older
\* than the one it lost on, and never with the one its client had rejected.
AnswerCurrent ==
  \A q \in Requests :
    /\ Served(q) => req[q].got.rev >= req[q].lost
    /\ ServedFast(q) => req[q].got.rev # bounds.asks[q].previous

\* Every holder of the lease or of an owner's lock is a request that still works: none is
\* left behind for others to wait on.
NothingLeft ==
  \A r \in Replicas : owner[r].by # Free =>
    req[owner[r].by].pc \in {"claim", "read", "publish"} /\ At(owner[r].by) = r

FastIInv == FastTypeOK /\ FastTrue /\ WithdrawnForGood /\ AnswerCurrent /\ NothingLeft
=============================================================================
