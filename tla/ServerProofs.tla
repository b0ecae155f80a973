---------------------------- MODULE ServerProofs ----------------------------
(***************************************************************************)
(* Theorems about four of the account server's components, for every value *)
(* of their constants.                                                     *)
(*                                                                         *)
(* FastPath, for any replicas and requests, any ages and delays and any    *)
(* course of events: FastInductive is inductive.  A token that is handed   *)
(* out without the lease is of the committed revision and was recently     *)
(* seen to be routed because what a read finds under its lease is about    *)
(* the revision it commits, and the evidence it leaves is never of a later *)
(* moment than the read (Knows, Evident).                                  *)
(*                                                                         *)
(* IdentityAdmission, for every set of accounts, logins and operations and *)
(* every bound: AdmissionIInv is inductive: two accounts of one login are  *)
(* kept apart because the claims of every live account are in the ledger,  *)
(* and a check refuses what it cannot tell apart.                          *)
(*                                                                         *)
(* Migration, for any source tables, any number of migrators and any batch *)
(* size: what a migrator has read of a position is the position until      *)
(* somebody commits at it (Informed), so that the rows it adds are the     *)
(* next ones (PageExact) and the cursor counts every row once (Positioned).*)
(*                                                                         *)
(* Backfill, for any rows on either side: what a run has read back stays   *)
(* as it was until the run is over (SameRows), and what it has checked on  *)
(* its way stays so (Checked).                                             *)
(***************************************************************************)
EXTENDS FastPath, IdentityAdmission, Migration, Backfill, FiniteSetTheorems, WellFoundedInduction,
  TLAPS

---------------------------------------------------------------------------
(* FastPath. *)

\* What a behaviour may be given: any requests at any replicas, and any number of events.
Meetings ==
  [asks : [Requests -> [at : Replicas, billing : BOOLEAN, previous : Int]],
   rotations : Int, expiries : Int, clears : Int, changes : Int]

\* Free is no one's name, the spans are numbers, and Traffic bounds behaviours.
Measured ==
  /\ Free \notin Replicas \cup Requests
  /\ MaxAge \in Nat /\ Wait \in Nat /\ Delay \in Nat
  /\ Traffic \subseteq Meetings

Reads == [from : Int, age : Int, rev : Nat, high : BOOLEAN, tainted : BOOLEAN]
Answers == [how : {"none", "refused", "fast", "lease"}, rev : Nat, routed : Int, low : Int]
Asking ==
  [pc : {"probe", "lock", "claim", "wait", "read", "publish", "ended"}, busy : BOOLEAN,
   lost : Nat, due : Int, read : Reads, got : Answers]

Owners == [by : Requests \cup {Free}, open : BOOLEAN, rev : Nat]

\* The invariant of FastPath, part by part.
FastTypes ==
  /\ now \in Nat
  /\ row \in [rev : Nat \ {0}, state : {"live", "login", "removed"}, expiring : BOOLEAN]
  /\ evidence \in [of : Nat, routed : Int, billed : Int, high : BOOLEAN, tainted : BOOLEAN]
  /\ lease \in Replicas \cup {Free}
  /\ owner \in [Replicas -> Owners]
  /\ req \in [Requests -> Asking]
  /\ provider \in [routing : BOOLEAN, high : BOOLEAN, routed : Int, low : Int]
  /\ bounds \in Meetings

Working(q) == req[q].pc \in {"claim", "read", "publish"}
Reading(q) == req[q].pc \in {"read", "publish"}

\* A request works under the lock of its owner, which nobody else has, and the lease is
\* with a request that reads under it.
Locks ==
  /\ \A q \in Requests : Working(q) => owner[At(q)].by = q
  /\ NothingLeft
  /\ lease # Free => owner[lease].by # Free /\ Reading(owner[lease].by)

\* Nobody is ahead of the row, nor the provider of the clock.
Behind ==
  /\ evidence.of <= row.rev
  /\ \A r \in Replicas : owner[r].rev <= row.rev
  /\ \A q \in Requests : req[q].lost <= row.rev
  /\ provider.routed <= now /\ provider.low <= now

\* What a read knows: when it began; and, as long as its replica has the lease, that it is
\* not tainted and that the credential was routed, and its use as low as it says, since.
Knows(q) ==
  LET read == req[q].read
  IN  /\ Reading(q) => read.from \in 0..now
      /\ req[q].pc = "publish" => now <= read.from + Delay
      /\ Reading(q) /\ lease = At(q) => ~read.tainted
      /\ req[q].pc = "publish" /\ lease = At(q) =>
           /\ provider.routed >= read.from - read.age
           /\ ~read.high => provider.low >= read.from - read.age

\* Evidence of the committed credential is late by one publication at most.
Evident ==
  evidence.of = row.rev =>
    /\ provider.routed >= evidence.routed - Delay
    /\ evidence.billed # Never /\ ~evidence.high => provider.low >= evidence.billed - Delay

\* Only a request that ended has an answer.
Unanswered == \A q \in Requests : req[q].pc # "ended" => req[q].got.how = "none"

Told == Unanswered /\ FastTrue /\ AnswerCurrent
FastInductive ==
  /\ FastTypes /\ Locks /\ Behind /\ \A q \in Requests : Knows(q)
  /\ Evident /\ WithdrawnForGood /\ Told

---------------------------------------------------------------------------
\* Each request is a record of these fields, at a replica.
LEMMA RequestIs ==
  ASSUME FastTypes, NEW q \in Requests
  PROVE  /\ req[q] \in Asking /\ req[q].read \in Reads /\ req[q].got \in Answers
         /\ At(q) \in Replicas
         /\ bounds.asks[q] \in [at : Replicas, billing : BOOLEAN, previous : Int]
  BY DEF FastTypes, Asking, At, Meetings

\* What is said to a request when it is answered is so.
Truthful(q, got, lost) ==
  /\ got.how \in {"fast", "lease"} => got.rev >= lost
  /\ got.how = "fast" =>
       /\ got.rev # bounds.asks[q].previous
       /\ got.routed <= MaxAge + Delay
       /\ bounds.asks[q].billing => got.low <= MaxAge + Delay

\* Other requests' answers stay; this one's is truthful.
LEMMA ToldKept ==
  ASSUME FastTypes, Told, NEW q \in Requests, bounds'.asks = bounds.asks,
         \A x \in Requests \ {q} :
           req'[x].pc = req[x].pc /\ req'[x].lost = req[x].lost /\ req'[x].got = req[x].got,
         req'[q].pc # "ended" => req'[q].got.how = "none",
         Truthful(q, req'[q].got, req'[q].lost)
  PROVE  Told'
<1>1. Unanswered'
  BY DEF Told, Unanswered
<1>2. FastTrue'
  BY DEF Told, FastTrue, ServedFast, Truthful
<1>3. AnswerCurrent'
  BY DEF Told, AnswerCurrent, Served, ServedFast, Truthful
<1> QED
  BY <1>1, <1>2, <1>3 DEF Told

\* A request that does not move knows what it knew, unless its replica gets the lease.
LEMMA KnowsKept ==
  ASSUME FastTypes, NEW x \in Requests, Knows(x), bounds'.asks = bounds.asks,
         req'[x] = req[x], now' = now,
         Reading(x) /\ lease' = At(x) =>
           /\ lease = At(x) /\ provider'.routed \in Int /\ provider'.low \in Int
           /\ provider'.routed >= provider.routed /\ provider'.low >= provider.low
  PROVE  Knows(x)'
<1>1. At(x)' = At(x) /\ Reading(x)' = Reading(x)
  BY DEF At, Reading
<1>2. /\ req[x].read.from \in Int /\ req[x].read.age \in Int /\ provider.routed \in Int
      /\ provider.low \in Int
  BY RequestIs DEF FastTypes, Reads
<1>3. /\ Reading(x)' => req'[x].read.from \in 0..now'
      /\ req'[x].pc = "publish" => now' <= req'[x].read.from + Delay
  BY <1>1 DEF Knows
<1>4. Reading(x)' /\ lease' = At(x)' => ~req'[x].read.tainted
  BY <1>1 DEF Knows
<1>5. ASSUME req'[x].pc = "publish", lease' = At(x)'
      PROVE  /\ provider'.routed >= req'[x].read.from - req'[x].read.age
             /\ ~req'[x].read.high => provider'.low >= req'[x].read.from - req'[x].read.age
  <2>1. /\ lease = At(x) /\ req[x].pc = "publish"
        /\ provider'.routed \in Int /\ provider'.low \in Int
        /\ provider'.routed >= provider.routed /\ provider'.low >= provider.low
    BY <1>5, <1>1 DEF Reading
  <2>2. /\ provider.routed >= req[x].read.from - req[x].read.age
        /\ ~req[x].read.high => provider.low >= req[x].read.from - req[x].read.age
    BY <2>1 DEF Knows
  <2> QED
    BY <2>1, <2>2, <1>2
<1> QED
  BY <1>3, <1>4, <1>5 DEF Knows

\* One request takes or keeps the lock of its owner, or lets go of what it had; the lease
\* goes to nobody or to it.
LEMMA LocksKept ==
  ASSUME Measured, FastTypes, Locks, NEW q \in Requests, bounds'.asks = bounds.asks,
         \A x \in Requests \ {q} : req'[x].pc = req[x].pc,
         \A r \in Replicas \ {At(q)} : owner'[r].by = owner[r].by,
         Working(q)' => owner[At(q)].by \in {q, Free} /\ owner'[At(q)].by = q,
         ~Working(q)' =>
           owner'[At(q)].by = IF Working(q) THEN Free ELSE owner[At(q)].by,
         lease' = lease \/ lease' = Free \/ (lease' = At(q) /\ Reading(q)'),
         Working(q) /\ lease' = At(q) => Reading(q)'
  PROVE  Locks'
<1>1. /\ \A x \in Requests : At(x)' = At(x) /\ At(x) \in Replicas
      /\ \A x \in Requests \ {q} : Working(x)' = Working(x) /\ Reading(x)' = Reading(x)
      /\ \A x \in Requests : Reading(x) => Working(x)
      /\ \A x \in Requests : Working(x) => owner[At(x)].by = x
      /\ \A x \in Requests : x # Free
      /\ \A r \in Replicas : owner[r].by \in Requests \cup {Free}
      /\ \A r \in Replicas : owner[r].by # Free => Working(owner[r].by) /\ At(owner[r].by) = r
  BY RequestIs DEF At, Working, Reading, Locks, NothingLeft, Measured, FastTypes, Owners
<1>2. \A x \in Requests : Working(x)' => owner'[At(x)'].by = x
  <2> SUFFICES ASSUME NEW x \in Requests, Working(x)' PROVE owner'[At(x)].by = x
    BY <1>1
  <2>1. CASE x = q
    BY <2>1
  <2>2. CASE x # q /\ At(x) # At(q)
    BY <2>2, <1>1
  <2>3. CASE x # q /\ At(x) = At(q)
    <3>1. owner[At(q)].by = x /\ x # Free
      BY <2>3, <1>1
    <3>2. ~Working(q)' /\ ~Working(q)
      BY <2>3, <3>1, <1>1
    <3> QED
      BY <2>3, <3>1, <3>2
  <2> QED
    BY <2>1, <2>2, <2>3
<1>3. ASSUME NEW r \in Replicas, owner'[r].by # Free
      PROVE  \E y \in Requests : owner'[r].by = y /\ Working(y)' /\ At(y) = r
  <2>1. CASE owner'[r].by = q
    <3>1. r = At(q)
      BY <2>1, <1>1
    <3> QED
      BY <2>1, <3>1, <1>1
  <2>2. CASE owner'[r].by # q
    <3>1. owner'[r].by = owner[r].by
      BY <1>3, <2>2, <1>1
    <3> QED
      BY <1>3, <2>2, <3>1, <1>1
  <2> QED
    BY <2>1, <2>2
<1>4. NothingLeft'
  BY <1>1, <1>3 DEF NothingLeft, Working
<1>5. (lease # Free => owner[lease].by # Free /\ Reading(owner[lease].by))'
  <2> SUFFICES ASSUME lease' # Free
               PROVE  \E y \in Requests : owner'[lease'].by = y /\ Reading(y)'
    BY <1>1 DEF Reading
  <2>1. CASE Reading(q)' /\ lease' = At(q)
    BY <2>1, <1>1 DEF Working, Reading
  <2>2. CASE lease' = lease /\ ~(Reading(q)' /\ lease' = At(q))
    <3>1. lease \in Replicas /\ owner[lease].by \in Requests
      BY <2>2, <1>1 DEF FastTypes, Locks
    <3>2. PICK y \in Requests : y = owner[lease].by /\ Reading(y) /\ At(y) = lease
      BY <2>2, <3>1, <1>1 DEF Locks
    <3>3. y # q
      BY <2>2, <3>2, <1>1
    <3>4. owner'[lease].by = y
      BY <3>1, <3>2, <3>3, <1>1
    <3> QED
      BY <2>2, <3>2, <3>3, <3>4, <1>1
  <2> QED
    BY <2>1, <2>2
<1> QED
  BY <1>2, <1>4, <1>5 DEF Locks

\* A step of one request that leaves the row, its evidence and the provider alone.
LEMMA Acts ==
  ASSUME Measured, FastInductive, NEW q \in Requests, NEW k \in Asking,
         req' = [req EXCEPT ![q] = k],
         UNCHANGED <<now, row, evidence, provider>>,
         bounds' \in Meetings, bounds'.asks = bounds.asks,
         owner' \in [Replicas -> Owners], \A r \in Replicas : owner'[r].rev <= row.rev,
         lease' = lease \/ lease' = Free \/ (lease' = At(q) /\ Working(q)),
         Locks', Knows(q)', k.lost <= row.rev,
         k.pc # "ended" => k.got.how = "none", Truthful(q, k.got, k.lost)
  PROVE  FastInductive'
<1>0. /\ FastTypes /\ Locks /\ Behind /\ Evident /\ WithdrawnForGood /\ Told
      /\ \A x \in Requests : Knows(x)
  BY DEF FastInductive
<1>1. req'[q] = k /\ \A x \in Requests \ {q} : req'[x] = req[x]
  BY <1>0 DEF FastTypes
<1>2. FastTypes'
  <2>1. req' \in [Requests -> Asking]
    BY <1>0 DEF FastTypes
  <2>2. lease' \in Replicas \cup {Free}
    BY <1>0, RequestIs DEF FastTypes
  <2> QED
    BY <1>0, <2>1, <2>2 DEF FastTypes
<1>3. Behind'
  BY <1>0, <1>1 DEF Behind
<1>4. \A x \in Requests : Knows(x)'
  <2> SUFFICES ASSUME NEW x \in Requests, x # q PROVE Knows(x)'
    OBVIOUS
  <2>1. ASSUME Reading(x), lease' = At(x) PROVE lease = At(x)
    <3>1. At(x) # Free
      BY <1>0, RequestIs DEF Measured
    <3>2. ~(Working(q) /\ At(x) = At(q))
      BY <1>0, <2>1 DEF Locks, Working, Reading
    <3> QED
      BY <2>1, <3>1, <3>2
  <2>2. provider.routed \in Int /\ provider.low \in Int
    BY <1>0 DEF FastTypes
  <2> QED
    BY <1>0, <1>1, <2>1, <2>2, KnowsKept
<1>5. Evident' /\ WithdrawnForGood'
  BY <1>0 DEF Evident, WithdrawnForGood
<1>6. Told'
  BY <1>0, <1>1, ToldKept
<1> QED
  BY <1>2, <1>3, <1>4, <1>5, <1>6 DEF FastInductive

\* An answer ends its request, and a refusal is one.
LEMMA EndedIs ==
  ASSUME FastTypes, NEW q \in Requests, NEW got \in Answers
  PROVE  /\ Ended(q, got) \in Asking
         /\ Ended(q, got).pc = "ended" /\ Ended(q, got).got = got
         /\ Ended(q, got).lost = req[q].lost
<1>1. req[q].lost \in Nat
  BY RequestIs DEF Asking
<1>2. NoRead \in Reads /\ NoAnswer \in Answers
  BY DEF NoRead, NoAnswer, Never, Reads, Answers
<1>3. NoRequest \in Asking
  BY <1>2 DEF NoRequest, Never, Asking
<1> QED
  BY <1>1, <1>3 DEF Ended, Asking

LEMMA RefusedIs ==
  ASSUME FastTypes, NEW q \in Requests
  PROVE  /\ Refused(q) \in Asking /\ Refused(q).pc = "ended"
         /\ Refused(q).lost = req[q].lost /\ Refused(q).got.how = "refused"
<1>1. [NoAnswer EXCEPT !.how = "refused"] \in Answers
  BY DEF NoAnswer, Answers
<1>2. [NoAnswer EXCEPT !.how = "refused"].how = "refused"
  BY DEF NoAnswer
<1> QED
  BY <1>1, <1>2, EndedIs DEF Refused

\* The committed row as an answer.
LEMMA AnswerIs ==
  ASSUME FastTypes, NEW how \in {"fast", "lease"}
  PROVE  /\ Answer(how) \in Answers /\ Answer(how).how = how /\ Answer(how).rev = row.rev
         /\ Answer(how).routed = now - provider.routed /\ Answer(how).low = now - provider.low
  BY DEF Answer, Answers, FastTypes

\* What is served without the lease was so not long ago.
LEMMA ServableTruthful ==
  ASSUME Measured, FastInductive, NEW q \in Requests, Servable(q)
  PROVE  Truthful(q, Answer("fast"), req[q].lost)
<1>1. /\ FastTypes /\ req[q].lost <= row.rev
      /\ provider.routed >= evidence.routed - Delay /\ now - evidence.routed <= MaxAge
      /\ row.rev # bounds.asks[q].previous
  BY DEF FastInductive, Behind, Evident, Servable, Observed, OfRow, Fresh
<1>2. bounds.asks[q].billing =>
        provider.low >= evidence.billed - Delay /\ now - evidence.billed <= MaxAge
  BY DEF FastInductive, Evident, Servable, Observed, OfRow, Fresh
<1>3. /\ now \in Int /\ provider.routed \in Int /\ provider.low \in Int /\ evidence.routed \in Int
      /\ evidence.billed \in Int /\ MaxAge \in Int /\ Delay \in Int /\ row.rev \in Int
      /\ req[q].lost \in Int
  BY <1>1, RequestIs DEF FastTypes, Measured, Asking
<1>4. now - provider.routed <= MaxAge + Delay
  BY <1>1, <1>3
<1>5. bounds.asks[q].billing => now - provider.low <= MaxAge + Delay
  BY <1>2, <1>3
<1>6. row.rev >= req[q].lost
  BY <1>1, <1>3
<1> QED
  BY <1>1, <1>4, <1>5, <1>6, AnswerIs DEF Truthful

---------------------------------------------------------------------------
\* One lemma per action.
LEMMA ProbeKeeps ==
  ASSUME Measured, FastInductive, NEW q \in Requests, Probe(q) PROVE FastInductive'
<1>1. FastTypes /\ Locks /\ Behind /\ Told /\ Knows(q) /\ req[q].pc = "probe" /\ req[q] \in Asking
  BY RequestIs DEF FastInductive, Probe
<1> DEFINE k == IF row.state = "removed" THEN Refused(q)
                ELSE IF owner[At(q)].by # Free /\ row.state = "live"
                THEN [req[q] EXCEPT !.pc = "lock", !.busy = TRUE]
                ELSE IF Servable(q) THEN Ended(q, Answer("fast"))
                ELSE [req[q] EXCEPT !.pc = "lock"]
<1>2. req' = [req EXCEPT ![q] = k] /\ UNCHANGED <<now, row, evidence, lease, owner, provider, bounds>>
  BY DEF Probe
<1>3. /\ k \in Asking /\ k.pc \in {"lock", "ended"} /\ k.lost = req[q].lost
      /\ k.pc # "ended" => k.got = req[q].got
      /\ Truthful(q, k.got, k.lost)
  <2>1. CASE row.state = "removed"
    BY <2>1, <1>1, RefusedIs DEF Truthful
  <2>2. CASE row.state # "removed" /\ owner[At(q)].by # Free /\ row.state = "live"
    BY <2>2, <1>1 DEF Asking, Truthful, Told, Unanswered
  <2>3. CASE /\ row.state # "removed" /\ ~(owner[At(q)].by # Free /\ row.state = "live")
             /\ Servable(q)
    BY <2>3, <1>1, AnswerIs, EndedIs, ServableTruthful
  <2>4. CASE /\ row.state # "removed" /\ ~(owner[At(q)].by # Free /\ row.state = "live")
             /\ ~Servable(q)
    BY <2>4, <1>1 DEF Asking, Truthful, Told, Unanswered
  <2> QED
    BY <2>1, <2>2, <2>3, <2>4
<1> HIDE DEF k
<1>4. req'[q] = k /\ \A x \in Requests \ {q} : req'[x] = req[x]
  BY <1>1, <1>2 DEF FastTypes
<1>5. Knows(q)'
  BY <1>2, <1>3, <1>4 DEF Knows, Reading
<1>6. Locks'
  <2>1. ~Working(q)' /\ ~Working(q)
    BY <1>1, <1>3, <1>4 DEF Working
  <2> QED
    BY <1>1, <1>2, <1>4, <2>1, LocksKept
<1>7. k.lost <= row.rev /\ (k.pc # "ended" => k.got.how = "none")
  BY <1>1, <1>3 DEF Behind, Told, Unanswered
<1>8. bounds \in Meetings /\ owner \in [Replicas -> Owners] /\ \A r \in Replicas : owner[r].rev <= row.rev
  BY <1>1 DEF FastTypes, Behind
<1> QED
  BY <1>2, <1>3, <1>5, <1>6, <1>7, <1>8, Acts

LEMMA LockKeeps ==
  ASSUME Measured, FastInductive, NEW q \in Requests, Lock(q) PROVE FastInductive'
<1>1. /\ FastTypes /\ Locks /\ Behind /\ Told /\ Knows(q) /\ req[q].pc = "lock" /\ req[q] \in Asking
      /\ owner[At(q)].by = Free /\ At(q) \in Replicas
      /\ UNCHANGED <<now, row, evidence, lease, provider, bounds>>
  BY RequestIs DEF FastInductive, Lock
<1> DEFINE k == IF row.state = "removed" \/ ~owner[At(q)].open THEN Refused(q)
                ELSE IF req[q].busy /\ Servable(q) THEN Ended(q, Answer("fast"))
                ELSE [req[q] EXCEPT !.pc = "claim", !.busy = FALSE]
<1>2. /\ req' = [req EXCEPT ![q] = k]
      /\ \/ owner' = owner /\ k.pc = "ended"
         \/ owner' = [owner EXCEPT ![At(q)].rev = row.rev] /\ k.pc = "ended"
         \/ owner' = [owner EXCEPT ![At(q)].by = q, ![At(q)].rev = row.rev] /\ k.pc = "claim"
  <2>1. CASE row.state = "removed" \/ ~owner[At(q)].open
    BY <2>1, <1>1, RefusedIs DEF Lock
  <2>2. CASE ~(row.state = "removed" \/ ~owner[At(q)].open) /\ req[q].busy /\ Servable(q)
    BY <2>2, <1>1, AnswerIs, EndedIs DEF Lock
  <2>3. CASE ~(row.state = "removed" \/ ~owner[At(q)].open) /\ ~(req[q].busy /\ Servable(q))
    <3>1. k = [req[q] EXCEPT !.pc = "claim", !.busy = FALSE] /\ k.pc = "claim"
      BY <2>3, <1>1 DEF Asking
    <3>2. req' = [req EXCEPT ![q].pc = "claim", ![q].busy = FALSE]
      BY <2>3 DEF Lock
    <3>3. req' = [req EXCEPT ![q] = k]
      BY <3>1, <3>2, <1>1 DEF FastTypes
    <3> QED
      BY <2>3, <3>1, <3>3 DEF Lock
  <2> QED
    BY <2>1, <2>2, <2>3
<1>3. /\ k \in Asking /\ k.pc \in {"claim", "ended"} /\ k.lost = req[q].lost
      /\ k.pc # "ended" => k.got = req[q].got
      /\ Truthful(q, k.got, k.lost)
  <2>1. CASE row.state = "removed" \/ ~owner[At(q)].open
    BY <2>1, <1>1, RefusedIs DEF Truthful
  <2>2. CASE ~(row.state = "removed" \/ ~owner[At(q)].open) /\ req[q].busy /\ Servable(q)
    BY <2>2, <1>1, AnswerIs, EndedIs, ServableTruthful
  <2>3. CASE ~(row.state = "removed" \/ ~owner[At(q)].open) /\ ~(req[q].busy /\ Servable(q))
    BY <2>3, <1>1 DEF Asking, Truthful, Told, Unanswered
  <2> QED
    BY <2>1, <2>2, <2>3
<1> HIDE DEF k
<1>4. req'[q] = k /\ \A x \in Requests \ {q} : req'[x] = req[x]
  BY <1>1, <1>2 DEF FastTypes
<1>5. Knows(q)'
  BY <1>1, <1>3, <1>4 DEF Knows, Reading
<1>6. /\ owner' \in [Replicas -> Owners]
      /\ \A r \in Replicas : owner'[r].rev <= row.rev
      /\ \A r \in Replicas \ {At(q)} : owner'[r] = owner[r]
      /\ owner'[At(q)].by = IF k.pc = "claim" THEN q ELSE Free
  BY <1>1, <1>2 DEF FastTypes, Behind, Owners
<1>7. Locks'
  <2>1. (Working(q)' <=> k.pc = "claim") /\ ~Working(q) /\ ~Reading(q)
    BY <1>1, <1>3, <1>4 DEF Working, Reading
  <2> QED
    BY <1>1, <1>4, <1>6, <2>1, LocksKept
<1>8. k.lost <= row.rev /\ (k.pc # "ended" => k.got.how = "none")
  BY <1>1, <1>3 DEF Behind, Told, Unanswered
<1> QED
  BY <1>1, <1>2, <1>3, <1>5, <1>6, <1>7, <1>8, Acts DEF FastTypes

LEMMA ClaimKeeps ==
  ASSUME Measured, FastInductive, NEW q \in Requests, Claim(q) PROVE FastInductive'
<1>1. /\ FastTypes /\ Locks /\ Behind /\ Told /\ Knows(q) /\ req[q].pc = "claim" /\ req[q] \in Asking
      /\ owner[At(q)].by = q /\ At(q) \in Replicas /\ Working(q) /\ ~Reading(q)
      /\ UNCHANGED <<now, row, evidence, provider, bounds>>
  BY RequestIs DEF FastInductive, Claim, Locks, Working, Reading
<1> DEFINE k == IF row.state = "removed" THEN Refused(q)
                ELSE IF Elsewhere(q)
                THEN [req[q] EXCEPT !.pc = "wait", !.lost = owner[At(q)].rev,
                                    !.due = IF @ = Never THEN now + Wait ELSE @]
                ELSE [req[q] EXCEPT !.pc = "read", !.read = [NoRead EXCEPT !.from = now]]
<1> DEFINE claimed == row.state # "removed" /\ ~Elsewhere(q)
<1>2. /\ req' = [req EXCEPT ![q] = k]
      /\ claimed => lease' = At(q) /\ owner' = [owner EXCEPT ![At(q)].rev = row.rev]
      /\ ~claimed => lease' = lease /\ owner' = [owner EXCEPT ![At(q)].by = Free]
  <2>1. CASE row.state = "removed"
    BY <2>1 DEF Claim, Unlocked
  <2>2. CASE row.state # "removed" /\ Elsewhere(q)
    <3>1. req' = [req EXCEPT ![q].pc = "wait", ![q].lost = owner[At(q)].rev,
                             ![q].due = IF @ = Never THEN now + Wait ELSE @]
      BY <2>2 DEF Claim
    <3>2. req' = [req EXCEPT ![q] = k]
      BY <2>2, <3>1, <1>1 DEF FastTypes, Asking
    <3> QED
      BY <2>2, <3>2 DEF Claim, Unlocked
  <2>3. CASE row.state # "removed" /\ ~Elsewhere(q)
    <3>1. req' = [req EXCEPT ![q].pc = "read", ![q].read = [NoRead EXCEPT !.from = now]]
      BY <2>3 DEF Claim
    <3>2. req' = [req EXCEPT ![q] = k]
      BY <2>3, <3>1, <1>1 DEF FastTypes, Asking
    <3> QED
      BY <2>3, <3>2 DEF Claim
  <2> QED
    BY <2>1, <2>2, <2>3
<1>3. /\ k \in Asking /\ k.lost <= row.rev
      /\ k.pc \in {"wait", "read", "ended"} /\ (k.pc = "read" <=> claimed)
      /\ k.pc = "read" => k.read.from = now /\ ~k.read.tainted
      /\ k.pc # "ended" => k.got.how = "none"
      /\ Truthful(q, k.got, k.lost)
  <2>0. now \in Nat /\ Wait \in Nat /\ owner[At(q)].rev \in Nat /\ owner[At(q)].rev <= row.rev
        /\ req[q].lost <= row.rev /\ req[q].got.how = "none"
    BY <1>1 DEF FastTypes, Measured, Owners, Behind, Told, Unanswered
  <2>1. CASE row.state = "removed"
    BY <2>0, <2>1, <1>1, RefusedIs DEF Truthful
  <2>2. CASE row.state # "removed" /\ Elsewhere(q)
    <3> DEFINE due == IF req[q].due = Never THEN now + Wait ELSE req[q].due
    <3>1. due \in Int
      BY <2>0, <1>1 DEF Asking
    <3> HIDE DEF due
    <3>2. k = [req[q] EXCEPT !.pc = "wait", !.lost = owner[At(q)].rev, !.due = due]
      BY <2>2, <1>1 DEF due, Asking
    <3>3. /\ k \in Asking /\ k.pc = "wait" /\ k.lost = owner[At(q)].rev /\ k.got = req[q].got
      BY <2>0, <3>1, <3>2, <1>1 DEF Asking
    <3> HIDE DEF k
    <3> QED
      BY <2>0, <2>2, <3>3 DEF Truthful
  <2>3. CASE row.state # "removed" /\ ~Elsewhere(q)
    <3>0. NoRead \in Reads /\ NoRead.tainted = FALSE
      BY DEF NoRead, Reads, Never
    <3>1. /\ [NoRead EXCEPT !.from = now] \in Reads
          /\ [NoRead EXCEPT !.from = now].from = now /\ ~[NoRead EXCEPT !.from = now].tainted
      BY <2>0, <3>0 DEF Reads
    <3> QED
      BY <2>0, <2>3, <3>1, <1>1 DEF Asking, Truthful
  <2> QED
    BY <2>1, <2>2, <2>3
<1> HIDE DEF k
<1>4. req'[q] = k /\ \A x \in Requests \ {q} : req'[x] = req[x]
  BY <1>1, <1>2 DEF FastTypes
<1>5. Knows(q)'
  BY <1>1, <1>3, <1>4 DEF Knows, Reading, FastTypes
<1>6. /\ owner' \in [Replicas -> Owners]
      /\ \A r \in Replicas : owner'[r].rev <= row.rev
      /\ \A r \in Replicas \ {At(q)} : owner'[r] = owner[r]
      /\ owner'[At(q)].by = IF claimed THEN q ELSE Free
  BY <1>1, <1>2 DEF FastTypes, Behind, Owners
<1>7. Locks'
  <2>1. (Working(q)' <=> claimed) /\ (Reading(q)' <=> claimed)
    BY <1>1, <1>3, <1>4 DEF Working, Reading
  <2>2. ~claimed => lease' # At(q)
    <3>1. lease # At(q)
      BY <1>1 DEF Locks, Measured
    <3> QED
      BY <3>1, <1>2
  <2> HIDE DEF claimed
  <2> QED
    BY <1>1, <1>2, <1>4, <1>6, <2>1, <2>2, LocksKept
<1> QED
  BY <1>1, <1>2, <1>3, <1>5, <1>6, <1>7, Acts DEF FastTypes

LEMMA PollKeeps ==
  ASSUME Measured, FastInductive, NEW q \in Requests, Poll(q) PROVE FastInductive'
<1>1. /\ FastTypes /\ Locks /\ Behind /\ Told /\ Knows(q) /\ req[q].pc = "wait" /\ req[q] \in Asking
      /\ UNCHANGED <<now, row, evidence, lease, owner, provider, bounds>>
  BY RequestIs DEF FastInductive, Poll
<1>2. PICK k \in Asking :
        /\ req' = [req EXCEPT ![q] = k] /\ k.pc \in {"probe", "lock", "ended"}
        /\ k.lost = req[q].lost /\ (k.pc # "ended" => k.got.how = "none")
        /\ Truthful(q, k.got, k.lost)
  <2>1. CASE req' = [req EXCEPT ![q] = Refused(q)]
    BY <2>1, <1>1, RefusedIs DEF Truthful
  <2>2. ASSUME NEW pc \in {"probe", "lock"}, req' = [req EXCEPT ![q].pc = pc]
        PROVE  req' = [req EXCEPT ![q] = [req[q] EXCEPT !.pc = pc]]
    BY <2>2, <1>1 DEF FastTypes, Asking
  <2>3. ASSUME NEW pc \in {"probe", "lock"}
        PROVE  /\ [req[q] EXCEPT !.pc = pc] \in Asking /\ [req[q] EXCEPT !.pc = pc].pc = pc
               /\ [req[q] EXCEPT !.pc = pc].lost = req[q].lost
               /\ [req[q] EXCEPT !.pc = pc].got.how = "none"
               /\ Truthful(q, [req[q] EXCEPT !.pc = pc].got, req[q].lost)
    BY <2>3, <1>1 DEF Asking, Truthful, Told, Unanswered
  <2>4. \/ req' = [req EXCEPT ![q] = Refused(q)]
        \/ \E pc \in {"probe", "lock"} : req' = [req EXCEPT ![q].pc = pc]
    BY DEF Poll
  <2> QED
    BY <2>1, <2>2, <2>3, <2>4
<1>4. req'[q] = k /\ \A x \in Requests \ {q} : req'[x] = req[x]
  BY <1>1, <1>2 DEF FastTypes
<1>5. Knows(q)'
  BY <1>1, <1>2, <1>4 DEF Knows, Reading
<1>6. Locks'
  <2>1. ~Working(q)' /\ ~Working(q)
    BY <1>1, <1>2, <1>4 DEF Working
  <2> QED
    BY <1>1, <1>2, <1>4, <2>1, LocksKept
<1>7. k.lost <= row.rev
  BY <1>1, <1>2 DEF Behind
<1>8. bounds \in Meetings /\ owner \in [Replicas -> Owners] /\ \A r \in Replicas : owner[r].rev <= row.rev
  BY <1>1 DEF FastTypes, Behind
<1> QED
  BY <1>1, <1>2, <1>5, <1>6, <1>7, <1>8, Acts

LEMMA ReadOkKeeps ==
  ASSUME Measured, FastInductive, NEW q \in Requests, NEW rev \in {row.rev + 1, owner[At(q)].rev},
         ReadOk(q, rev)
  PROVE  FastInductive'
<1>1. /\ FastTypes /\ Locks /\ Behind /\ Told /\ Knows(q) /\ req[q].pc = "read" /\ req[q] \in Asking
      /\ req[q].read \in Reads /\ At(q) \in Replicas
      /\ UNCHANGED <<now, row, evidence, lease, owner, provider>>
  BY RequestIs DEF FastInductive, ReadOk
<1>2. rev \in Nat /\ now \in Nat /\ provider.low \in Int /\ provider.routed \in Int /\ Delay \in Nat
  BY <1>1 DEF FastTypes, Owners, Measured
<1> DEFINE from == req[q].read.from
<1>3. from \in Int /\ provider.routed >= from /\ from \in 0..now
  BY <1>1 DEF Reads, ReadOk, Knows, Reading
<1> DEFINE read == [req[q].read EXCEPT !.age = now - from, !.rev = rev, !.from = now,
                                       !.high = provider.low < from]
<1> DEFINE k == [req[q] EXCEPT !.pc = "publish", !.read = read]
<1>4. req' = [req EXCEPT ![q] = k]
  BY <1>1 DEF ReadOk, FastTypes, Asking
<1>5. /\ read \in Reads /\ read.age = now - from /\ read.from = now /\ read.high = (provider.low < from)
      /\ read.tainted = req[q].read.tainted
  <2>1. PICK high \in BOOLEAN : high = (provider.low < from)
    <3>1. CASE provider.low < from
      <4>1. TRUE = (provider.low < from)
        BY <3>1
      <4> QED
        BY <4>1, Zenon
    <3>2. CASE ~(provider.low < from)
      <4>1. FALSE = (provider.low < from)
        BY <3>2
      <4> QED
        BY <4>1, Zenon
    <3> QED
      BY <3>1, <3>2
  <2>2. PICK age \in Int : age = now - from
    BY <1>2, <1>3
  <2>3. read = [req[q].read EXCEPT !.age = age, !.rev = rev, !.from = now, !.high = high]
    BY <2>1, <2>2, Zenon
  <2> HIDE DEF read
  <2>4. /\ read \in Reads /\ read.age = age /\ read.from = now /\ read.high = high
        /\ read.tainted = req[q].read.tainted
    <3>1. now \in Int /\ rev \in Nat
      BY <1>2
    <3>2. PICK r \in Reads : r = req[q].read
      BY <1>1
    <3>3. read = [r EXCEPT !.age = age, !.rev = rev, !.from = now, !.high = high]
      BY <2>3, <3>2
    <3>4. read \in Reads
      BY <3>1, <3>3 DEF Reads
    <3>5. read.age = age /\ read.from = now /\ read.tainted = r.tainted /\ read.high = high
      BY <3>1, <3>3 DEF Reads
    <3> QED
      BY <3>2, <3>4, <3>5
  <2>5. read.high = (provider.low < from)
    BY <2>1, <2>4, Zenon
  <2> QED
    BY <2>2, <2>4, <2>5
<1> HIDE DEF read, from
<1>6. /\ k \in Asking /\ k.pc = "publish" /\ k.read = read /\ k.lost = req[q].lost
      /\ k.got = req[q].got
  BY <1>1, <1>5 DEF Asking
<1> HIDE DEF k
<1>7. req'[q] = k /\ \A x \in Requests \ {q} : req'[x] = req[x]
  BY <1>1, <1>4 DEF FastTypes
<1>8. bounds' \in Meetings /\ bounds'.asks = bounds.asks
  BY <1>1 DEF ReadOk, FastTypes, Meetings
<1>9. Knows(q)'
  <2>1. /\ now \in 0..now /\ now <= now + Delay
        /\ provider.routed >= now - (now - from)
        /\ ~(provider.low < from) => provider.low >= now - (now - from)
    BY <1>2, <1>3
  <2>2. At(q)' = At(q)
    BY <1>8 DEF At
  <2>3. Reading(q) /\ lease = At(q) => ~read.tainted
    BY <1>1, <1>5 DEF Knows
  <2>4. Reading(q)
    BY <1>1 DEF Reading
  <2> QED
    BY <1>1, <1>5, <1>6, <1>7, <2>1, <2>2, <2>3, <2>4 DEF Knows
<1>10. Locks'
  <2>1. Working(q)' /\ Working(q) /\ Reading(q)'
    BY <1>1, <1>6, <1>7 DEF Working, Reading
  <2>2. owner[At(q)].by = q
    BY <1>1, <2>1 DEF Locks
  <2> QED
    BY <1>1, <1>7, <1>8, <2>1, <2>2, LocksKept
<1>11. k.lost <= row.rev /\ k.got.how = "none" /\ Truthful(q, k.got, k.lost)
  BY <1>1, <1>6 DEF Behind, Told, Unanswered, Truthful
<1> QED
  BY <1>1, <1>4, <1>6, <1>8, <1>9, <1>10, <1>11, Acts DEF FastTypes, Behind

\* The owner of a request that ends is unlocked, and what it held of the lease is free.
LEMMA EndKeepsLocks ==
  ASSUME Measured, FastTypes, Locks, NEW q \in Requests, Working(q), bounds'.asks = bounds.asks,
         \A x \in Requests \ {q} : req'[x].pc = req[x].pc, req'[q].pc = "ended",
         \A r \in Replicas \ {At(q)} : owner'[r] = owner[r], owner'[At(q)].by = Free,
         lease' = IF lease = At(q) THEN Free ELSE lease
  PROVE  Locks'
<1>1. ~Working(q)' /\ At(q) # Free
  BY RequestIs DEF Working, Measured
<1> QED
  BY <1>1, LocksKept

\* An owner whose lock is let go and whose revision is set.
LEMMA OwnerReplaced ==
  ASSUME FastTypes, NEW a \in Replicas, NEW w \in Owners, owner' = [owner EXCEPT ![a] = w]
  PROVE  /\ owner' \in [Replicas -> Owners] /\ owner'[a] = w
         /\ \A r \in Replicas \ {a} : owner'[r] = owner[r]
<1>1. owner \in [Replicas -> Owners]
  BY DEF FastTypes
<1> QED
  BY <1>1

LEMMA OwnerUnlocked ==
  ASSUME Measured, FastTypes, NEW a \in Replicas, NEW rev \in Nat,
         \/ owner' = [owner EXCEPT ![a].by = Free, ![a].rev = rev]
         \/ owner' = [owner EXCEPT ![a].by = Free, ![a].open = FALSE] /\ rev = owner[a].rev
  PROVE  /\ owner' \in [Replicas -> Owners] /\ owner'[a].by = Free /\ owner'[a].rev = rev
         /\ \A r \in Replicas \ {a} : owner'[r] = owner[r]
<1>1. PICK o \in Owners : o = owner[a]
  BY DEF FastTypes
<1>2. CASE owner' = [owner EXCEPT ![a].by = Free, ![a].rev = rev]
  <2>1. PICK w \in Owners : w = [o EXCEPT !.by = Free, !.rev = rev]
    BY DEF Owners
  <2>2. owner' = [owner EXCEPT ![a] = w]
    BY <1>1, <1>2, <2>1
  <2>3. w.by = Free /\ w.rev = rev
    BY <2>1 DEF Owners
  <2> QED
    BY <2>2, <2>3, OwnerReplaced
<1>3. CASE owner' = [owner EXCEPT ![a].by = Free, ![a].open = FALSE] /\ rev = owner[a].rev
  <2>1. PICK w \in Owners : w = [o EXCEPT !.by = Free, !.open = FALSE]
    BY DEF Owners
  <2>2. owner' = [owner EXCEPT ![a] = w]
    BY <1>1, <1>3, <2>1
  <2>3. w.by = Free /\ w.rev = rev
    BY <1>1, <1>3, <2>1 DEF Owners
  <2> QED
    BY <2>2, <2>3, OwnerReplaced
<1> QED
  BY <1>2, <1>3

LEMMA OwnerClosed ==
  ASSUME Measured, FastTypes, Behind, NEW a \in Replicas,
         owner' = [owner EXCEPT ![a].by = Free, ![a].open = FALSE]
  PROVE  /\ owner' \in [Replicas -> Owners] /\ owner'[a].by = Free
         /\ \A r \in Replicas : owner'[r].rev <= row.rev
         /\ \A r \in Replicas \ {a} : owner'[r] = owner[r]
<1>1. owner[a].rev \in Nat
  BY DEF FastTypes, Owners
<1>2. /\ owner' \in [Replicas -> Owners] /\ owner'[a].by = Free
      /\ owner'[a].rev = owner[a].rev
      /\ \A r \in Replicas \ {a} : owner'[r] = owner[r]
  BY <1>1, OwnerUnlocked
<1>3. \A r \in Replicas : owner[r].rev <= row.rev
  BY DEF Behind
<1> QED
  BY <1>2, <1>3

LEMMA RefuseKeeps ==
  ASSUME Measured, FastInductive, NEW q \in Requests, Reading(q), req' = [req EXCEPT ![q] = Refused(q)],
         owner' = [owner EXCEPT ![At(q)].by = Free, ![At(q)].open = FALSE],
         lease' = IF lease = At(q) THEN Free ELSE lease,
         bounds' \in Meetings, bounds'.asks = bounds.asks,
         UNCHANGED <<now, row, provider, evidence>>
  PROVE  FastInductive'
<1>1. /\ FastTypes /\ Locks /\ Behind /\ Working(q) /\ At(q) \in Replicas
  BY RequestIs DEF FastInductive, Reading, Working
<1>2. req'[q] = Refused(q) /\ \A x \in Requests \ {q} : req'[x] = req[x]
  BY <1>1 DEF FastTypes
<1>3. /\ owner' \in [Replicas -> Owners]
      /\ \A r \in Replicas : owner'[r].rev <= row.rev
      /\ \A r \in Replicas \ {At(q)} : owner'[r] = owner[r]
      /\ owner'[At(q)].by = Free
  BY <1>1, OwnerClosed
<1>4. Locks'
  BY <1>1, <1>2, <1>3, RefusedIs, EndKeepsLocks
<1>5. Knows(q)'
  BY <1>1, <1>2, RefusedIs DEF Knows, Reading
<1>6. req[q].lost <= row.rev
  BY <1>1 DEF Behind
<1> QED
  BY <1>1, <1>3, <1>4, <1>5, <1>6, RefusedIs, Acts DEF Truthful

\* A withdrawal taints the reads under its lease, which is given up in the same step.
LEMMA WithdrawKeeps ==
  ASSUME Measured, FastInductive, NEW q \in Requests, req[q].pc = "read",
         evidence' = NoEvidence,
         req' = [x \in Requests |->
           IF x = q THEN Refused(q)
           ELSE IF lease = At(q) /\ req[x].pc \in {"read", "publish"}
                THEN [req[x] EXCEPT !.read.tainted = TRUE]
           ELSE req[x]],
         owner' = [owner EXCEPT ![At(q)].by = Free, ![At(q)].open = FALSE],
         lease' = IF lease = At(q) THEN Free ELSE lease,
         UNCHANGED <<now, row, provider, bounds>>
  PROVE  FastInductive'
<1>1. /\ FastTypes /\ Locks /\ Behind /\ Told /\ Working(q) /\ At(q) \in Replicas
      /\ \A x \in Requests : Knows(x) /\ req[x] \in Asking /\ req[x].read \in Reads
      /\ Free \notin Replicas
  BY RequestIs DEF FastInductive, Working, Measured
<1>2. /\ req'[q] = Refused(q)
      /\ \A x \in Requests \ {q} :
           req'[x] = IF lease = At(q) /\ Reading(x)
                     THEN [req[x] EXCEPT !.read.tainted = TRUE] ELSE req[x]
  BY DEF Reading
<1>3. ASSUME NEW x \in Requests \ {q}
      PROVE  /\ req'[x] \in Asking
             /\ req'[x].pc = req[x].pc /\ req'[x].lost = req[x].lost /\ req'[x].got = req[x].got
             /\ req'[x].read.from = req[x].read.from
             /\ lease' # Free => req'[x] = req[x]
  <2>1. CASE lease = At(q) /\ Reading(x)
    <3>1. [req[x].read EXCEPT !.tainted = TRUE] \in Reads
      BY <1>1 DEF Reads
    <3>2. [req[x].read EXCEPT !.tainted = TRUE].from = req[x].read.from
      BY <1>1 DEF Reads
    <3>3. req'[x] = [req[x] EXCEPT !.read = [req[x].read EXCEPT !.tainted = TRUE]]
      BY <1>1, <1>2, <2>1 DEF Asking
    <3>4. req'[x].read = [req[x].read EXCEPT !.tainted = TRUE]
      BY <1>1, <3>3 DEF Asking
    <3> QED
      BY <1>1, <2>1, <3>1, <3>2, <3>3, <3>4 DEF Asking
  <2>2. CASE ~(lease = At(q) /\ Reading(x))
    BY <1>1, <1>2, <2>2
  <2> QED
    BY <2>1, <2>2
<1>4. /\ owner' \in [Replicas -> Owners]
      /\ \A r \in Replicas : owner'[r].rev <= row.rev
      /\ \A r \in Replicas \ {At(q)} : owner'[r] = owner[r]
      /\ owner'[At(q)].by = Free
  BY <1>1, OwnerClosed
<1>5. FastTypes'
  <2>1. req' \in [Requests -> Asking]
    BY <1>1, <1>2, <1>3, RefusedIs
  <2>2. evidence' \in [of : Nat, routed : Int, billed : Int, high : BOOLEAN, tainted : BOOLEAN]
    BY DEF NoEvidence, Never
  <2> QED
    BY <1>1, <1>4, <2>1, <2>2 DEF FastTypes
<1>6. Locks'
  BY <1>1, <1>2, <1>3, <1>4, RefusedIs, EndKeepsLocks
<1>7. Behind'
  <2>1. evidence'.of <= row.rev
    BY <1>1 DEF NoEvidence, FastTypes
  <2> QED
    BY <1>1, <1>2, <1>3, <1>4, <2>1, RefusedIs DEF Behind
<1>8. \A x \in Requests : Knows(x)'
  <2>1. Knows(q)'
    BY <1>1, <1>2, RefusedIs DEF Knows, Reading
  <2>2. ASSUME NEW x \in Requests \ {q} PROVE Knows(x)'
    <3>1. CASE lease' = Free
      <4>1. At(x)' # lease'
        BY <3>1, <1>1, RequestIs DEF At
      <4> QED
        BY <1>1, <1>3, <4>1 DEF Knows, Reading
    <3>2. CASE lease' # Free
      <4>1. req'[x] = req[x] /\ lease' = lease
        BY <1>3, <3>2
      <4>2. provider.routed \in Int /\ provider.low \in Int
        BY <1>1 DEF FastTypes
      <4> QED
        BY <1>1, <4>1, <4>2, KnowsKept
    <3> QED
      BY <3>1, <3>2
  <2> QED
    BY <2>1, <2>2
<1>9. Evident' /\ WithdrawnForGood'
  BY <1>1 DEF Evident, WithdrawnForGood, NoEvidence, FastTypes
<1>10. Told'
  BY <1>1, <1>2, <1>3, RefusedIs, ToldKept DEF Truthful
<1> QED
  BY <1>5, <1>6, <1>7, <1>8, <1>9, <1>10 DEF FastInductive

LEMMA ReadFailsKeeps ==
  ASSUME Measured, FastInductive, NEW q \in Requests, ReadFails(q) PROVE FastInductive'
<1>1. CASE /\ bounds' = [bounds EXCEPT !.clears = @ - 1] /\ UNCHANGED evidence
           /\ req' = [req EXCEPT ![q] = Refused(q)]
  <2>1. bounds' \in Meetings /\ bounds'.asks = bounds.asks
    BY <1>1 DEF FastInductive, FastTypes, Meetings
  <2> QED
    BY <1>1, <2>1, RefuseKeeps DEF ReadFails, Reading
<1> QED
  BY <1>1, WithdrawKeeps DEF ReadFails

\* What is published of a read under its lease.
LEMMA RecordedIs ==
  ASSUME Measured, FastInductive, NEW q \in Requests, req[q].pc = "publish", lease = At(q),
         req[q].read.rev >= row.rev
  PROVE  LET e == Observation(q)
         IN  /\ e \in [of : Nat, routed : Int, billed : Int, high : BOOLEAN, tainted : BOOLEAN]
             /\ e.of = req[q].read.rev /\ ~e.tainted
             /\ provider.routed >= e.routed - Delay
             /\ e.billed # Never /\ ~e.high => provider.low >= e.billed - Delay
<1> DEFINE read == req[q].read
           keep == evidence.of = read.rev /\ ~bounds.asks[q].billing
<1>1. /\ FastTypes /\ Reading(q) /\ read \in Reads /\ Knows(q)
      /\ bounds.asks[q].billing \in BOOLEAN
      /\ now \in Int /\ Delay \in Int /\ provider.routed \in Int /\ provider.low \in Int
      /\ evidence.of \in Nat /\ evidence.billed \in Int /\ evidence.high \in BOOLEAN
      /\ evidence.of <= row.rev /\ row.rev \in Nat
  BY RequestIs DEF FastInductive, Reading, FastTypes, Measured, Behind
<1>2. /\ read.from \in Int /\ read.age \in Int /\ read.rev \in Nat /\ read.high \in BOOLEAN
      /\ read.tainted \in BOOLEAN
  BY <1>1 DEF Reads
<1>3. /\ now <= read.from + Delay /\ ~read.tainted
      /\ provider.routed >= read.from - read.age
      /\ ~read.high => provider.low >= read.from - read.age
  BY <1>1 DEF Knows
<1>4. keep =>
        (evidence.billed # Never /\ ~evidence.high => provider.low >= evidence.billed - Delay)
  BY <1>1, <1>2 DEF FastInductive, Evident
<1>5. /\ now - read.age \in Int /\ provider.routed >= (now - read.age) - Delay
      /\ ~read.high => provider.low >= (now - read.age) - Delay
  BY <1>1, <1>2, <1>3
<1> DEFINE billed == IF keep THEN evidence.billed
                     ELSE IF bounds.asks[q].billing THEN now - read.age ELSE Never
           high == IF keep THEN evidence.high ELSE bounds.asks[q].billing /\ read.high
<1>6. /\ billed \in Int /\ high \in BOOLEAN
      /\ billed # Never /\ ~high => provider.low >= billed - Delay
  BY <1>1, <1>2, <1>4, <1>5 DEF Never
<1>7. Observation(q) = [of |-> read.rev, routed |-> now - read.age, tainted |-> read.tainted,
                     billed |-> billed, high |-> high]
  BY Zenon DEF Observation
<1> HIDE DEF billed, high, keep
<1>8. /\ Observation(q).of = read.rev /\ Observation(q).routed = now - read.age
      /\ Observation(q).tainted = read.tainted /\ Observation(q).billed = billed /\ Observation(q).high = high
  BY <1>7
<1>9. Observation(q) \in [of : Nat, routed : Int, billed : Int, high : BOOLEAN, tainted : BOOLEAN]
  BY <1>2, <1>5, <1>6, <1>7
<1> QED
  BY <1>3, <1>5, <1>6, <1>8, <1>9

LEMMA PublishKeeps ==
  ASSUME Measured, FastInductive, NEW q \in Requests, Publish(q) PROVE FastInductive'
<1>1. /\ FastTypes /\ Locks /\ Behind /\ Told /\ Reading(q) /\ Working(q) /\ At(q) \in Replicas
      /\ req[q].pc = "publish" /\ req[q].read \in Reads /\ req[q].read.rev \in Nat
      /\ \A x \in Requests : Knows(x)
      /\ Free \notin Replicas
      /\ UNCHANGED <<now, provider, bounds>>
      /\ lease' = IF lease = At(q) THEN Free ELSE lease
  BY RequestIs DEF FastInductive, Reading, Working, Publish, Measured, Reads
<1> DEFINE good == Holds(q) /\ row.state # "removed" /\ req[q].read.rev >= row.rev
<1>2. CASE ~good
  <2>1. bounds' \in Meetings /\ bounds'.asks = bounds.asks
    BY <1>1 DEF FastTypes
  <2> QED
    BY <1>1, <1>2, <2>1, RefuseKeeps DEF Publish
<1>3. CASE good
  <2> DEFINE got == [Answer("lease") EXCEPT !.rev = req[q].read.rev]
  <2>0. /\ lease = At(q) /\ lease' = Free /\ req[q].read.rev >= row.rev /\ row.rev \in Nat \ {0}
        /\ req[q].lost <= row.rev /\ req[q].lost \in Nat
    BY <1>1, <1>3, RequestIs DEF Holds, Behind, FastTypes, Asking
  <2>1. /\ row' = [row EXCEPT !.rev = req[q].read.rev,
                              !.expiring = @ /\ req[q].read.rev = row.rev]
        /\ evidence' = Observation(q)
        /\ owner' = [owner EXCEPT ![At(q)].by = Free, ![At(q)].rev = req[q].read.rev]
        /\ req' = [req EXCEPT ![q] = Ended(q, got)]
    BY <1>3 DEF Publish
  <2>2. got \in Answers /\ got.how = "lease" /\ got.rev = req[q].read.rev
    BY <1>1, AnswerIs DEF Answers
  <2> HIDE DEF got
  <2>3. /\ Ended(q, got) \in Asking /\ Ended(q, got).pc = "ended" /\ Ended(q, got).got = got
        /\ Ended(q, got).lost = req[q].lost
    BY <1>1, <2>2, EndedIs
  <2>4. req'[q] = Ended(q, got) /\ \A x \in Requests \ {q} : req'[x] = req[x]
    BY <1>1, <2>1 DEF FastTypes
  <2>5. row'.rev = req[q].read.rev /\ row' \in [rev : Nat \ {0}, state : {"live", "login", "removed"}, expiring : BOOLEAN]
    <3>1. (row.expiring /\ req[q].read.rev = row.rev) \in BOOLEAN
      OBVIOUS
    <3>2. PICK expiring \in BOOLEAN : row' = [row EXCEPT !.rev = req[q].read.rev, !.expiring = expiring]
      BY <2>1, <3>1, Zenon
    <3>3. req[q].read.rev \in Nat \ {0}
      BY <1>1, <2>0
    <3> QED
      BY <1>1, <3>2, <3>3 DEF FastTypes
  <2>6. /\ owner' \in [Replicas -> Owners]
        /\ \A r \in Replicas : owner'[r].rev <= row'.rev
        /\ \A r \in Replicas \ {At(q)} : owner'[r] = owner[r]
        /\ owner'[At(q)].by = Free
    <3>0. req[q].read.rev \in Nat
      BY <1>1, <2>0
    <3>1. /\ owner' \in [Replicas -> Owners]
          /\ owner'[At(q)].by = Free /\ owner'[At(q)].rev = req[q].read.rev
          /\ \A r \in Replicas \ {At(q)} : owner'[r] = owner[r]
      BY <1>1, <2>1, <3>0, OwnerUnlocked
    <3>2. /\ \A r \in Replicas \ {At(q)} : owner'[r] = owner[r]
          /\ owner'[At(q)].by = Free /\ owner'[At(q)].rev = req[q].read.rev
      BY <3>1
    <3>3. \A r \in Replicas : owner[r].rev <= row.rev /\ owner[r].rev \in Nat
      BY <1>1 DEF FastTypes, Owners, Behind
    <3>4. ASSUME NEW r \in Replicas PROVE owner'[r].rev <= row'.rev
      <4>1. CASE r = At(q)
        BY <3>2, <2>5, <1>1, <4>1
      <4>2. CASE r # At(q)
        BY <3>2, <3>3, <2>5, <2>0, <1>1, <4>2
      <4> QED
        BY <4>1, <4>2
    <3> QED
      BY <3>1, <3>2, <3>4
  <2>7. /\ evidence' \in [of : Nat, routed : Int, billed : Int, high : BOOLEAN, tainted : BOOLEAN]
        /\ evidence'.of = req[q].read.rev /\ ~evidence'.tainted
        /\ provider.routed >= evidence'.routed - Delay
        /\ evidence'.billed # Never /\ ~evidence'.high => provider.low >= evidence'.billed - Delay
    BY <1>1, <2>0, <2>1, RecordedIs
  <2>8. FastTypes'
    BY <1>1, <2>0, <2>1, <2>3, <2>5, <2>6, <2>7 DEF FastTypes
  <2>9. Locks'
    BY <1>1, <2>3, <2>4, <2>6, EndKeepsLocks
  <2>10. Behind'
    <3>1. ASSUME NEW x \in Requests PROVE req'[x].lost <= row'.rev
      <4>1. req[x].lost <= row.rev /\ req[x].lost \in Nat
        BY <1>1, RequestIs DEF Behind, Asking
      <4>2. req'[x].lost = req[x].lost
        BY <2>3, <2>4
      <4> QED
        BY <4>1, <4>2, <2>0, <2>5, <1>1
    <3> QED
      BY <1>1, <2>5, <2>6, <2>7, <3>1 DEF Behind
  <2>11. ASSUME NEW x \in Requests PROVE Knows(x)'
    <3>1. Knows(q)'
      BY <2>3, <2>4 DEF Knows, Reading
    <3>2. CASE x # q
      <4>1. At(x) # Free
        BY <1>1, RequestIs
      <4> QED
        BY <1>1, <2>0, <2>4, <3>2, <4>1, KnowsKept
    <3> QED
      BY <3>1, <3>2
  <2>12. Evident' /\ WithdrawnForGood'
    BY <1>1, <2>7 DEF Evident, WithdrawnForGood
  <2>13. Told'
    <3>1. Truthful(q, got, req[q].lost)
      BY <2>0, <2>2, <1>1 DEF Truthful
    <3> QED
      BY <1>1, <2>3, <2>4, <3>1, ToldKept
  <2> QED
    BY <2>8, <2>9, <2>10, <2>11, <2>12, <2>13 DEF FastInductive
<1> QED
  BY <1>2, <1>3

\* What requests were told depends on nothing else.
LEMMA ToldSame ==
  ASSUME Told, req' = req, bounds'.asks = bounds.asks PROVE Told'
  BY DEF Told, Unanswered, FastTrue, AnswerCurrent, Served, ServedFast

LEMMA RecoverKeeps ==
  ASSUME Measured, FastInductive, NEW r \in Replicas, Recover(r) PROVE FastInductive'
<1>1. /\ FastTypes /\ Locks /\ Behind /\ Told /\ Evident /\ WithdrawnForGood
      /\ \A x \in Requests : Knows(x)
      /\ UNCHANGED <<now, evidence, lease, req>> /\ owner[r].by = Free
      /\ row.rev \in Nat \ {0} /\ now \in Nat /\ evidence.of \in Nat
  BY DEF FastInductive, Recover, FastTypes
<1>2. lease = Free
  BY <1>1 DEF Recover, Locks
<1>3. /\ row' \in [rev : Nat \ {0}, state : {"live", "login", "removed"}, expiring : BOOLEAN]
      /\ owner' = [owner EXCEPT ![r].open = TRUE, ![r].rev = row'.rev]
      /\ bounds' \in Meetings /\ bounds'.asks = bounds.asks
      /\ \/ row' = row /\ provider' = provider
         \/ /\ row'.rev = row.rev + 1
            /\ provider' = [provider EXCEPT !.routing = FALSE, !.routed = LongAgo]
  <2>1. CASE /\ owner' = [owner EXCEPT ![r].open = TRUE, ![r].rev = row.rev]
             /\ UNCHANGED <<row, provider, bounds>>
    BY <1>1, <2>1 DEF FastTypes
  <2>2. CASE /\ bounds' = [bounds EXCEPT !.rotations = @ - 1]
             /\ owner' = [owner EXCEPT ![r].open = TRUE, ![r].rev = row.rev + 1]
             /\ row' = [row EXCEPT !.rev = @ + 1, !.expiring = FALSE]
             /\ provider' = [provider EXCEPT !.routing = FALSE, !.routed = LongAgo]
    <3>1. row.rev + 1 \in Nat \ {0}
      BY <1>1
    <3>2. /\ row' \in [rev : Nat \ {0}, state : {"live", "login", "removed"}, expiring : BOOLEAN]
          /\ row'.rev = row.rev + 1
      BY <1>1, <2>2, <3>1 DEF FastTypes
    <3>3. bounds' \in Meetings /\ bounds'.asks = bounds.asks
      BY <1>1, <2>2 DEF FastTypes, Meetings
    <3> QED
      BY <2>2, <3>2, <3>3
  <2> QED
    BY <2>1, <2>2 DEF Recover
<1>4. row'.rev \in Nat /\ row'.rev >= row.rev
  BY <1>1, <1>3
<1>5. /\ owner' \in [Replicas -> Owners]
      /\ \A x \in Replicas : owner'[x].by = owner[x].by
      /\ \A x \in Replicas : owner'[x].rev = row'.rev \/ owner'[x].rev = owner[x].rev
  <2>1. PICK rev \in Nat : rev = row'.rev
    BY <1>4
  <2>2. owner' = [owner EXCEPT ![r].open = TRUE, ![r].rev = rev]
    BY <1>3, <2>1
  <2>3. owner' \in [Replicas -> Owners]
    <3>1. owner[r] \in Owners
      BY <1>1 DEF FastTypes
    <3>2. [owner[r] EXCEPT !.open = TRUE, !.rev = rev] \in Owners
      BY <3>1 DEF Owners
    <3>3. owner' = [owner EXCEPT ![r] = [owner[r] EXCEPT !.open = TRUE, !.rev = rev]]
      BY <1>1, <2>2 DEF FastTypes, Owners
    <3> QED
      BY <1>1, <3>2, <3>3 DEF FastTypes
  <2>4. ASSUME NEW x \in Replicas
        PROVE  owner'[x].by = owner[x].by /\ (owner'[x].rev = rev \/ owner'[x].rev = owner[x].rev)
    BY <1>1, <2>2 DEF FastTypes, Owners
  <2> QED
    BY <2>1, <2>3, <2>4
<1>6. /\ provider' \in [routing : BOOLEAN, high : BOOLEAN, routed : Int, low : Int]
      /\ provider'.routed <= now /\ provider'.low <= now
  <2>1. LongAgo \in Int /\ LongAgo <= now
    BY <1>1 DEF LongAgo, Measured
  <2> QED
    BY <1>1, <1>3, <2>1 DEF FastTypes, Behind
<1>7. FastTypes'
  BY <1>1, <1>3, <1>5, <1>6 DEF FastTypes
<1>8. Locks'
  <2>1. \A x \in Requests : At(x)' = At(x) /\ At(x) \in Replicas /\ Working(x)' = Working(x)
    BY <1>1, <1>3, RequestIs DEF At, Working
  <2>2. \A x \in Requests : Working(x)' => owner'[At(x)'].by = x
    BY <1>1, <1>5, <2>1 DEF Locks
  <2>3. ASSUME NEW x \in Replicas, owner'[x].by # Free
        PROVE  owner[x].by \in Requests /\ owner'[x].by = owner[x].by
               /\ Working(owner[x].by) /\ At(owner[x].by) = x
    BY <1>1, <1>5, <2>3 DEF Locks, NothingLeft, Working, FastTypes, Owners
  <2>4. NothingLeft'
    BY <2>1, <2>3 DEF NothingLeft, Working
  <2> QED
    BY <1>1, <1>2, <2>2, <2>4 DEF Locks
<1>9. Behind'
  <2>1. ASSUME NEW x \in Replicas PROVE owner'[x].rev <= row'.rev
    BY <1>1, <1>4, <1>5 DEF Behind, FastTypes, Owners
  <2>2. ASSUME NEW x \in Requests PROVE req'[x].lost <= row'.rev
    BY <1>1, <1>4, RequestIs DEF Behind, Asking
  <2>3. evidence'.of <= row'.rev
    BY <1>1, <1>4 DEF Behind
  <2> QED
    BY <1>1, <1>6, <2>1, <2>2, <2>3 DEF Behind
<1>10. ASSUME NEW x \in Requests PROVE Knows(x)'
  BY <1>1, <1>2, <1>3, RequestIs, KnowsKept DEF Measured
<1>11. Evident' /\ WithdrawnForGood'
  <2>1. CASE row' = row /\ provider' = provider
    BY <1>1, <2>1 DEF Evident, WithdrawnForGood
  <2>2. CASE row'.rev = row.rev + 1
    <3>1. evidence'.of # row'.rev
      BY <1>1, <2>2 DEF Behind
    <3> QED
      BY <1>1, <3>1 DEF Evident, WithdrawnForGood
  <2> QED
    BY <1>3, <2>1, <2>2
<1> QED
  BY <1>1, <1>3, <1>7, <1>8, <1>9, <1>10, <1>11, ToldSame DEF FastInductive

\* What happens around the requests: the lease runs out, and the account, its routing and
\* its use change.
LEMMA AroundKeeps ==
  ASSUME Measured, FastInductive, LeaseExpires \/ Change PROVE FastInductive'
<1>1. /\ FastTypes /\ Locks /\ Behind /\ Told /\ Evident /\ WithdrawnForGood
      /\ \A x \in Requests : Knows(x)
      /\ UNCHANGED <<now, evidence, owner, req>>
  BY DEF FastInductive, LeaseExpires, Change
<1>2. bounds' \in Meetings /\ bounds'.asks = bounds.asks
  <2>1. CASE bounds' = [bounds EXCEPT !.expiries = @ - 1]
    BY <1>1, <2>1 DEF FastTypes, Meetings
  <2>2. CASE bounds' = [bounds EXCEPT !.changes = @ - 1]
    BY <1>1, <2>2 DEF FastTypes, Meetings
  <2> QED
    BY <2>1, <2>2 DEF LeaseExpires, Change
<1>3. lease' = lease \/ lease' = Free
  BY DEF LeaseExpires, Change
<1>4. /\ row' \in [rev : Nat \ {0}, state : {"live", "login", "removed"}, expiring : BOOLEAN]
      /\ row'.rev = row.rev
  <2>1. CASE row' = row
    BY <1>1, <2>1 DEF FastTypes
  <2>2. CASE row' = [row EXCEPT !.expiring = TRUE]
    BY <1>1, <2>2 DEF FastTypes
  <2>3. ASSUME NEW s \in {"removed", "login"}, row' = [row EXCEPT !.state = s]
        PROVE  /\ row' \in [rev : Nat \ {0}, state : {"live", "login", "removed"}, expiring : BOOLEAN]
               /\ row'.rev = row.rev
    BY <1>1, <2>3 DEF FastTypes
  <2> QED
    BY <2>1, <2>2, <2>3 DEF LeaseExpires, Change
<1>5. /\ provider' \in [routing : BOOLEAN, high : BOOLEAN, routed : Int, low : Int]
      /\ provider'.routed = provider.routed /\ provider'.low = provider.low
      /\ provider.routed \in Int /\ provider.low \in Int
  <2>1. CASE provider' = provider
    BY <1>1, <2>1 DEF FastTypes
  <2>2. CASE provider' = [provider EXCEPT !["routing"] = ~@]
    BY <1>1, <2>2 DEF FastTypes
  <2>3. CASE provider' = [provider EXCEPT !["high"] = ~@]
    BY <1>1, <2>3 DEF FastTypes
  <2> QED
    BY <2>1, <2>2, <2>3 DEF LeaseExpires, Change
<1>6. FastTypes'
  BY <1>1, <1>2, <1>3, <1>4, <1>5 DEF FastTypes
<1>7. Locks'
  BY <1>1, <1>2, <1>3 DEF Locks, NothingLeft, Working, Reading, At
<1>8. Behind'
  BY <1>1, <1>4, <1>5 DEF Behind
<1>9. ASSUME NEW x \in Requests PROVE Knows(x)'
  <2>1. At(x) # Free
    BY <1>1, RequestIs DEF Measured
  <2>2. provider'.routed >= provider.routed /\ provider'.low >= provider.low
    BY <1>5
  <2> QED
    BY <1>1, <1>2, <1>3, <1>5, <2>1, <2>2, KnowsKept
<1>10. Evident' /\ WithdrawnForGood'
  BY <1>1, <1>4, <1>5 DEF Evident, WithdrawnForGood
<1> QED
  BY <1>1, <1>2, <1>6, <1>7, <1>8, <1>9, <1>10, ToldSame DEF FastInductive

LEMMA TickKeeps ==
  ASSUME Measured, FastInductive, Tick PROVE FastInductive'
<1>1. /\ FastTypes /\ Locks /\ Behind /\ Told /\ Evident /\ WithdrawnForGood
      /\ \A x \in Requests : Knows(x)
      /\ UNCHANGED <<row, evidence, lease, owner, req, bounds>>
      /\ now \in Nat /\ now' = now + 1
  BY DEF FastInductive, Tick, FastTypes
<1>2. /\ provider.routed \in Int /\ provider.low \in Int /\ provider.routed <= now
      /\ provider.low <= now
  BY <1>1 DEF FastTypes, Behind
<1> DEFINE routed == IF provider.routing THEN now + 1 ELSE provider.routed
           low == IF ~provider.high THEN now + 1 ELSE provider.low
<1>3. /\ routed \in Int /\ low \in Int /\ routed >= provider.routed /\ low >= provider.low
      /\ routed <= now + 1 /\ low <= now + 1
  BY <1>1, <1>2
<1>4. provider' = [provider EXCEPT !.routed = routed, !.low = low]
  BY <1>1 DEF Tick, FastTypes
<1> HIDE DEF routed, low
<1>5. /\ provider' \in [routing : BOOLEAN, high : BOOLEAN, routed : Int, low : Int]
      /\ provider'.routed = routed /\ provider'.low = low
  BY <1>1, <1>3, <1>4 DEF FastTypes
<1>6. FastTypes'
  BY <1>1, <1>5 DEF FastTypes
<1>7. Locks'
  BY <1>1 DEF Locks, NothingLeft, Working, Reading, At
<1>8. Behind'
  BY <1>1, <1>3, <1>5 DEF Behind
<1>9. ASSUME NEW x \in Requests PROVE Knows(x)'
  <2>1. /\ req[x].read.from \in Int /\ req[x].read.age \in Int /\ Delay \in Nat
        /\ At(x)' = At(x) /\ Reading(x)' = Reading(x)
    BY <1>1, RequestIs DEF Reads, Measured, At, Reading
  <2>2. Reading(x) => req[x].read.from \in 0..(now + 1)
    BY <1>1, <2>1 DEF Knows
  <2>3. req[x].pc = "publish" => now + 1 <= req[x].read.from + Delay
    BY <1>1, <2>1 DEF Tick
  <2>4. req[x].pc = "publish" /\ lease = At(x) =>
          /\ routed >= req[x].read.from - req[x].read.age
          /\ ~req[x].read.high => low >= req[x].read.from - req[x].read.age
    BY <1>1, <1>2, <1>3, <2>1 DEF Knows
  <2>5. Reading(x) /\ lease = At(x) => ~req[x].read.tainted
    BY <1>1 DEF Knows
  <2> QED
    BY <1>1, <1>5, <2>1, <2>2, <2>3, <2>4, <2>5 DEF Knows
<1>10. Evident' /\ WithdrawnForGood'
  <2>1. evidence.routed \in Int /\ evidence.billed \in Int /\ Delay \in Nat
    BY <1>1 DEF FastTypes, Measured
  <2> QED
    BY <1>1, <1>2, <1>3, <1>5, <2>1 DEF Evident, WithdrawnForGood
<1> QED
  BY <1>1, <1>6, <1>7, <1>8, <1>9, <1>10, ToldSame DEF FastInductive

---------------------------------------------------------------------------
\* It holds when the service starts, with the credential just read.
LEMMA InitInductive == Measured /\ FastInit => FastInductive
<1> SUFFICES ASSUME Measured, FastInit PROVE FastInductive
  OBVIOUS
<1>1. NoRead \in Reads /\ NoAnswer \in Answers
  BY DEF NoRead, NoAnswer, Never, Reads, Answers
<1>2. /\ NoRequest \in Asking /\ NoRequest.pc = "probe" /\ NoRequest.lost = 0
      /\ NoRequest.got.how = "none"
  BY <1>1 DEF NoRequest, NoAnswer, Never, Asking
<1>3. /\ NoEvidence \in [of : Nat, routed : Int, billed : Int, high : BOOLEAN, tainted : BOOLEAN]
      /\ NoEvidence.of = 0 /\ ~NoEvidence.tainted
  BY DEF NoEvidence, Never
<1>4. /\ req \in [Requests -> Asking] /\ \A q \in Requests : req[q] = NoRequest
      /\ owner \in [Replicas -> Owners]
      /\ \A r \in Replicas : owner[r].by = Free /\ owner[r].rev = 1
      /\ row \in [rev : Nat \ {0}, state : {"live", "login", "removed"}, expiring : BOOLEAN]
      /\ row.rev = 1
      /\ provider \in [routing : BOOLEAN, high : BOOLEAN, routed : Int, low : Int]
      /\ provider.routed = 0 /\ provider.low = 0
  BY <1>2 DEF FastInit, Owners
<1>5. now = 0 /\ lease = Free /\ evidence = NoEvidence /\ bounds \in Meetings
  BY DEF FastInit, Measured
<1>6. FastTypes
  BY <1>3, <1>4, <1>5 DEF FastTypes
<1>7. Locks
  BY <1>2, <1>4, <1>5 DEF Locks, NothingLeft, Working
<1>8. Behind
  BY <1>2, <1>3, <1>4, <1>5 DEF Behind
<1>9. \A q \in Requests : Knows(q)
  BY <1>2, <1>4 DEF Knows, Reading
<1>10. Evident /\ WithdrawnForGood
  BY <1>3, <1>4, <1>5 DEF Evident, WithdrawnForGood
<1>11. Told
  BY <1>2, <1>4 DEF Told, Unanswered, FastTrue, AnswerCurrent, Served, ServedFast
<1> QED
  BY <1>6, <1>7, <1>8, <1>9, <1>10, <1>11 DEF FastInductive

\* Every step keeps it.
LEMMA NextInductive == Measured /\ FastInductive /\ [FastNext]_fastVars => FastInductive'
<1> SUFFICES ASSUME Measured, FastInductive, [FastNext]_fastVars PROVE FastInductive'
  OBVIOUS
<1>1. CASE UNCHANGED fastVars
  BY <1>1 DEF fastVars, FastInductive, FastTypes, Locks, NothingLeft, Behind, Knows, Evident,
     WithdrawnForGood, Told, Unanswered, FastTrue, AnswerCurrent, Served, ServedFast, Working,
     Reading, At
<1>2. CASE FastNext
  BY <1>2, ProbeKeeps, LockKeeps, ClaimKeeps, PollKeeps, ReadOkKeeps, ReadFailsKeeps,
     PublishKeeps, RecoverKeeps, AroundKeeps, TickKeeps DEF FastNext
<1> QED
  BY <1>1, <1>2

\* The inductive invariant holds in every reachable state.
THEOREM FastInvariant == ASSUME Measured PROVE FastSpec => []FastInductive
<1>1. FastInit => FastInductive
  BY InitInductive
<1>2. FastInductive /\ [FastNext]_fastVars => FastInductive'
  BY NextInductive
<1> QED
  BY <1>1, <1>2, PTL DEF FastSpec

\* What a token that was served without a lease claims was so not long ago, evidence of a
\* read that began before a withdrawal is never used, answers are no older than what was
\* waited for, and no lock is left behind (fast_token, wait_for_holder).
THEOREM FastHolds == ASSUME Measured PROVE FastSpec => []FastIInv
<1>1. FastInductive => FastIInv
  BY DEF FastInductive, FastIInv, FastTypeOK, FastTypes, Owners, Behind, Locks, Told
<1>2. FastSpec => []FastInductive
  BY FastInvariant
<1> QED
  BY <1>1, <1>2, PTL

---------------------------------------------------------------------------
(* IdentityAdmission. *)

\* Nobody stands for no account and no operation.
Apart == Nobody \notin Accounts \cup Ops

\* A claim is its kind and its login.
LEMMA ClaimIs ==
  ASSUME NEW c \in Claims, NEW d \in Claims, Kind(c) = Kind(d), c[2] = d[2] PROVE c = d
BY DEF Claims, Kind

\* What a credential of a login declares are claims of that login.
LEMMA DeclaredOwn ==
  ASSUME NEW p, NEW cs \in Declared(p), NEW c \in cs
  PROVE  c \in Kinds \X {p} /\ c[2] = p
BY DEF Declared

LEMMA DeclaredClaims ==
  ASSUME NEW p \in Logins, NEW cs \in Declared(p)
  PROVE  cs \in SUBSET Claims
BY DEF Declared, Claims

\* Recordable claims are the account's after they are recorded, and no others change.
LEMMA RecordingGives ==
  ASSUME Apart, AdmissionTypeOK, NEW a \in Accounts, NEW cs \in SUBSET Claims, Recordable(a, cs)
  PROVE  /\ Recording(a, cs) \in [Claims -> Accounts \cup {Nobody}]
         /\ \A c \in cs : ledger[c] \in {Nobody, a} /\ Recording(a, cs)[c] = a
         /\ \A c \in Claims \ cs : Recording(a, cs)[c] = ledger[c]
<1>1. \A c \in cs : ledger[c] \in {Nobody, a}
  BY DEF Recordable, Owned
<1> QED
  BY <1>1 DEF Recording, AdmissionTypeOK

\* A live account of a login that arriving claims of the same login can be told from owns
\* one of them.
LEMMA KnownOwns ==
  ASSUME AdmissionIInv, NEW p \in Logins, NEW cs \in Declared(p),
         NEW b \in Accounts, accounts[b].of = p, Apart,
         KindsOf(Recorded(b)) \cap KindsOf(cs) # {}
  PROVE  \E c \in cs : ledger[c] = b
<1>1. PICK c \in cs, d \in Recorded(b) : Kind(c) = Kind(d)
  BY DEF KindsOf
<1>2. d \in Claims /\ ledger[d] = b
  BY DEF Recorded
<1>3. d[2] = p
  BY <1>2 DEF AdmissionIInv, LedgerTrue, Apart
<1>4. c \in Claims /\ c[2] = p
  BY DeclaredOwn, DeclaredClaims
<1>5. c = d
  BY <1>1, <1>2, <1>3, <1>4, ClaimIs
<1> QED
  BY <1>2, <1>5

\* A reserved claim of a live account's login is reserved for that account.
LEMMA HeldForLive ==
  ASSUME AdmissionIInv, NEW a \in Accounts, Live(a), NEW c \in Claims,
         c[2] = accounts[a].of, held[c] # Nobody
  PROVE  ops[held[c]].account = a
BY DEF AdmissionIInv, ReservedForOwner, OneAccountPerLogin

\* A valid candidate is of its account's login.
LEMMA ValidOwn ==
  ASSUME Apart, AdmissionIInv, NEW o \in Ops, ops[o].account \in Accounts, Valid(o)
  PROVE  accounts[ops[o].account].of = ops[o].of /\ Live(ops[o].account)
<1> DEFINE a == ops[o].account
<1>1. PICK c \in ops[o].claims : c \in accounts[a].claims \cup Recorded(a)
  BY DEF Valid, Same
<1>2. ops[o].claims \in Declared(ops[o].of) /\ accounts[a].claims \in Declared(accounts[a].of)
  BY DEF AdmissionIInv, OwnClaims
<1>3. c[2] = ops[o].of
  BY <1>1, <1>2, DeclaredOwn
<1>4. CASE c \in accounts[a].claims
  BY <1>2, <1>3, <1>4, DeclaredOwn DEF Valid
<1>5. CASE c \in Recorded(a)
  <2>1. c \in Claims /\ ledger[c] = a
    BY <1>5 DEF Recorded
  <2>2. accounts[a].of = c[2]
    BY <2>1 DEF AdmissionIInv, LedgerTrue, Apart
  <2> QED
    BY <1>3, <2>2 DEF Valid
<1> QED
  BY <1>1, <1>4, <1>5

---------------------------------------------------------------------------
\* An account that learns claims of its login keeps the ledger true.
LEMMA LearnLedger ==
  ASSUME Apart, AdmissionIInv, NEW a \in Accounts, NEW p \in Logins, NEW cs \in Declared(p),
         Recordable(a, cs), ledger' = Recording(a, cs),
         \A b \in Accounts \ {a} : accounts'[b] = accounts[b],
         accounts'[a].state = "live", accounts'[a].of = p,
         \A c \in accounts'[a].claims : c \in Claims /\ (c \in cs \/ ledger[c] = a),
         accounts[a].state = "none" \/ accounts[a].of = p
  PROVE  LedgerTrue'
<1>1. cs \in SUBSET Claims /\ AdmissionTypeOK /\ LedgerTrue
  BY DeclaredClaims DEF AdmissionIInv
<1>2. /\ \A c \in cs : ledger[c] \in {Nobody, a} /\ ledger'[c] = a
      /\ \A c \in Claims \ cs : ledger'[c] = ledger[c]
  BY <1>1, RecordingGives
<1>3. ASSUME NEW b \in Accounts, Live(b)', NEW c \in accounts'[b].claims
      PROVE  c \in Recorded(b)'
  <2>1. CASE b = a
    BY <1>2, <1>3, <2>1 DEF Recorded
  <2>2. CASE b # a
    <3>1. c \in Claims /\ ledger[c] = b
      BY <1>1, <1>3, <2>2 DEF LedgerTrue, Live, Recorded
    <3>2. c \notin cs
      BY <1>2, <2>2, <3>1 DEF Apart
    <3> QED
      BY <1>2, <3>1, <3>2 DEF Recorded
  <2> QED
    BY <2>1, <2>2
<1>4. ASSUME NEW c \in Claims, ledger'[c] # Nobody
      PROVE  accounts'[ledger'[c]].state # "none" /\ accounts'[ledger'[c]].of = c[2]
  <2>1. CASE c \in cs
    BY <1>2, <2>1, DeclaredOwn
  <2>2. CASE c \notin cs
    <3>1. ledger'[c] = ledger[c] /\ ledger[c] \in Accounts
      BY <1>1, <1>2, <1>4, <2>2 DEF AdmissionTypeOK
    <3>2. accounts[ledger[c]].state # "none" /\ accounts[ledger[c]].of = c[2]
      BY <1>1, <1>4, <3>1 DEF LedgerTrue
    <3> QED
      BY <3>1, <3>2
  <2> QED
    BY <2>1, <2>2
<1> QED
  BY <1>3, <1>4 DEF LedgerTrue

\* An account that learns claims of its login keeps the reservations true, when a claim
\* stays reserved as it was, or is reserved for this account.
LEMMA LearnReserved ==
  ASSUME Apart, AdmissionIInv, NEW a \in Accounts, NEW p \in Logins, NEW cs \in Declared(p),
         Recordable(a, cs), ledger' = Recording(a, cs),
         \A b \in Accounts \ {a} : accounts'[b] = accounts[b],
         accounts'[a].state = "live", accounts'[a].of = p,
         accounts[a].state = "none" \/ accounts[a].of = p,
         \A c \in Claims : held'[c] # Nobody =>
           \/ /\ held'[c] = held[c] /\ ops'[held[c]] = ops[held[c]]
              /\ c \in cs => ops[held[c]].account = a
           \/ /\ c \in cs /\ ops'[held'[c]].phase = "candidate"
              /\ ops'[held'[c]].account = a /\ ops'[held'[c]].of = p
  PROVE  ReservedForOwner'
<1>1. cs \in SUBSET Claims /\ AdmissionTypeOK
  BY DeclaredClaims DEF AdmissionIInv
<1>2. /\ \A c \in cs : ledger[c] \in {Nobody, a} /\ ledger'[c] = a
      /\ \A c \in Claims \ cs : ledger'[c] = ledger[c]
  BY <1>1, RecordingGives
<1>3. ASSUME NEW c \in Claims, held'[c] # Nobody
      PROVE  LET o == ops'[held'[c]]
             IN /\ o.phase \in {"candidate", "reserved", "verifying", "unresolved", "rejected"}
                /\ o.account \in Accounts /\ accounts'[o.account].state = "live"
                /\ o.of = c[2] /\ accounts'[o.account].of = c[2]
                /\ ledger'[c] \in {Nobody, o.account}
  <2>1. CASE /\ c \in cs /\ ops'[held'[c]].phase = "candidate"
             /\ ops'[held'[c]].account = a /\ ops'[held'[c]].of = p
    BY <1>2, <2>1, DeclaredOwn
  <2>2. CASE /\ held'[c] = held[c] /\ ops'[held[c]] = ops[held[c]]
             /\ c \in cs => ops[held[c]].account = a
    <3>1. LET o == ops[held[c]]
          IN /\ o.phase \in {"candidate", "reserved", "verifying", "unresolved", "rejected"}
             /\ o.account \in Accounts /\ accounts[o.account].state = "live"
             /\ o.of = c[2] /\ accounts[o.account].of = c[2]
             /\ ledger[c] \in {Nobody, o.account}
      BY <1>3, <2>2 DEF AdmissionIInv, ReservedForOwner, Live
    <3>2. CASE c \in cs
      BY <1>2, <2>2, <3>1, <3>2
    <3>3. CASE c \notin cs
      BY <1>2, <2>2, <3>1, <3>3
    <3> QED
      BY <3>2, <3>3
  <2> QED
    BY <1>3, <2>1, <2>2
<1> QED
  BY <1>3 DEF ReservedForOwner, Live

\* A live account's credential that is replaced keeps its other fields.
LEMMA Republished ==
  ASSUME AdmissionTypeOK, NEW a \in Accounts, NEW cs, Live(a),
         accounts' = [accounts EXCEPT ![a].claims = cs]
  PROVE  accounts' = [accounts EXCEPT ![a] =
                        [state |-> "live", of |-> accounts[a].of, claims |-> cs]]
<1>1. accounts[a] \in Credentials
  BY DEF AdmissionTypeOK
<1>2. [accounts[a] EXCEPT !.claims = cs] = [state |-> "live", of |-> accounts[a].of, claims |-> cs]
  BY <1>1 DEF Credentials, Live
<1>3. accounts' = [accounts EXCEPT ![a] = [accounts[a] EXCEPT !.claims = cs]]
  OBVIOUS
<1> QED
  BY <1>2, <1>3

---------------------------------------------------------------------------
\* Nothing is there at first.
LEMMA AdmissionInitIInv == ASSUME Apart, AdmissionInit PROVE AdmissionIInv
<1> USE DEF AdmissionInit
<1>1. NoCredential \in Credentials /\ NoOp \in Operations
  BY DEF NoCredential, Credentials, NoOp, Operations, Terminal
<1>2. AdmissionTypeOK
  BY <1>1 DEF AdmissionTypeOK
<1>3. /\ \A a \in Accounts : accounts[a] = NoCredential
      /\ \A o \in Ops : ops[o] = NoOp
      /\ \A c \in Claims : ledger[c] = Nobody /\ held[c] = Nobody
  OBVIOUS
<1>4. OwnClaims /\ OneAccountPerLogin /\ LedgerTrue
  BY <1>3 DEF OwnClaims, OneAccountPerLogin, LedgerTrue, Live, NoCredential, NoOp, Declared
<1>5. ReservedForOwner /\ VerifiedForOwner
  BY <1>3 DEF ReservedForOwner, VerifiedForOwner, NoOp
<1> QED
  BY <1>2, <1>4, <1>5 DEF AdmissionIInv

\* A checked import only joins the imports.
LEMMA CheckImportIInv ==
  ASSUME AdmissionIInv, NEW a \in Accounts, NEW p \in Logins, NEW cs \in Declared(p),
         CheckImport(a, p, cs)
  PROVE  AdmissionIInv'
<1> USE DEF CheckImport
<1> DEFINE i == [account |-> a, of |-> p, claims |-> cs]
<1>1. i \in Arriving /\ i.claims \in Declared(i.of)
  BY DeclaredClaims DEF Arriving
<1>2. AdmissionTypeOK'
  BY <1>1 DEF AdmissionIInv, AdmissionTypeOK
<1>3. OwnClaims'
  BY <1>1 DEF AdmissionIInv, OwnClaims, Live
<1>4. OneAccountPerLogin' /\ LedgerTrue' /\ ReservedForOwner' /\ VerifiedForOwner'
  BY DEF AdmissionIInv, OneAccountPerLogin, LedgerTrue, ReservedForOwner, VerifiedForOwner,
     Live, Recorded
<1> QED
  BY <1>2, <1>3, <1>4 DEF AdmissionIInv

\* An account that becomes live, or learns, keeps everything said of the accounts: what
\* SaveImport, AdmitAdd, Refresh and Complete have in common.
LEMMA LearnAccounts ==
  ASSUME Apart, AdmissionIInv, NEW a \in Accounts, NEW p \in Logins, NEW cs \in Declared(p),
         (Live(a) /\ accounts[a].of = p)
           \/ \A b \in Accounts \ {a} : Live(b) => accounts[b].of # p,
         accounts' = [accounts EXCEPT ![a] = [state |-> "live", of |-> p, claims |-> cs]]
  PROVE  /\ accounts' \in [Accounts -> Credentials]
         /\ \A b \in Accounts : /\ accounts'[b].claims \in Declared(accounts'[b].of)
                                /\ Live(b)' => accounts'[b].of \in Logins
         /\ OneAccountPerLogin'
<1>1. accounts \in [Accounts -> Credentials]
  BY DEF AdmissionIInv, AdmissionTypeOK
<1>2. [state |-> "live", of |-> p, claims |-> cs] \in Credentials
  BY DeclaredClaims DEF Credentials
<1>3. /\ accounts'[a] = [state |-> "live", of |-> p, claims |-> cs]
      /\ \A b \in Accounts \ {a} : accounts'[b] = accounts[b]
  BY <1>1
<1>4. \A b \in Accounts : /\ accounts'[b].claims \in Declared(accounts'[b].of)
                          /\ Live(b)' => accounts'[b].of \in Logins
  BY <1>3 DEF AdmissionIInv, OwnClaims, Live
<1>5. \A b \in Accounts \ {a} : Live(b) => accounts[b].of # p
  BY DEF AdmissionIInv, OneAccountPerLogin
<1>6. OneAccountPerLogin'
  BY <1>3, <1>5 DEF AdmissionIInv, OneAccountPerLogin, Live
<1> QED
  BY <1>1, <1>2, <1>4, <1>6

---------------------------------------------------------------------------
\* An import that passes its second check becomes a live account of a login no other
\* live account has.
LEMMA SaveImportIInv ==
  ASSUME Apart, AdmissionIInv, NEW i \in imports, SaveImport(i)
  PROVE  AdmissionIInv'
<1> DEFINE a == i.account
           p == i.of
           cs == i.claims
<1>1. /\ a \in Accounts /\ p \in Logins /\ cs \in Declared(p) /\ imports' \subseteq imports
      /\ AdmissionTypeOK /\ OwnClaims
  BY DEF AdmissionIInv, AdmissionTypeOK, OwnClaims, Arriving, SaveImport
<1>2. CASE ~(accounts[a].state = "none" /\ Saved(i))
  <2>1. UNCHANGED <<accounts, ledger, held, ops>>
    BY <1>2 DEF SaveImport
  <2> QED
    BY <1>1, <2>1 DEF AdmissionIInv, AdmissionTypeOK, OwnClaims, OneAccountPerLogin, LedgerTrue,
       ReservedForOwner, VerifiedForOwner, Live, Recorded
<1>3. CASE accounts[a].state = "none" /\ Saved(i)
  <2>1. /\ accounts' = [accounts EXCEPT ![a] = [state |-> "live", of |-> p, claims |-> cs]]
        /\ ledger' = Recording(a, cs) /\ held' = held /\ ops' = ops
    BY <1>3 DEF SaveImport
  <2>2. Admissible(a, cs) /\ Recordable(a, cs) /\ ~Live(a)
    BY <1>3 DEF Saved, Live
  <2>3. ASSUME NEW b \in Accounts \ {a}, Live(b), accounts[b].of = p PROVE FALSE
    <3>1. KindsOf(Recorded(b)) \cap KindsOf(cs) # {}
      BY <2>2, <2>3 DEF Admissible, Unknown
    <3>2. PICK c \in cs : ledger[c] = b
      BY <1>1, <2>3, <3>1, KnownOwns
    <3>3. ledger[c] \in {Nobody, a}
      BY <2>2, <3>2 DEF Admissible, Owned
    <3> QED
      BY <2>3, <3>2, <3>3 DEF Apart
  <2>4. /\ accounts' \in [Accounts -> Credentials] /\ OneAccountPerLogin'
        /\ \A b \in Accounts : /\ accounts'[b].claims \in Declared(accounts'[b].of)
                               /\ Live(b)' => accounts'[b].of \in Logins
    BY <1>1, <2>1, <2>3, LearnAccounts
  <2>5. ledger' \in [Claims -> Accounts \cup {Nobody}] /\ cs \in SUBSET Claims
    BY <1>1, <2>1, <2>2, DeclaredClaims, RecordingGives
  <2>6. /\ accounts'[a].state = "live" /\ accounts'[a].of = p /\ accounts'[a].claims = cs
        /\ \A b \in Accounts \ {a} : accounts'[b] = accounts[b]
    BY <1>1, <2>1 DEF AdmissionTypeOK
  <2>7. LedgerTrue'
    BY <1>1, <1>3, <2>1, <2>2, <2>5, <2>6, LearnLedger
  <2>8. \A c \in cs : held[c] # Nobody => ops[held[c]].account = a
    BY <2>2 DEF Admissible, Reserved
  <2>9. ReservedForOwner'
    BY <1>1, <1>3, <2>1, <2>2, <2>6, <2>8, LearnReserved
  <2>10. VerifiedForOwner'
    BY <1>3, <2>1, <2>6 DEF AdmissionIInv, VerifiedForOwner
  <2> QED
    BY <1>1, <2>1, <2>4, <2>5, <2>7, <2>9, <2>10 DEF AdmissionIInv, AdmissionTypeOK, OwnClaims
<1> QED
  BY <1>2, <1>3

\* A refreshed credential learns claims of the login its account has.
LEMMA RefreshIInv ==
  ASSUME Apart, AdmissionIInv, NEW a \in Accounts, NEW cs \in Declared(accounts[a].of),
         Refresh(a, cs)
  PROVE  AdmissionIInv'
<1> DEFINE p == accounts[a].of
<1>1. /\ p \in Logins /\ Live(a) /\ Recordable(a, cs) /\ ledger' = Recording(a, cs)
      /\ held' = held /\ ops' = ops /\ imports' = imports
      /\ AdmissionTypeOK /\ OwnClaims
  BY DEF Refresh, AdmissionIInv, OwnClaims
<1>2. /\ accounts' = [accounts EXCEPT ![a] = [state |-> "live", of |-> p, claims |-> cs]]
      /\ accounts'[a].state = "live" /\ accounts'[a].of = p /\ accounts'[a].claims = cs
      /\ \A b \in Accounts \ {a} : accounts'[b] = accounts[b]
  <2>1. accounts' = [accounts EXCEPT ![a] = [state |-> "live", of |-> p, claims |-> cs]]
    BY <1>1, Republished DEF Refresh
  <2> QED
    BY <1>1, <2>1 DEF AdmissionTypeOK
<1>3. /\ accounts' \in [Accounts -> Credentials] /\ OneAccountPerLogin'
      /\ \A b \in Accounts : /\ accounts'[b].claims \in Declared(accounts'[b].of)
                             /\ Live(b)' => accounts'[b].of \in Logins
  BY <1>1, <1>2, LearnAccounts
<1>4. ledger' \in [Claims -> Accounts \cup {Nobody}] /\ cs \in SUBSET Claims
  BY <1>1, DeclaredClaims, RecordingGives
<1>5. LedgerTrue'
  BY <1>1, <1>2, <1>4, LearnLedger
<1>6. \A c \in cs : held[c] # Nobody => ops[held[c]].account = a
  BY <1>1, <1>4, DeclaredOwn, HeldForLive
<1>7. ReservedForOwner'
  BY <1>1, <1>2, <1>6, LearnReserved
<1>8. VerifiedForOwner'
  BY <1>1, <1>2 DEF AdmissionIInv, VerifiedForOwner, Live
<1> QED
  BY <1>1, <1>3, <1>4, <1>5, <1>7, <1>8 DEF AdmissionIInv, AdmissionTypeOK, OwnClaims

\* An account that operations reserve claims for is not removed.
LEMMA RemoveIInv ==
  ASSUME Apart, AdmissionIInv, NEW a \in Accounts, Remove(a)
  PROVE  AdmissionIInv'
<1>1. /\ \A o \in Ops : ~Fencing(o, a)
      /\ ledger' = ledger /\ held' = held /\ ops' = ops /\ imports' = imports
      /\ AdmissionTypeOK /\ OwnClaims
  BY DEF Remove, AdmissionIInv
<1>2. /\ accounts' \in [Accounts -> Credentials]
      /\ accounts'[a].state = "removed" /\ ~Live(a)'
      /\ accounts'[a].of = accounts[a].of /\ accounts'[a].claims = accounts[a].claims
      /\ \A b \in Accounts \ {a} : accounts'[b] = accounts[b]
  BY DEF Remove, AdmissionIInv, AdmissionTypeOK, Credentials, Live
<1>3. AdmissionTypeOK' /\ OwnClaims'
  BY <1>1, <1>2 DEF AdmissionTypeOK, OwnClaims, Live
<1>4. OneAccountPerLogin' /\ LedgerTrue' /\ VerifiedForOwner'
  BY <1>1, <1>2 DEF AdmissionIInv, AdmissionTypeOK, OneAccountPerLogin, LedgerTrue,
     VerifiedForOwner, Live, Recorded
<1>5. ASSUME NEW c \in Claims, held[c] # Nobody
      PROVE  ops[held[c]].account # a
  BY <1>1, <1>5 DEF AdmissionIInv, AdmissionTypeOK, ReservedForOwner, Fencing
<1>6. ReservedForOwner'
  BY <1>1, <1>2, <1>5 DEF AdmissionIInv, ReservedForOwner, Live
<1> QED
  BY <1>3, <1>4, <1>6 DEF AdmissionIInv

---------------------------------------------------------------------------
\* An operation that is idle has reserved nothing yet.
LEMMA ArriveIInv ==
  ASSUME AdmissionIInv, NEW o \in Ops, NEW a \in Accounts, NEW p \in Logins,
         NEW cs \in Declared(p), Arrive(o, a, p, cs)
  PROVE  AdmissionIInv'
<1>1. /\ UNCHANGED <<accounts, ledger, held, imports>> /\ ops[o].phase = "idle"
      /\ AdmissionTypeOK /\ cs \in SUBSET Claims
  BY DeclaredClaims DEF Arrive, AdmissionIInv
<1>2. PICK kind \in {"add", "renewal"} : ops' = [ops EXCEPT ![o] =
        [phase |-> "candidate", kind |-> kind, alias |-> a, of |-> p, claims |-> cs,
         account |-> IF kind = "renewal" THEN a ELSE Nobody, evidence |-> {}]]
  BY DEF Arrive
<1>3. [phase |-> "candidate", kind |-> kind, alias |-> a, of |-> p, claims |-> cs,
       account |-> IF kind = "renewal" THEN a ELSE Nobody, evidence |-> {}] \in Operations
  BY <1>1 DEF Operations
<1>4. AdmissionTypeOK'
  BY <1>1, <1>2, <1>3 DEF AdmissionTypeOK
<1>5. /\ ops'[o].phase = "candidate" /\ ops'[o].of = p /\ ops'[o].claims = cs
      /\ ops'[o].alias = a /\ (ops'[o].kind = "renewal" => ops'[o].account = a)
      /\ \A q \in Ops \ {o} : ops'[q] = ops[q]
  BY <1>1, <1>2 DEF AdmissionTypeOK
<1>6. OwnClaims' /\ VerifiedForOwner'
  BY <1>1, <1>5 DEF AdmissionIInv, OwnClaims, VerifiedForOwner, Live
<1>7. OneAccountPerLogin' /\ LedgerTrue'
  BY <1>1 DEF AdmissionIInv, OneAccountPerLogin, LedgerTrue, Live, Recorded
<1>8. \A c \in Claims : held[c] # Nobody => held[c] # o
  BY <1>1 DEF AdmissionIInv, ReservedForOwner
<1>9. ReservedForOwner'
  BY <1>1, <1>5, <1>8 DEF AdmissionIInv, AdmissionTypeOK, ReservedForOwner, Live
<1> QED
  BY <1>4, <1>6, <1>7, <1>9 DEF AdmissionIInv

\* An operation that goes to a phase keeps its account and its candidate.
LEMMA ToGives ==
  ASSUME AdmissionTypeOK, NEW o \in Ops, NEW phase \in {"reserved", "unresolved", "rejected"},
         ops' = To(o, phase)
  PROVE  /\ ops' \in [Ops -> Operations]
         /\ ops'[o].phase = phase /\ ops'[o].of = ops[o].of /\ ops'[o].claims = ops[o].claims
         /\ ops'[o].account = ops[o].account
         /\ \A q \in Ops \ {o} : ops'[q] = ops[q]
<1>1. ops[o] \in Operations
  BY DEF AdmissionTypeOK
<1>2. ops' = [ops EXCEPT ![o] = [ops[o] EXCEPT !.phase = phase, !.evidence = {}]]
  BY DEF To, AdmissionTypeOK
<1>3. [ops[o] EXCEPT !.phase = phase, !.evidence = {}] \in Operations
  BY <1>1 DEF Operations, Terminal
<1> QED
  BY <1>1, <1>2, <1>3 DEF AdmissionTypeOK, Operations

\* An operation that only changes its phase, and forgets what it read.
LEMMA PhaseIInv ==
  ASSUME AdmissionIInv, NEW o \in Ops,
         NEW phase \in {"unresolved", "rejected"},
         ops' = To(o, phase), UNCHANGED <<accounts, ledger, held, imports>>
  PROVE  AdmissionIInv'
<1>1. AdmissionTypeOK
  BY DEF AdmissionIInv
<1>2. /\ ops' \in [Ops -> Operations]
      /\ ops'[o].phase = phase /\ ops'[o].of = ops[o].of /\ ops'[o].claims = ops[o].claims
      /\ ops'[o].account = ops[o].account
      /\ \A q \in Ops \ {o} : ops'[q] = ops[q]
  BY <1>1, ToGives
<1>3. AdmissionTypeOK'
  BY <1>1, <1>2 DEF AdmissionTypeOK
<1>4. OwnClaims' /\ VerifiedForOwner'
  BY <1>2 DEF AdmissionIInv, OwnClaims, VerifiedForOwner, Live
<1>5. OneAccountPerLogin' /\ LedgerTrue'
  BY DEF AdmissionIInv, OneAccountPerLogin, LedgerTrue, Live, Recorded
<1>6. ReservedForOwner'
  BY <1>1, <1>2 DEF AdmissionIInv, AdmissionTypeOK, ReservedForOwner, Live
<1> QED
  BY <1>3, <1>4, <1>5, <1>6 DEF AdmissionIInv

\* An operation that ends has no claims, and had reserved none.
LEMMA FailIInv ==
  ASSUME AdmissionIInv, NEW o \in Ops, ops[o].account \notin Accounts,
         ops' = [ops EXCEPT ![o] = Done("failed")], UNCHANGED <<accounts, ledger, held, imports>>
  PROVE  AdmissionIInv'
<1>1. AdmissionTypeOK /\ Done("failed") \in Operations
  BY DEF AdmissionIInv, Done, NoOp, Operations, Terminal
<1>2. /\ ops' \in [Ops -> Operations]
      /\ ops'[o].phase = "failed" /\ ops'[o].claims = {}
      /\ \A q \in Ops \ {o} : ops'[q] = ops[q]
  BY <1>1 DEF AdmissionTypeOK, Done, NoOp
<1>3. AdmissionTypeOK'
  BY <1>1, <1>2 DEF AdmissionTypeOK
<1>4. OwnClaims' /\ VerifiedForOwner'
  BY <1>2 DEF AdmissionIInv, OwnClaims, VerifiedForOwner, Live, Declared
<1>5. OneAccountPerLogin' /\ LedgerTrue'
  BY DEF AdmissionIInv, OneAccountPerLogin, LedgerTrue, Live, Recorded
<1>6. \A c \in Claims : held[c] # Nobody => held[c] # o
  BY DEF AdmissionIInv, ReservedForOwner
<1>7. ReservedForOwner'
  BY <1>1, <1>2, <1>6 DEF AdmissionIInv, AdmissionTypeOK, ReservedForOwner, Live
<1> QED
  BY <1>3, <1>4, <1>5, <1>7 DEF AdmissionIInv

\* A refused Add keeps its candidate as a quarantine, or drops it.
LEMMA RefuseAddIInv ==
  ASSUME Apart, AdmissionIInv, NEW o \in Ops, RefuseAdd(o)
  PROVE  AdmissionIInv'
<1>1. ops[o].account \notin Accounts /\ UNCHANGED <<accounts, ledger, held, imports>>
  BY DEF RefuseAdd, Unadmitted, Apart
<1>2. ops' = To(o, "rejected") \/ ops' = [ops EXCEPT ![o] = Done("failed")]
  BY DEF RefuseAdd
<1> QED
  BY <1>1, <1>2, PhaseIInv, FailIInv

\* An unpublished operation keeps what it reserved.
LEMMA EndUnpublishedIInv ==
  ASSUME AdmissionIInv, NEW o \in Ops, EndUnpublished(o)
  PROVE  AdmissionIInv'
BY PhaseIInv DEF EndUnpublished

\* What is left when every check of an Add's admission passes.
LEMMA AdmissionReady ==
  ASSUME NEW o, Admission(o) = "ready"
  PROVE  LET cs == ops[o].claims
             found == Holders(cs)
         IN /\ ~Unknown(Nobody, cs)
            /\ found = {} => \A c \in cs : held[c] \in {Nobody, o}
            /\ found = {} => accounts[ops[o].alias].state = "none"
            /\ \A a \in (IF found = {} THEN {ops[o].alias} ELSE found) : Recordable(a, cs)
BY DEF Admission

\* The account an Add is admitted for: a new row of a login no live account has, or the
\* live account that owns one of its claims.
LEMMA AdmittedFor ==
  ASSUME Apart, AdmissionIInv, NEW o \in Ops, Unadmitted(o), Admission(o) = "ready"
  PROVE  LET a == Admitted(o)
             p == ops[o].of
             cs == ops[o].claims
         IN /\ a \in Accounts /\ p \in Logins /\ cs \in Declared(p) /\ Recordable(a, cs)
            /\ \/ Live(a) /\ accounts[a].of = p
               \/ /\ accounts[a].state = "none"
                  /\ \A b \in Accounts \ {a} : Live(b) => accounts[b].of # p
            /\ \A c \in cs : held[c] # Nobody => held[c] # o /\ ops[held[c]].account = a
<1> DEFINE a == Admitted(o)
           p == ops[o].of
           cs == ops[o].claims
           found == Holders(cs)
<1>1. /\ p \in Logins /\ cs \in Declared(p) /\ cs \in SUBSET Claims
      /\ ops[o].alias \in Accounts /\ ops[o].account = Nobody
  BY DeclaredClaims DEF AdmissionIInv, OwnClaims, VerifiedForOwner, Unadmitted
<1>2. \A c \in cs : held[c] # o \/ o = Nobody
  BY <1>1 DEF AdmissionIInv, ReservedForOwner, Apart
<1>3. o # Nobody
  BY DEF Apart
<1>4. CASE found = {}
  <2>1. /\ a = ops[o].alias /\ a \in Accounts /\ accounts[a].state = "none"
        /\ Recordable(a, cs)
        /\ \A c \in cs : held[c] \in {Nobody, o}
    BY <1>1, <1>4, AdmissionReady DEF Admitted
  <2>2. ASSUME NEW b \in Accounts, Live(b), accounts[b].of = p PROVE FALSE
    <3>1. KindsOf(Recorded(b)) \cap KindsOf(cs) # {}
      BY <2>2, AdmissionReady DEF Unknown, Apart
    <3>2. PICK c \in cs : ledger[c] = b
      BY <1>1, <2>2, <3>1, KnownOwns
    <3> QED
      BY <1>4, <2>2, <3>2 DEF Holders
  <2> QED
    BY <1>1, <1>2, <1>3, <2>1, <2>2
<1>5. CASE found # {}
  <2>1. a \in found /\ Recordable(a, cs)
    BY <1>5, AdmissionReady DEF Admitted
  <2>2. a \in Accounts /\ Live(a) /\ \E c \in cs : ledger[c] = a
    BY <2>1 DEF Holders
  <2>3. accounts[a].of = p
    <3>1. PICK c \in cs : ledger[c] = a
      BY <2>2
    <3>2. c \in Claims /\ c[2] = p
      BY <1>1, DeclaredOwn
    <3> QED
      BY <2>2, <3>1, <3>2 DEF AdmissionIInv, LedgerTrue, Apart
  <2>4. \A c \in cs : held[c] # Nobody => ops[held[c]].account = a
    BY <1>1, <2>2, <2>3, DeclaredOwn, HeldForLive
  <2> QED
    BY <1>1, <1>2, <1>3, <2>1, <2>2, <2>3, <2>4
<1> QED
  BY <1>4, <1>5

\* An admitted Add has an account of its login, which learns and reserves its claims.
LEMMA AdmitAddIInv ==
  ASSUME Apart, AdmissionIInv, NEW o \in Ops, AdmitAdd(o)
  PROVE  AdmissionIInv'
<1> DEFINE a == Admitted(o)
           p == ops[o].of
           cs == ops[o].claims
<1>1. /\ Unadmitted(o) /\ Admission(o) = "ready" /\ imports' = imports
      /\ accounts' = (IF Live(a) THEN accounts
                      ELSE [accounts EXCEPT ![a] = [state |-> "live", of |-> p, claims |-> cs]])
      /\ ledger' = Recording(a, cs) /\ held' = Reserving(o, cs)
      /\ ops' = [ops EXCEPT ![o].account = a]
  BY DEF AdmitAdd
<1>2. /\ a \in Accounts /\ p \in Logins /\ cs \in Declared(p) /\ Recordable(a, cs)
      /\ cs \in SUBSET Claims /\ AdmissionTypeOK /\ OwnClaims
      /\ \A c \in cs : held[c] # Nobody => held[c] # o /\ ops[held[c]].account = a
      /\ ops[o].phase = "candidate" /\ ops[o].kind = "add"
  BY <1>1, AdmittedFor, DeclaredClaims DEF AdmissionIInv, Unadmitted
<1>3. \/ Live(a) /\ accounts[a].of = p
      \/ accounts[a].state = "none" /\ \A b \in Accounts \ {a} : Live(b) => accounts[b].of # p
  BY <1>1, AdmittedFor
<1>4. /\ accounts' \in [Accounts -> Credentials] /\ OneAccountPerLogin'
      /\ \A b \in Accounts : /\ accounts'[b].claims \in Declared(accounts'[b].of)
                             /\ Live(b)' => accounts'[b].of \in Logins
      /\ accounts'[a].state = "live" /\ accounts'[a].of = p
      /\ \A b \in Accounts \ {a} : accounts'[b] = accounts[b]
      /\ \A c \in accounts'[a].claims : c \in Claims /\ (c \in cs \/ ledger[c] = a)
  <2>1. CASE Live(a)
    BY <1>1, <1>2, <1>3, <2>1 DEF AdmissionIInv, AdmissionTypeOK, OwnClaims, OneAccountPerLogin,
       LedgerTrue, Recorded, Live
  <2>2. CASE ~Live(a)
    <3>1. /\ accounts' = [accounts EXCEPT ![a] = [state |-> "live", of |-> p, claims |-> cs]]
          /\ \A b \in Accounts \ {a} : Live(b) => accounts[b].of # p
      BY <1>1, <1>3, <2>2
    <3>2. /\ accounts' \in [Accounts -> Credentials] /\ OneAccountPerLogin'
          /\ \A b \in Accounts : /\ accounts'[b].claims \in Declared(accounts'[b].of)
                                 /\ Live(b)' => accounts'[b].of \in Logins
      BY <1>2, <3>1, LearnAccounts
    <3> QED
      BY <1>2, <3>1, <3>2 DEF AdmissionTypeOK
  <2> QED
    BY <2>1, <2>2
<1>5. ledger' \in [Claims -> Accounts \cup {Nobody}]
  BY <1>1, <1>2, RecordingGives
<1>6. LedgerTrue'
  BY <1>1, <1>2, <1>3, <1>4, LearnLedger
<1>7. /\ ops' \in [Ops -> Operations] /\ \A q \in Ops \ {o} : ops'[q] = ops[q]
      /\ ops'[o].phase = "candidate" /\ ops'[o].kind = "add" /\ ops'[o].account = a
      /\ ops'[o].of = p /\ ops'[o].claims = cs /\ ops'[o].alias = ops[o].alias
  BY <1>1, <1>2 DEF AdmissionTypeOK, Operations
<1>8. /\ held' \in [Claims -> Ops \cup {Nobody}]
      /\ \A c \in Claims : held'[c] = held[c] \/ (c \in cs /\ held'[c] = o)
      /\ \A c \in Claims : held[c] \in Ops \cup {Nobody}
  BY <1>1, <1>2 DEF Reserving, AdmissionTypeOK
<1>9. \A c \in Claims : held[c] # o
  BY <1>1 DEF AdmissionIInv, ReservedForOwner, Unadmitted, Apart
<1>10. ASSUME NEW c \in Claims, held'[c] # Nobody
       PROVE  \/ /\ held'[c] = held[c] /\ ops'[held[c]] = ops[held[c]]
                 /\ c \in cs => ops[held[c]].account = a
              \/ /\ c \in cs /\ ops'[held'[c]].phase = "candidate"
                 /\ ops'[held'[c]].account = a /\ ops'[held'[c]].of = p
  BY <1>2, <1>7, <1>8, <1>9, <1>10
<1>11. ReservedForOwner'
  <2>1. accounts[a].state = "none" \/ accounts[a].of = p
    BY <1>3
  <2>2. ledger' = Recording(a, cs)
    BY <1>1
  <2> HIDE DEF a, p, cs
  <2> QED
    BY <1>2, <1>4, <1>10, <2>1, <2>2, LearnReserved
<1>12. VerifiedForOwner' /\ OwnClaims'
  BY <1>1, <1>2, <1>3, <1>4, <1>7 DEF AdmissionIInv, OwnClaims, VerifiedForOwner, Live
<1> QED
  BY <1>1, <1>2, <1>4, <1>5, <1>6, <1>7, <1>8, <1>11, <1>12 DEF AdmissionIInv, AdmissionTypeOK

\* A valid renewal reserves claims of its account's login that no other account owns.
LEMMA ReserveRenewalIInv ==
  ASSUME Apart, AdmissionIInv, NEW o \in Ops, ReserveRenewal(o)
  PROVE  AdmissionIInv'
<1> DEFINE a == ops[o].account
           cs == ops[o].claims
<1>1. CASE ~(Valid(o) /\ ~Owned(a, cs) /\ Reservable(o, a, cs))
  <2>1. ops' = To(o, "rejected") /\ UNCHANGED <<accounts, ledger, held, imports>>
    BY <1>1 DEF ReserveRenewal
  <2> QED
    BY <2>1, PhaseIInv
<1>2. CASE Valid(o) /\ ~Owned(a, cs) /\ Reservable(o, a, cs)
  <2>1. /\ held' = Reserving(o, cs) /\ ops' = To(o, "reserved")
        /\ UNCHANGED <<accounts, ledger, imports>> /\ AdmissionTypeOK /\ OwnClaims
        /\ ops[o].phase = "candidate" /\ ops[o].kind = "renewal"
    BY <1>2 DEF ReserveRenewal, AdmissionIInv
  <2>2. a \in Accounts /\ Live(a) /\ accounts[a].of = ops[o].of
    BY <1>2, <2>1, ValidOwn DEF AdmissionIInv, VerifiedForOwner
  <2>3. /\ ops' \in [Ops -> Operations] /\ \A q \in Ops \ {o} : ops'[q] = ops[q]
        /\ ops'[o].phase = "reserved" /\ ops'[o].account = a
        /\ ops'[o].of = ops[o].of /\ ops'[o].claims = cs
    BY <2>1, ToGives
  <2>4. cs \in SUBSET Claims /\ \A c \in cs : c[2] = ops[o].of /\ ledger[c] \in {Nobody, a}
    BY <1>2, <2>1, DeclaredOwn, DeclaredClaims DEF OwnClaims, Owned
  <2>5. /\ held' \in [Claims -> Ops \cup {Nobody}]
        /\ \A c \in Claims : held'[c] = held[c] \/ (c \in cs /\ held'[c] = o)
        /\ \A c \in Claims : held[c] \in Ops \cup {Nobody}
    BY <2>1, <2>4 DEF Reserving, AdmissionTypeOK
  <2>6. ReservedForOwner'
    <3> HIDE DEF a, cs
    <3> SUFFICES ASSUME NEW c \in Claims, held'[c] # Nobody
                 PROVE  LET q == ops'[held'[c]]
                        IN  /\ q.phase \in {"candidate", "reserved", "verifying", "unresolved",
                                            "rejected"}
                            /\ q.account \in Accounts /\ Live(q.account)
                            /\ q.of = c[2] /\ accounts[q.account].of = c[2]
                            /\ ledger[c] \in {Nobody, q.account}
      BY <2>1 DEF ReservedForOwner, Live
    <3>1. CASE held'[c] = o
      <4>1. c \in cs \/ held[c] = o
        BY <2>5, <3>1
      <4>2. CASE c \in cs
        BY <2>2, <2>3, <2>4, <3>1, <4>2
      <4>3. CASE held[c] = o
        <5>1. /\ ops[o].account \in Accounts /\ ops[o].of = c[2]
              /\ ledger[c] \in {Nobody, ops[o].account}
          BY <3>1, <4>3 DEF AdmissionIInv, ReservedForOwner
        <5> QED
          BY <2>2, <2>3, <3>1, <5>1 DEF a
      <4> QED
        BY <4>1, <4>2, <4>3
    <3>2. CASE held'[c] # o
      <4>1. held[c] = held'[c] /\ held[c] \in Ops \ {o}
        BY <2>5, <3>2
      <4>2. ops'[held'[c]] = ops[held[c]]
        BY <2>3, <4>1
      <4> QED
        BY <4>1, <4>2 DEF AdmissionIInv, ReservedForOwner
    <3> QED
      BY <3>1, <3>2
  <2>7. OwnClaims' /\ VerifiedForOwner'
    BY <2>1, <2>2, <2>3 DEF AdmissionIInv, OwnClaims, VerifiedForOwner, Live
  <2>8. OneAccountPerLogin' /\ LedgerTrue'
    BY <2>1 DEF AdmissionIInv, OneAccountPerLogin, LedgerTrue, Live, Recorded
  <2> QED
    BY <2>1, <2>3, <2>5, <2>6, <2>7, <2>8 DEF AdmissionIInv, AdmissionTypeOK
<1> QED
  BY <1>1, <1>2

\* What is verified is valid for its account.
LEMMA BeginVerificationIInv ==
  ASSUME Apart, AdmissionIInv, NEW o \in Ops, BeginVerification(o)
  PROVE  AdmissionIInv'
<1> DEFINE repairable == {r \in Ops : Repairable(r, ops[o].account)}
<1>1. /\ UNCHANGED <<accounts, ledger, held, imports>> /\ Valid(o)
      /\ ops' = [ops EXCEPT ![o].phase = "verifying", ![o].evidence = repairable]
      /\ AdmissionTypeOK /\ ops[o].phase \in {"reserved", "candidate"}
  BY DEF BeginVerification, AdmissionIInv
<1>2. ops[o].account \in Accounts
  BY DEF BeginVerification, AdmissionIInv, AdmissionTypeOK, Operations, VerifiedForOwner
<1>3. accounts[ops[o].account].of = ops[o].of /\ Live(ops[o].account)
  BY <1>1, <1>2, ValidOwn
<1>4. /\ ops' \in [Ops -> Operations]
      /\ ops'[o].phase = "verifying" /\ ops'[o].of = ops[o].of /\ ops'[o].claims = ops[o].claims
      /\ ops'[o].account = ops[o].account
      /\ \A q \in Ops \ {o} : ops'[q] = ops[q]
  <2>1. ops[o] \in Operations /\ repairable \in SUBSET Ops
    BY <1>1 DEF AdmissionTypeOK
  <2>2. ops' = [ops EXCEPT ![o] = [ops[o] EXCEPT !.phase = "verifying", !.evidence = repairable]]
    BY <1>1 DEF AdmissionTypeOK
  <2>3. [ops[o] EXCEPT !.phase = "verifying", !.evidence = repairable] \in Operations
    BY <2>1 DEF Operations
  <2> HIDE DEF repairable
  <2> QED
    BY <1>1, <2>1, <2>2, <2>3 DEF AdmissionTypeOK, Operations
<1>5. accounts[ops[o].account].of \in Logins
  BY <1>2, <1>3 DEF AdmissionIInv, OwnClaims
<1>6. OwnClaims' /\ VerifiedForOwner'
  BY <1>1, <1>2, <1>3, <1>4, <1>5 DEF AdmissionIInv, OwnClaims, VerifiedForOwner, Live
<1>7. OneAccountPerLogin' /\ LedgerTrue'
  BY <1>1 DEF AdmissionIInv, OneAccountPerLogin, LedgerTrue, Live, Recorded
<1>8. ReservedForOwner'
  BY <1>1, <1>4 DEF AdmissionIInv, AdmissionTypeOK, ReservedForOwner, Live
<1> QED
  BY <1>1, <1>4, <1>6, <1>7, <1>8 DEF AdmissionIInv, AdmissionTypeOK

\* A completed verification publishes claims of the account's login and releases the
\* reservations of the operations it settles; what stays reserved stays as it was.
LEMMA CompleteIInv ==
  ASSUME Apart, AdmissionIInv, NEW o \in Ops, NEW cs \in Declared(ops[o].of), Complete(o, cs)
  PROVE  AdmissionIInv'
<1> DEFINE a == ops[o].account
           p == ops[o].of
           settled == {o} \cup Repaired(o)
<1>1. /\ ops[o].phase = "verifying" /\ Live(a) /\ Recordable(a, cs)
      /\ accounts' = [accounts EXCEPT ![a].claims = cs]
      /\ ledger' = Recording(a, cs) /\ held' = Releasing(settled) /\ imports' = imports
      /\ AdmissionTypeOK /\ OwnClaims
  BY DEF Complete, AdmissionIInv
<1>0. ops' = [q \in Ops |->
        CASE q = o -> Done("completed")
          [] q \in Repaired(o) /\ Agrees(ops[q].claims, a) -> [ops[q] EXCEPT !.claims = {}]
          [] OTHER -> ops[q]]
  BY DEF Complete
<1>2. /\ a \in Accounts /\ accounts[a].of = p /\ p \in Logins
      /\ cs \in Declared(p) /\ cs \in SUBSET Claims
  BY <1>1, DeclaredClaims DEF AdmissionIInv, VerifiedForOwner, OwnClaims
<1> HIDE DEF a, p, settled
<1>3. /\ accounts' = [accounts EXCEPT ![a] = [state |-> "live", of |-> p, claims |-> cs]]
      /\ accounts'[a].state = "live" /\ accounts'[a].of = p /\ accounts'[a].claims = cs
      /\ \A b \in Accounts \ {a} : accounts'[b] = accounts[b]
  <2>1. accounts' = [accounts EXCEPT ![a] = [state |-> "live", of |-> p, claims |-> cs]]
    <3>1. accounts' = [accounts EXCEPT ![a] =
                         [state |-> "live", of |-> accounts[a].of, claims |-> cs]]
      BY <1>1, <1>2, Republished
    <3> QED
      BY <1>2, <3>1
  <2>2. accounts \in [Accounts -> Credentials]
    BY <1>1 DEF AdmissionTypeOK
  <2> QED
    BY <1>2, <2>1, <2>2
<1>4. /\ accounts' \in [Accounts -> Credentials] /\ OneAccountPerLogin'
      /\ \A b \in Accounts : /\ accounts'[b].claims \in Declared(accounts'[b].of)
                             /\ Live(b)' => accounts'[b].of \in Logins
  BY <1>1, <1>2, <1>3, LearnAccounts
<1>5. ledger' \in [Claims -> Accounts \cup {Nobody}]
  BY <1>1, <1>2, RecordingGives
<1>6. LedgerTrue'
  BY <1>1, <1>2, <1>3, LearnLedger
<1>7. /\ held' \in [Claims -> Ops \cup {Nobody}]
      /\ \A c \in Claims : held'[c] # Nobody => held'[c] = held[c] /\ held[c] \in Ops \ settled
  <2>1. \A c \in Claims : held[c] \in Ops \cup {Nobody}
    BY <1>1 DEF AdmissionTypeOK
  <2> QED
    BY <1>1, <2>1 DEF Releasing
<1>8. /\ ops'[o] = Done("completed")
      /\ \A q \in Ops \ settled : ops'[q] = ops[q]
      /\ \A q \in Repaired(o) \ {o} : q \in Ops /\ ops[q].phase = "rejected"
           /\ ops'[q] \in {ops[q], [ops[q] EXCEPT !.claims = {}]}
      /\ Repaired(o) \subseteq Ops
  <2> USE DEF settled
  <2>1. Repaired(o) \subseteq Ops /\ \A q \in Repaired(o) : ops[q].phase = "rejected"
    <3>1. ops[o] \in Operations
      BY <1>1 DEF AdmissionTypeOK
    <3>2. ops[o].evidence \subseteq Ops
      BY <3>1 DEF Operations
    <3> QED
      BY <3>2 DEF Repaired, Repairable, Rejected
  <2>2. ops'[o] = Done("completed")
    <3>1. o \notin Repaired(o)
      BY <1>1, <2>1
    <3> QED
      BY <1>0, <3>1
  <2>3. \A q \in Ops \ settled : ops'[q] = ops[q]
    BY <1>0
  <2>4. \A q \in Repaired(o) \ {o} : ops'[q] \in {ops[q], [ops[q] EXCEPT !.claims = {}]}
    BY <1>0, <2>1
  <2> QED
    BY <2>1, <2>2, <2>3, <2>4
<1>9. Done("completed") \in Operations /\ Done("completed").phase = "completed"
      /\ Done("completed").claims = {}
  BY DEF Done, NoOp, Operations, Terminal
<1>10. \A q \in Ops :
        /\ ops'[q] \in Operations /\ (ops'[q].claims = {} \/ ops'[q] = ops[q])
        /\ ops'[q] = ops[q] \/ ops'[q].phase \in {"completed", "rejected"}
  <2> TAKE q \in Ops
  <2>1. ops[q] \in Operations /\ [ops[q] EXCEPT !.claims = {}] \in Operations
    BY <1>1 DEF AdmissionTypeOK, Operations
  <2>2. /\ [ops[q] EXCEPT !.claims = {}].phase = ops[q].phase
        /\ [ops[q] EXCEPT !.claims = {}].claims = {}
    BY <2>1 DEF Operations
  <2>3. CASE q = o
    BY <1>8, <1>9, <2>3
  <2>4. CASE q \in Repaired(o) \ {o}
    BY <1>8, <2>1, <2>2, <2>4
  <2>5. CASE q \notin {o} \cup Repaired(o)
    BY <1>8, <2>1, <2>5 DEF settled
  <2> QED
    BY <2>3, <2>4, <2>5
<1>11. ReservedForOwner'
  <2>1. \A c \in Claims : held'[c] # Nobody =>
          /\ held'[c] = held[c] /\ ops'[held[c]] = ops[held[c]]
          /\ c \in cs => ops[held[c]].account = a
    <3> TAKE c \in Claims
    <3> HAVE held'[c] # Nobody
    <3>1. held'[c] = held[c] /\ ops'[held[c]] = ops[held[c]]
      BY <1>7, <1>8
    <3>2. ASSUME c \in cs PROVE ops[held[c]].account = a
      <4>1. c[2] = accounts[a].of
        BY <1>2, <3>2, DeclaredOwn
      <4> QED
        BY <1>1, <1>2, <3>1, <4>1, HeldForLive
    <3> QED
      BY <3>1, <3>2
  <2>2. accounts[a].state = "none" \/ accounts[a].of = p
    BY <1>2
  <2> QED
    BY <1>1, <1>2, <1>3, <2>1, <2>2, LearnReserved
<1>12. OwnClaims'
  BY <1>1, <1>4, <1>10 DEF OwnClaims, Declared, Live
<1>13. VerifiedForOwner'
  BY <1>1, <1>2, <1>3, <1>10 DEF AdmissionIInv, VerifiedForOwner, Live
<1>14. ops' \in [Ops -> Operations]
  BY <1>0, <1>10
<1> QED
  BY <1>1, <1>4, <1>5, <1>6, <1>7, <1>11, <1>12, <1>13, <1>14 DEF AdmissionIInv, AdmissionTypeOK

---------------------------------------------------------------------------
\* Every step of the admission's transactions keeps the invariant.
LEMMA AdmissionStepIInv ==
  ASSUME Apart, AdmissionIInv, [AdmissionNext]_admissionVars PROVE AdmissionIInv'
<1>1. CASE UNCHANGED admissionVars
  BY <1>1 DEF admissionVars, AdmissionIInv, AdmissionTypeOK, OwnClaims, OneAccountPerLogin,
     LedgerTrue, ReservedForOwner, VerifiedForOwner, Live, Recorded
<1>2. CASE \E a \in Accounts, p \in Logins : \E cs \in Declared(p) : CheckImport(a, p, cs)
  BY <1>2, CheckImportIInv
<1>3. CASE \E a \in Accounts, p \in Logins : \E cs \in Declared(p) :
             \E o \in Ops : Arrive(o, a, p, cs)
  BY <1>3, ArriveIInv
<1>4. CASE \E i \in imports : SaveImport(i)
  BY <1>4, SaveImportIInv
<1>5. CASE \E a \in Accounts : Remove(a)
  BY <1>5, RemoveIInv
<1>6. CASE \E a \in Accounts : \E cs \in Declared(accounts[a].of) : Refresh(a, cs)
  BY <1>6, RefreshIInv
<1>7. CASE \E o \in Ops : AdmitAdd(o) \/ RefuseAdd(o)
  BY <1>7, AdmitAddIInv, RefuseAddIInv
<1>8. CASE \E o \in Ops : ReserveRenewal(o) \/ BeginVerification(o) \/ EndUnpublished(o)
  BY <1>8, ReserveRenewalIInv, BeginVerificationIInv, EndUnpublishedIInv
<1>9. CASE \E o \in Ops : \E cs \in Declared(ops[o].of) : Complete(o, cs)
  BY <1>9, CompleteIInv
<1> QED
  BY <1>1, <1>2, <1>3, <1>4, <1>5, <1>6, <1>7, <1>8, <1>9 DEF AdmissionNext

\* No two live accounts have one login, the ledger names the account of every claim of a
\* live credential, what is reserved or verified is the account's own: in every state of
\* every workspace (check_claims, record_claims, reserve_claims, login_admit_add).
THEOREM AdmissionInvariant == Apart => (AdmissionSpec => []AdmissionIInv)
<1> SUFFICES ASSUME Apart PROVE AdmissionSpec => []AdmissionIInv
  OBVIOUS
<1>1. AdmissionInit => AdmissionIInv
  BY AdmissionInitIInv
<1>2. AdmissionIInv /\ [AdmissionNext]_admissionVars => AdmissionIInv'
  BY AdmissionStepIInv
<1> QED
  BY <1>1, <1>2, PTL DEF AdmissionSpec

---------------------------------------------------------------------------
(* Migration. *)

\* The rows of a behaviour: those it begins with and the one that an old server writes.
Late == [claim |-> "c2", account |-> "b"]
SourceRows ==
  {Late} \cup UNION {UNION {{d.rows[s][k] : k \in DOMAIN d.rows[s]} : s \in Stages} : d \in Databases}
SourceAccounts == {r.account : r \in SourceRows}

\* Keys are finitely many numbers from 1, a batch has a row at least, and Nothing is no row
\* and no account.
Migratable ==
  /\ IsFiniteSet(Keys) /\ Keys \subseteq Nat \ {0}
  /\ Batch \in Nat \ {0} /\ Inventory \in Nat
  /\ Nothing \notin SourceRows \cup SourceAccounts

Positions ==
  [exists : BOOLEAN, cursor : {0} \cup Keys, end : {0} \cup Keys, revision : Nat,
   records : Nat, completed : BOOLEAN]
Workers ==
  [at : {"idle", "count", "record", "progress", "page", "commit", "finish"}, stage : 1..4,
   seen : Positions, page : SUBSET Keys, total : Nat]

\* The invariant of Migration, part by part.
MigrationTypes ==
  /\ rows \in [Stages -> [Keys -> SourceRows \cup {Nothing}]]
  /\ fence \in [exists : BOOLEAN, revision : Nat, records : Nat, completed : BOOLEAN]
  /\ progress \in [Stages -> Positions]
  /\ claimants \in [AllClaims -> SourceAccounts \cup {Nothing}]
  /\ worker \in [Migrators -> Workers]

\* The rows of a table that its cursor has passed.
Past(s) == {k \in KeysOf(s) : k <= progress[s].cursor}

\* A position is none, or counts what it has passed, up to an end past every row.
Positioned ==
  \A s \in Stages :
    /\ progress[s].records = Cardinality(Past(s))
    /\ IF progress[s].exists THEN \A k \in KeysOf(s) : k <= progress[s].end
       ELSE progress[s] = NoProgress
    /\ progress[s].completed => KeysOf(s) \subseteq Past(s)

\* The account of a claim is the one every row passed names.
Settled ==
  \A s \in Stages : \A k \in Past(s) :
    Declares(s) /\ rows[s][k].claim \in AllClaims =>
      claimants[rows[s][k].claim] = rows[s][k].account

\* From the fence on the tables stand still, and before it nobody has begun.
Fenced ==
  /\ fence.completed => \A s \in Stages : progress[s].completed
  /\ fence.revision > 0 => fence.records = Total /\ Total <= Inventory
  /\ ~fence.exists =>
       /\ fence = NoFence /\ \A s \in Stages : progress[s] = NoProgress
       /\ \A m \in Migrators : worker[m].at = "idle"

\* What a migrator has read is so until somebody commits.
Informed(m) ==
  LET w == worker[m]
      p == progress[StageOf(m)]
  IN  /\ w.at = "record" => w.total = Total
      /\ w.at \in {"page", "commit"} =>
           /\ p.exists /\ w.seen.exists /\ ~w.seen.completed
           /\ w.seen.revision <= p.revision
           /\ w.seen.revision = p.revision => w.seen = p
      /\ w.at = "commit" => w.page = PageOf(w.seen, StageOf(m))

MigrationInductive ==
  /\ MigrationTypes /\ Positioned /\ Settled /\ Fenced /\ OwnerFromSource
  /\ \A m \in Migrators : Informed(m)

---------------------------------------------------------------------------
\* A set of numbers that is not empty has a least one.
LEMMA Least ==
  ASSUME NEW T \in SUBSET Nat, T # {}
  PROVE  \E m \in T : \A n \in T : ~(n < m)
<1> DEFINE R == OpToRel(<, Nat)
<1>1. IsWellFoundedOn(R, Nat)
  BY NatLessThanWellFounded
<1>2. \A x, y \in Nat : <<x, y>> \in R <=> x < y
  BY DEF OpToRel
<1> HIDE DEF R
<1>3. \E m \in T : \A n \in T : ~(<<n, m>> \in R)
  BY <1>1, WFMin
<1> QED
  BY <1>2, <1>3

\* A finite one has a greatest: the one with the fewest from it on.
LEMMA Greatest ==
  ASSUME NEW S \in SUBSET Nat, IsFiniteSet(S), S # {}
  PROVE  Max(S) \in S /\ \A k \in S : k <= Max(S)
<1> DEFINE From(k) == {j \in S : k <= j}
           Sizes == {Cardinality(From(k)) : k \in S}
<1>1. ASSUME NEW k \in S PROVE IsFiniteSet(From(k)) /\ Cardinality(From(k)) \in Nat
  BY FS_Subset, FS_CardinalityType
<1>2. PICK n \in Sizes : \A i \in Sizes : ~(i < n)
  <2>1. Sizes \in SUBSET Nat /\ Sizes # {}
    BY <1>1
  <2> HIDE DEF Sizes
  <2> QED
    BY <2>1, Least
<1>3. PICK k \in S : n = Cardinality(From(k))
  OBVIOUS
<1>4. ASSUME NEW j \in S, k < j PROVE FALSE
  <2>0. S \subseteq Nat
    OBVIOUS
  <2>1. From(j) \in SUBSET From(k) /\ k \in From(k) /\ k \notin From(j)
    <3>1. \A i \in S : j <= i => k <= i
      BY <1>4, <2>0
    <3>2. k <= k /\ ~(j <= k)
      BY <1>4, <2>0
    <3> QED
      BY <3>1, <3>2
  <2>2. Cardinality(From(j)) <= Cardinality(From(k)) /\ Cardinality(From(j)) # Cardinality(From(k))
    BY <1>1, <2>1, FS_Subset
  <2>3. Cardinality(From(j)) \in Nat /\ Cardinality(From(k)) \in Nat
    BY <1>1
  <2>4. Cardinality(From(j)) \in Sizes
    OBVIOUS
  <2>5. ~(Cardinality(From(j)) < Cardinality(From(k)))
    BY <1>2, <1>3, <2>4
  <2> HIDE DEF From, Sizes
  <2> QED
    BY <2>2, <2>3, <2>5
<1>5. \A j \in S : k >= j
  BY <1>4
<1> QED
  BY <1>5 DEF Max

LEMMA StagesAre ==
  /\ Stages = {"claims", "accounts", "operations", "reservations"}
  /\ \A i \in 1..4 : Order[i] \in Stages
<1>1. Order[1] = "claims" /\ Order[2] = "accounts" /\ Order[3] = "operations"
      /\ Order[4] = "reservations"
  BY DEF Order
<1>2. 1..4 = {1, 2, 3, 4}
  OBVIOUS
<1> QED
  BY <1>1, <1>2 DEF Stages

\* Rows are finitely many.
LEMMA RowsFinite ==
  ASSUME Migratable
  PROVE  Total \in Nat /\ \A s \in Stages : \A S \in SUBSET KeysOf(s) :
           IsFiniteSet(S) /\ Cardinality(S) \in Nat /\ S \in SUBSET Nat
<1>1. ASSUME NEW s \in Stages, NEW S \in SUBSET KeysOf(s)
      PROVE  IsFiniteSet(S) /\ Cardinality(S) \in Nat /\ S \in SUBSET Nat
  <2>1. S \in SUBSET Keys
    BY DEF KeysOf
  <2> QED
    BY <2>1, FS_Subset, FS_CardinalityType DEF Migratable
<1>2. Total \in Nat
  <2> DEFINE all == UNION {{<<s, k>> : k \in KeysOf(s)} : s \in Stages}
  <2>1. IsFiniteSet(Stages)
    <3>1. Stages = ((({} \cup {"claims"}) \cup {"accounts"}) \cup {"operations"}) \cup {"reservations"}
      BY StagesAre
    <3> QED
      BY <3>1, FS_EmptySet, FS_AddElement
  <2>2. IsFiniteSet(Stages \X Keys)
    BY <2>1, FS_Product DEF Migratable
  <2>3. all \in SUBSET (Stages \X Keys)
    BY DEF KeysOf
  <2>4. IsFiniteSet(all)
    BY <2>2, <2>3, FS_Subset
  <2> QED
    BY <2>4, FS_CardinalityType DEF Total
<1> QED
  BY <1>1, <1>2

\* A page is of rows past the cursor; together with them those passed are all up to the
\* new cursor; and a page of no rows means that none is left.
LEMMA PageExact ==
  ASSUME Migratable, NEW s \in Stages, NEW p \in Positions, NEW page, page = PageOf(p, s)
  PROVE  /\ page \subseteq KeysOf(s) /\ page \subseteq Keys
         /\ Cursor(p, page) \in {0} \cup Keys /\ p.cursor <= Cursor(p, page)
         /\ \A k \in page : p.cursor < k /\ k <= Cursor(p, page)
         /\ \A k \in KeysOf(s) : p.cursor < k /\ k <= Cursor(p, page) => k \in page
         /\ page = {} => \A k \in KeysOf(s) : k <= p.end => k <= p.cursor
<1> DEFINE range == {k \in KeysOf(s) : p.cursor < k /\ k <= p.end}
           Upto(k) == {j \in range : j <= k}
           all == {p.cursor} \cup page
<1>0. page = {k \in range : Cardinality(Upto(k)) <= Batch}
  BY DEF PageOf
<1>1. /\ page \subseteq range /\ range \subseteq KeysOf(s) /\ range \subseteq Nat
      /\ p.cursor \in Nat /\ p.end \in Nat /\ KeysOf(s) \subseteq Keys /\ Keys \subseteq Nat
  <2>1. page \subseteq range
    BY <1>0
  <2>2. Keys \subseteq Nat /\ KeysOf(s) \subseteq Keys
    BY DEF Migratable, KeysOf
  <2>3. p.cursor \in Nat /\ p.end \in Nat
    <3>1. p.cursor \in {0} \cup Keys /\ p.end \in {0} \cup Keys
      BY DEF Positions
    <3>2. \A x \in {0} \cup Keys : x \in Nat
      BY <2>2
    <3> QED
      BY <3>1, <3>2
  <2> QED
    BY <2>1, <2>2, <2>3
<1>2. ASSUME NEW k PROVE IsFiniteSet(Upto(k)) /\ Cardinality(Upto(k)) \in Nat
  <2>1. Upto(k) \in SUBSET KeysOf(s)
    OBVIOUS
  <2> QED
    BY <2>1, RowsFinite
<1> HIDE DEF range
<1>3. all \in SUBSET Nat /\ IsFiniteSet(all) /\ all # {}
  <2>1. page \in SUBSET KeysOf(s)
    BY <1>1
  <2>2. IsFiniteSet(page)
    BY <2>1, RowsFinite
  <2>3. all = page \cup {p.cursor}
    OBVIOUS
  <2> QED
    BY <1>1, <2>2, <2>3, FS_AddElement
<1>4. Cursor(p, page) \in all /\ \A k \in all : k <= Cursor(p, page)
  <2> HIDE DEF all
  <2>1. Max(all) \in all /\ \A k \in all : k <= Max(all)
    BY <1>3, Greatest
  <2>2. Cursor(p, page) = Max(all)
    BY DEF Cursor, all
  <2> QED
    BY <2>1, <2>2
<1>5. Cursor(p, page) \in {0} \cup Keys
  BY <1>1, <1>4 DEF Positions
<1>6. ASSUME NEW k \in KeysOf(s), p.cursor < k, k <= Cursor(p, page) PROVE k \in page
  <2> DEFINE c == Cursor(p, page)
  <2>1. c \in page
    BY <1>1, <1>4, <1>6
  <2>2. k \in range
    <3>1. c <= p.end /\ c \in Nat /\ k \in Nat
      BY <1>1, <2>1 DEF range
    <3>2. k <= p.end
      BY <1>1, <1>6, <3>1
    <3> QED
      BY <1>6, <3>2 DEF range
  <2>3. Upto(k) \in SUBSET Upto(c)
    <3>1. k \in Nat /\ c \in Nat
      BY <1>1, <2>1
    <3>2. \A j \in range : j <= k => j <= c
      BY <1>1, <1>6, <3>1
    <3> QED
      BY <3>2
  <2>4. Cardinality(Upto(k)) <= Cardinality(Upto(c)) /\ Cardinality(Upto(c)) <= Batch
    BY <1>0, <1>2, <2>1, <2>3, FS_Subset
  <2>5. Cardinality(Upto(k)) <= Batch
    BY <1>2, <2>4 DEF Migratable
  <2> QED
    BY <1>0, <2>2, <2>5
<1>7. ASSUME page = {}, NEW k \in KeysOf(s), k <= p.end PROVE k <= p.cursor
  <2> SUFFICES ASSUME p.cursor < k PROVE FALSE
    BY <1>1
  <2>1. range \in SUBSET Nat /\ range # {}
    BY <1>1, <1>7 DEF range
  <2>2. PICK j \in range : \A i \in range : ~(i < j)
    BY <2>1, Least
  <2>3. Upto(j) = {} \cup {j}
    <3>1. \A i \in range : i <= j <=> i = j
      BY <1>1, <2>2
    <3> QED
      BY <3>1
  <2>4. Cardinality(Upto(j)) = 1
    <3>1. Cardinality({} \cup {j}) = 1
      <4>1. IsFiniteSet({}) /\ Cardinality({}) = 0
        BY FS_EmptySet
      <4>2. Cardinality({} \cup {j}) = IF j \in {} THEN Cardinality({}) ELSE Cardinality({}) + 1
        BY <4>1, FS_AddElement
      <4> QED
        BY <4>1, <4>2
    <3> QED
      BY <2>3, <3>1
  <2>5. j \in page
    BY <1>0, <2>4 DEF Migratable
  <2> QED
    BY <1>7, <2>5
<1>8. \A k \in page : p.cursor < k /\ k <= Cursor(p, page)
  BY <1>1, <1>4 DEF range
<1> QED
  BY <1>1, <1>4, <1>5, <1>6, <1>7, <1>8

---------------------------------------------------------------------------
\* A step of one migrator that commits nothing: only the fence and what it has in hand.
LEMMA InHandInductive ==
  ASSUME MigrationInductive, NEW m \in Migrators, NEW w \in Workers,
         worker' = [worker EXCEPT ![m] = w], UNCHANGED <<rows, progress, claimants>>,
         fence' \in [exists : BOOLEAN, revision : Nat, records : Nat, completed : BOOLEAN],
         Fenced', Informed(m)'
  PROVE  MigrationInductive'
<1>1. MigrationTypes'
  <2>1. worker \in [Migrators -> Workers]
    BY DEF MigrationInductive, MigrationTypes
  <2>2. worker' \in [Migrators -> Workers]
    BY <2>1
  <2> QED
    BY <2>2 DEF MigrationInductive, MigrationTypes
<1>2. Positioned' /\ Settled' /\ OwnerFromSource'
  BY DEF MigrationInductive, Positioned, Settled, OwnerFromSource, Past, KeysOf
<1>3. ASSUME NEW n \in Migrators, n # m PROVE Informed(n)'
  <2>1. worker'[n] = worker[n]
    BY <1>3 DEF MigrationInductive, MigrationTypes
  <2>2. StageOf(n)' = StageOf(n) /\ Total' = Total
    BY <2>1 DEF StageOf, Total, KeysOf
  <2>3. PageOf(worker[n].seen, StageOf(n))' = PageOf(worker[n].seen, StageOf(n))
    BY <2>1, <2>2 DEF PageOf, KeysOf
  <2>4. Informed(n)
    BY DEF MigrationInductive
  <2> QED
    BY <2>1, <2>2, <2>3, <2>4 DEF Informed
<1> QED
  BY <1>1, <1>2, <1>3 DEF MigrationInductive

\* One that stops has nothing in hand.
LEMMA StopInductive ==
  ASSUME MigrationInductive, NEW m \in Migrators, Stop(m), UNCHANGED <<rows, progress, claimants>>,
         fence' \in [exists : BOOLEAN, revision : Nat, records : Nat, completed : BOOLEAN],
         fence.exists => fence'.exists,
         fence'.completed => \A s \in Stages : progress[s].completed,
         fence'.revision = fence.revision, fence'.records = fence.records, fence.exists
  PROVE  MigrationInductive'
<1>1. Idle \in Workers /\ Idle.at = "idle"
  BY DEF Idle, Workers, Positions, NoProgress
<1>2. worker' = [worker EXCEPT ![m] = Idle] /\ worker'[m] = Idle
  BY DEF Stop, MigrationInductive, MigrationTypes
<1>3. Fenced'
  BY DEF MigrationInductive, Fenced, Total, KeysOf
<1>4. Informed(m)'
  BY <1>1, <1>2 DEF Informed
<1> QED
  BY <1>1, <1>2, <1>3, <1>4, InHandInductive

\* The fence and its triggers.
LEMMA MigrateInductive ==
  ASSUME MigrationInductive, NEW m \in Migrators, Migrate(m) PROVE MigrationInductive'
<1> DEFINE at == IF fence.revision > 0 THEN "progress" ELSE "count"
           w == [worker[m] EXCEPT !.at = at]
<1>1. worker[m] \in Workers
  BY DEF MigrationInductive, MigrationTypes
<1>2. w \in Workers /\ w.at \in {"progress", "count"}
  BY <1>1 DEF Workers
<1>3. worker' = [worker EXCEPT ![m] = w] /\ UNCHANGED <<rows, progress, claimants>>
      /\ fence' = [fence EXCEPT !.exists = TRUE]
  BY DEF Migrate, Enter
<1> HIDE DEF w
<1>4. fence' \in [exists : BOOLEAN, revision : Nat, records : Nat, completed : BOOLEAN]
      /\ fence'.exists /\ fence'.revision = fence.revision /\ fence'.records = fence.records
      /\ fence'.completed = fence.completed
  BY <1>3 DEF MigrationInductive, MigrationTypes
<1>5. Fenced'
  BY <1>3, <1>4 DEF MigrationInductive, Fenced, Total, KeysOf
<1>6. Informed(m)'
  BY <1>2, <1>3 DEF Informed, MigrationInductive, MigrationTypes
<1> QED
  BY <1>2, <1>3, <1>4, <1>5, <1>6, InHandInductive

\* The count, which stays true: the tables stand still.
LEMMA CountInductive ==
  ASSUME Migratable, MigrationInductive, NEW m \in Migrators, Count(m) PROVE MigrationInductive'
<1> DEFINE w == [worker[m] EXCEPT !.at = "record", !.total = Total]
<1>1. worker[m] \in Workers /\ Total \in Nat
  BY RowsFinite DEF MigrationInductive, MigrationTypes
<1>2. w \in Workers /\ w.at = "record" /\ w.total = Total
  BY <1>1 DEF Workers
<1>3. worker' = [worker EXCEPT ![m] = w] /\ UNCHANGED <<rows, progress, claimants, fence>>
  BY DEF Count
<1> HIDE DEF w
<1>4. worker'[m] = w /\ Total' = Total
  BY <1>3 DEF MigrationInductive, MigrationTypes, Total, KeysOf
<1>5. Informed(m)'
  BY <1>2, <1>4 DEF Informed
<1>6. fence.exists
  BY DEF Count, MigrationInductive, Fenced
<1>7. Fenced'
  BY <1>3, <1>4, <1>6 DEF MigrationInductive, Fenced
<1> QED
  BY <1>2, <1>3, <1>5, <1>7, InHandInductive DEF MigrationInductive, MigrationTypes

LEMMA RecordInductive ==
  ASSUME Migratable, MigrationInductive, NEW m \in Migrators, Record(m) PROVE MigrationInductive'
<1>0. worker[m] \in Workers /\ worker[m].total = Total /\ fence.exists
      /\ fence \in [exists : BOOLEAN, revision : Nat, records : Nat, completed : BOOLEAN]
  BY DEF Record, MigrationInductive, MigrationTypes, Fenced, Informed
<1>1. CASE fence.revision = 0 /\ worker[m].total > Inventory
  BY <1>0, <1>1, StopInductive DEF Record, MigrationInductive, Fenced
<1>2. CASE ~(fence.revision = 0 /\ worker[m].total > Inventory)
  <2> DEFINE w == [worker[m] EXCEPT !.at = "progress", !.total = 0]
  <2>1. w \in Workers /\ w.at = "progress"
    BY <1>0 DEF Workers
  <2>2. worker' = [worker EXCEPT ![m] = w] /\ UNCHANGED <<rows, progress, claimants>>
        /\ fence' = IF fence.revision > 0 THEN fence
                    ELSE [fence EXCEPT !.records = worker[m].total, !.revision = 1]
    BY <1>2 DEF Record
  <2> HIDE DEF w
  <2>3. Informed(m)'
    BY <2>1, <2>2 DEF Informed, MigrationInductive, MigrationTypes
  <2>4. Total' = Total /\ Total \in Nat
    BY <2>2, RowsFinite DEF Total, KeysOf
  <2>5. CASE fence.revision > 0
    <3>1. fence' = fence
      BY <2>2, <2>5
    <3>2. Fenced'
      BY <1>0, <2>2, <2>4, <3>1 DEF MigrationInductive, Fenced
    <3> QED
      BY <1>0, <2>1, <2>2, <2>3, <3>1, <3>2, InHandInductive
  <2>6. CASE fence.revision = 0
    <3>1. /\ fence' \in [exists : BOOLEAN, revision : Nat, records : Nat, completed : BOOLEAN]
          /\ fence'.exists /\ fence'.records = Total /\ fence'.completed = fence.completed
      <4>1. fence' = [fence EXCEPT !.records = worker[m].total, !.revision = 1]
        BY <2>2, <2>6
      <4>2. worker[m].total \in Nat
        BY <1>0, <2>4
      <4> QED
        BY <1>0, <4>1, <4>2
    <3>2. Total <= Inventory
      BY <1>0, <1>2, <2>4, <2>6 DEF Migratable
    <3>3. Fenced'
      BY <2>2, <2>4, <3>1, <3>2 DEF MigrationInductive, Fenced
    <3> QED
      BY <2>1, <2>2, <2>3, <3>1, <3>3, InHandInductive
  <2> QED
    BY <1>0, <2>5, <2>6
<1> QED
  BY <1>1, <1>2

LEMMA ReadPageInductive ==
  ASSUME Migratable, MigrationInductive, NEW m \in Migrators, ReadPage(m)
  PROVE  MigrationInductive'
<1> DEFINE page == PageOf(worker[m].seen, StageOf(m))
           w == [worker[m] EXCEPT !.at = "commit", !.page = page]
<1>1. worker[m] \in Workers /\ StageOf(m) \in Stages /\ worker[m].seen \in Positions
      /\ worker[m].at = "page" /\ fence.exists
  BY StagesAre DEF ReadPage, MigrationInductive, MigrationTypes, Workers, StageOf, Fenced
<1>2. page \subseteq Keys
  BY <1>1, PageExact
<1> HIDE DEF page
<1>3. w \in Workers /\ w.at = "commit" /\ w.page = page /\ w.seen = worker[m].seen
      /\ w.stage = worker[m].stage
  BY <1>1, <1>2 DEF Workers
<1>4. worker' = [worker EXCEPT ![m] = w] /\ UNCHANGED <<rows, progress, claimants, fence>>
  BY DEF ReadPage, page
<1> HIDE DEF w
<1>5. worker'[m] = w
  BY <1>4 DEF MigrationInductive, MigrationTypes
<1>6. StageOf(m)' = StageOf(m)
  BY <1>3, <1>5 DEF StageOf
<1>7. worker'[m].seen = worker[m].seen /\ worker'[m].page = page /\ worker'[m].at = "commit"
  BY <1>3, <1>5
<1>10. PageOf(worker[m].seen, StageOf(m))' = page
  BY <1>4, <1>6, <1>7 DEF page, PageOf, KeysOf
<1>8. Informed(m)'
  BY <1>1, <1>4, <1>6, <1>7, <1>10 DEF MigrationInductive, Informed
<1>9. Fenced'
  BY <1>1, <1>4 DEF MigrationInductive, Fenced, Total, KeysOf
<1> QED
  BY <1>3, <1>4, <1>8, <1>9, InHandInductive DEF MigrationInductive, MigrationTypes

LEMMA FinishInductive ==
  ASSUME MigrationInductive, NEW m \in Migrators, Finish(m) PROVE MigrationInductive'
<1>1. fence.exists
  BY DEF Finish, MigrationInductive, Fenced
<1>2. fence' = [fence EXCEPT !.completed = TRUE]
      /\ fence \in [exists : BOOLEAN, revision : Nat, records : Nat, completed : BOOLEAN]
  BY DEF Finish, MigrationInductive, MigrationTypes
<1>3. fence' \in [exists : BOOLEAN, revision : Nat, records : Nat, completed : BOOLEAN]
      /\ fence'.exists /\ fence'.revision = fence.revision /\ fence'.records = fence.records
  BY <1>1, <1>2
<1> QED
  BY <1>1, <1>3, StopInductive DEF Finish

LEMMA DieInductive ==
  ASSUME MigrationInductive, NEW m \in Migrators, Die(m) PROVE MigrationInductive'
<1>1. fence.exists
  BY DEF Die, MigrationInductive, Fenced
<1> QED
  BY <1>1, StopInductive DEF Die, MigrationInductive, MigrationTypes, Fenced

\* A position is made before anything is read at it.
LEMMA ReadProgressInductive ==
  ASSUME Migratable, MigrationInductive, NEW m \in Migrators, ReadProgress(m)
  PROVE  MigrationInductive'
<1> DEFINE s == StageOf(m)
           p == IF progress[s].exists THEN progress[s]
                ELSE [NoProgress EXCEPT !.exists = TRUE, !.end = Max({0} \cup KeysOf(s))]
           w == IF ~p.completed THEN [worker[m] EXCEPT !.at = "page", !.seen = p]
                ELSE IF worker[m].stage = 4 THEN [Idle EXCEPT !.at = "finish"]
                ELSE [worker[m] EXCEPT !.stage = @ + 1]
<1>1. /\ worker[m] \in Workers /\ s \in Stages /\ progress[s] \in Positions
      /\ worker[m].at = "progress" /\ fence.exists
  BY StagesAre DEF ReadProgress, MigrationInductive, MigrationTypes, Workers, StageOf, Fenced
<1>2. /\ progress' = [progress EXCEPT ![s] = p] /\ worker' = [worker EXCEPT ![m] = w]
      /\ UNCHANGED <<rows, claimants, fence>>
  <2>1. progress' = [progress EXCEPT ![s] = p]
    BY DEF ReadProgress
  <2>2. worker' = [worker EXCEPT ![m] = w]
    BY DEF ReadProgress
  <2> QED
    BY <2>1, <2>2 DEF ReadProgress
<1>3. /\ p \in Positions /\ p.exists /\ p.revision = progress[s].revision
      /\ p.cursor = progress[s].cursor /\ p.records = progress[s].records
      /\ p.completed = progress[s].completed /\ \A k \in KeysOf(s) : k <= p.end
      /\ progress[s].exists => p = progress[s]
  <2>1. CASE progress[s].exists
    BY <1>1, <2>1 DEF MigrationInductive, Positioned
  <2>2. CASE ~progress[s].exists
    <3> DEFINE e == Max({0} \cup KeysOf(s))
    <3>1. e \in {0} \cup KeysOf(s) /\ \A k \in {0} \cup KeysOf(s) : k <= e
      <4> DEFINE all == {0} \cup KeysOf(s)
      <4>1. KeysOf(s) \in SUBSET KeysOf(s)
        OBVIOUS
      <4>2. IsFiniteSet(KeysOf(s)) /\ KeysOf(s) \in SUBSET Nat
        BY <1>1, <4>1, RowsFinite
      <4>3. all = KeysOf(s) \cup {0}
        OBVIOUS
      <4>4. IsFiniteSet(all) /\ all \in SUBSET Nat /\ all # {}
        BY <4>2, <4>3, FS_AddElement
      <4> HIDE DEF all
      <4>5. Max(all) \in all /\ \A k \in all : k <= Max(all)
        BY <4>4, Greatest
      <4> QED
        BY <4>5 DEF all
    <3>2. e \in {0} \cup Keys
      BY <3>1 DEF KeysOf
    <3> HIDE DEF e
    <3>3. p = [NoProgress EXCEPT !.exists = TRUE, !.end = e] /\ progress[s] = NoProgress
      BY <1>1, <2>2 DEF MigrationInductive, Positioned, e
    <3>4. p = [exists |-> TRUE, cursor |-> 0, end |-> e, revision |-> 0, records |-> 0,
               completed |-> FALSE]
      BY <3>3 DEF NoProgress
    <3>5. p \in Positions
      <4>1. 0 \in {0} \cup Keys /\ 0 \in Nat
        OBVIOUS
      <4> HIDE DEF p
      <4> QED
        BY <3>2, <3>4, <4>1 DEF Positions
    <3> QED
      BY <2>2, <3>1, <3>3, <3>4, <3>5 DEF NoProgress
  <2> QED
    BY <2>1, <2>2
<1> HIDE DEF p
<1>4. /\ w \in Workers
      /\ w.at \in {"page", "progress", "finish"}
      /\ w.at = "page" => w.seen = p /\ w.stage = worker[m].stage /\ ~p.completed
  <2>1. CASE ~p.completed
    BY <1>1, <1>3, <2>1 DEF Workers
  <2>2. CASE p.completed /\ worker[m].stage = 4
    <3>1. NoProgress \in Positions
      BY DEF NoProgress, Positions
    <3>2. w = [at |-> "finish", stage |-> 1, seen |-> NoProgress, page |-> {}, total |-> 0]
      BY <2>2 DEF Idle
    <3> QED
      <4>1. {} \in SUBSET Keys /\ 1 \in 1..4 /\ 0 \in Nat
        OBVIOUS
      <4> HIDE DEF w
      <4>2. w \in Workers
        BY <3>1, <3>2, <4>1 DEF Workers
      <4> QED
        BY <3>2, <4>2
  <2>3. CASE p.completed /\ worker[m].stage # 4
    <3>1. worker[m].stage + 1 \in 1..4
      BY <1>1, <2>3 DEF Workers
    <3> QED
      BY <1>1, <2>3, <3>1 DEF Workers
  <2> QED
    BY <2>1, <2>2, <2>3
<1> HIDE DEF w
<1>5. /\ progress'[s] = p /\ worker'[m] = w
      /\ \A t \in Stages : t # s => progress'[t] = progress[t]
      /\ \A n \in Migrators : n # m => worker'[n] = worker[n]
  BY <1>1, <1>2 DEF MigrationInductive, MigrationTypes
<1> HIDE DEF s
<1>6. MigrationTypes'
  BY <1>2, <1>3, <1>4 DEF MigrationInductive, MigrationTypes
<1>7. ASSUME NEW t \in Stages
      PROVE  /\ progress'[t].cursor = progress[t].cursor /\ progress'[t].records = progress[t].records
             /\ progress'[t].completed = progress[t].completed
             /\ progress[t].exists => progress'[t] = progress[t]
             /\ Past(t)' = Past(t) /\ KeysOf(t)' = KeysOf(t)
  <2>1. /\ progress'[t].cursor = progress[t].cursor /\ progress'[t].records = progress[t].records
        /\ progress'[t].completed = progress[t].completed
        /\ progress[t].exists => progress'[t] = progress[t]
    BY <1>3, <1>5
  <2> QED
    BY <1>2, <2>1 DEF Past, KeysOf
<1>8. Positioned'
  <2> SUFFICES ASSUME NEW t \in Stages
               PROVE  /\ progress'[t].records = Cardinality(Past(t)')
                      /\ IF progress'[t].exists THEN \A k \in KeysOf(t)' : k <= progress'[t].end
                         ELSE progress'[t] = NoProgress
                      /\ progress'[t].completed => KeysOf(t)' \subseteq Past(t)'
    BY DEF Positioned, NoProgress
  <2>1. CASE t = s
    BY <1>3, <1>5, <1>7, <2>1 DEF MigrationInductive, Positioned
  <2>2. CASE t # s
    BY <1>5, <1>7, <2>2 DEF MigrationInductive, Positioned
  <2> QED
    BY <2>1, <2>2
<1>9. Settled' /\ OwnerFromSource'
  BY <1>2, <1>7, StagesAre DEF MigrationInductive, Settled, OwnerFromSource
<1>10. Fenced'
  BY <1>1, <1>2, <1>7 DEF MigrationInductive, Fenced, Total, KeysOf
<1>11. ASSUME NEW n \in Migrators PROVE Informed(n)'
  <2>1. CASE n = m
    <3>1. w.at = "page" => StageOf(m)' = s
      BY <1>4, <1>5 DEF StageOf, s
    <3>2. w.at = "page" => w.seen = progress'[s] /\ p.revision <= p.revision
      BY <1>3, <1>4, <1>5 DEF Positions
    <3> QED
      BY <1>3, <1>4, <1>5, <2>1, <3>1, <3>2 DEF Informed
  <2>2. CASE n # m
    <3>1. worker'[n] = worker[n] /\ StageOf(n)' = StageOf(n) /\ StageOf(n) \in Stages
      BY <1>5, <2>2, StagesAre DEF StageOf, MigrationInductive, MigrationTypes, Workers
    <3>2. progress[StageOf(n)].exists => progress'[StageOf(n)] = progress[StageOf(n)]
      BY <1>7, <3>1
    <3>3. Total' = Total /\ PageOf(worker[n].seen, StageOf(n))' = PageOf(worker[n].seen, StageOf(n))
      BY <1>2, <3>1 DEF Total, PageOf, KeysOf
    <3> QED
      BY <3>1, <3>2, <3>3 DEF MigrationInductive, Informed
  <2> QED
    BY <2>1, <2>2
<1> QED
  BY <1>6, <1>8, <1>9, <1>10, <1>11 DEF MigrationInductive

---------------------------------------------------------------------------
\* What a batch learns adds to what is known, from the rows of its page.
LEMMA LearnedTrue ==
  ASSUME Migratable, MigrationTypes, NEW s \in Stages, NEW page \in SUBSET KeysOf(s)
  PROVE  /\ Learned(s, page) \in [AllClaims -> SourceAccounts \cup {Nothing}]
         /\ \A c \in AllClaims : claimants[c] # Nothing => Learned(s, page)[c] = claimants[c]
         /\ \A c \in AllClaims : claimants[c] = Nothing /\ Learned(s, page)[c] # Nothing =>
              /\ Declares(s)
              /\ \E k \in page : rows[s][k].claim = c /\ rows[s][k].account = Learned(s, page)[c]
<1>1. \A k \in page : k \in Keys /\ rows[s][k] \in SourceRows /\ rows[s][k] # Nothing
  BY DEF MigrationTypes, KeysOf
<1>2. ASSUME NEW c \in AllClaims
      PROVE  /\ Learned(s, page)[c] \in SourceAccounts \cup {Nothing}
             /\ claimants[c] # Nothing => Learned(s, page)[c] = claimants[c]
             /\ claimants[c] = Nothing /\ Learned(s, page)[c] # Nothing =>
                  /\ Declares(s)
                  /\ \E k \in page : rows[s][k].claim = c /\ rows[s][k].account = Learned(s, page)[c]
  <2> DEFINE learns == claimants[c] = Nothing /\ Declares(s) /\ \E k \in page : c = rows[s][k].claim
             j == CHOOSE k \in page : c = rows[s][k].claim
  <2>1. Learned(s, page)[c] = IF learns THEN rows[s][j].account ELSE claimants[c]
    BY DEF Learned
  <2>2. learns => j \in page /\ rows[s][j].claim = c
    OBVIOUS
  <2>3. CASE learns
    <3> HIDE DEF j
    <3>1. rows[s][j].account \in SourceAccounts
      BY <1>1, <2>2, <2>3 DEF SourceAccounts
    <3> QED
      BY <2>1, <2>2, <2>3, <3>1
  <2>4. CASE ~learns
    <3>1. Learned(s, page)[c] = claimants[c]
      BY <2>1, <2>4
    <3> QED
      BY <3>1 DEF MigrationTypes
  <2> QED
    BY <2>3, <2>4
<1>3. Learned(s, page) = [c \in AllClaims |-> Learned(s, page)[c]]
  BY DEF Learned
<1> QED
  BY <1>2, <1>3

\* A batch in one transaction, if nobody committed since its position was read.
LEMMA CommitInductive ==
  ASSUME Migratable, MigrationInductive, NEW m \in Migrators, Commit(m)
  PROVE  MigrationInductive'
<1>0. PICK s \in Stages : s = StageOf(m)
  BY StagesAre DEF MigrationInductive, MigrationTypes, Workers, StageOf
<1> DEFINE page == worker[m].page
           p == worker[m].seen
<1>1. /\ worker[m] \in Workers /\ s \in Stages /\ progress[s] \in Positions
      /\ worker[m].at = "commit" /\ fence.exists /\ p \in Positions
      /\ fence \in [exists : BOOLEAN, revision : Nat, records : Nat, completed : BOOLEAN]
  BY DEF Commit, MigrationInductive, MigrationTypes, Workers, Fenced
<1>2. CASE ~Current(m)
  <2> DEFINE w == [worker[m] EXCEPT !.at = "progress"]
  <2>1. w \in Workers /\ w.at = "progress"
    BY <1>1 DEF Workers
  <2>2. worker' = [worker EXCEPT ![m] = w] /\ UNCHANGED <<rows, progress, claimants, fence>>
    BY <1>2 DEF Commit, Enter
  <2> HIDE DEF w
  <2>3. Informed(m)'
    BY <2>1, <2>2 DEF Informed, MigrationInductive, MigrationTypes
  <2>4. Fenced'
    BY <1>1, <2>2 DEF MigrationInductive, Fenced, Total, KeysOf
  <2> QED
    BY <1>1, <2>1, <2>2, <2>3, <2>4, InHandInductive
<1>3. CASE Current(m) /\ Conflict(s, page)
  BY <1>0, <1>1, <1>3, StopInductive DEF Commit, MigrationInductive, Fenced
<1>4. CASE Current(m) /\ ~Conflict(s, page)
  <2> DEFINE q == [progress[s] EXCEPT !.cursor = Cursor(p, page), !.completed = (page = {}),
                     !.revision = progress[s].revision + 1,
                     !.records = progress[s].records + Cardinality(page)]
             w == [worker[m] EXCEPT !.at = "progress", !.seen = NoProgress, !.page = {}]
  <2>1. /\ claimants' = Learned(s, page) /\ progress' = [progress EXCEPT ![s] = q]
        /\ worker' = [worker EXCEPT ![m] = w] /\ UNCHANGED <<rows, fence>>
    BY <1>0, <1>4 DEF Commit
  <2>2. p = progress[s] /\ p.exists /\ ~p.completed /\ page = PageOf(p, s)
    BY <1>0, <1>1, <1>4 DEF MigrationInductive, Informed, Current
  <2>3. /\ page \subseteq KeysOf(s) /\ Cursor(p, page) \in {0} \cup Keys
        /\ p.cursor <= Cursor(p, page)
        /\ \A k \in page : p.cursor < k /\ k <= Cursor(p, page)
        /\ \A k \in KeysOf(s) : p.cursor < k /\ k <= Cursor(p, page) => k \in page
        /\ page = {} => \A k \in KeysOf(s) : k <= p.end => k <= p.cursor
    <3> HIDE DEF page, p
    <3> QED
      BY <1>1, <2>2, PageExact
  <2>4. IsFiniteSet(page) /\ Cardinality(page) \in Nat
    BY <1>1, <2>3, RowsFinite
  <2> HIDE DEF page, p
  <2>5. /\ q \in Positions /\ q.exists /\ q.cursor = Cursor(p, page) /\ q.end = p.end
        /\ q.completed = (page = {}) /\ q.revision = p.revision + 1
        /\ q.records = p.records + Cardinality(page)
    <3>1. PICK b \in BOOLEAN : b = (page = {})
      OBVIOUS
    <3>2. PICK c \in {0} \cup Keys : c = Cursor(p, page)
      BY <2>3
    <3>3. PICK n \in Nat : n = p.records + Cardinality(page)
      BY <1>1, <2>4 DEF Positions
    <3>4. PICK r \in Nat : r = p.revision + 1
      BY <1>1 DEF Positions
    <3>5. q = [p EXCEPT !.cursor = c, !.completed = b, !.revision = r, !.records = n]
      BY <2>2, <3>1, <3>2, <3>3, <3>4
    <3>6. p \in Positions
      BY <1>1
    <3> HIDE DEF q
    <3>7. /\ q \in Positions /\ q.exists = p.exists /\ q.cursor = c /\ q.end = p.end
          /\ q.completed = b /\ q.revision = r /\ q.records = n
      BY <3>5, <3>6 DEF Positions
    <3> QED
      BY <2>2, <3>1, <3>2, <3>3, <3>4, <3>7
  <2>6. NoProgress \in Positions
    <3>1. 0 \in {0} \cup Keys /\ 0 \in Nat
      OBVIOUS
    <3> QED
      BY <3>1 DEF NoProgress, Positions
  <2>7. w \in Workers /\ w.at = "progress"
    BY <1>1, <2>6 DEF Workers
  <2> HIDE DEF q, w
  <2>8. /\ progress'[s] = q /\ worker'[m] = w
        /\ \A t \in Stages : t # s => progress'[t] = progress[t]
        /\ \A n \in Migrators : n # m => worker'[n] = worker[n]
    BY <1>1, <2>1 DEF MigrationInductive, MigrationTypes
  <2>9. /\ claimants' \in [AllClaims -> SourceAccounts \cup {Nothing}]
        /\ \A c \in AllClaims : claimants[c] # Nothing => claimants'[c] = claimants[c]
        /\ \A c \in AllClaims : claimants[c] = Nothing /\ claimants'[c] # Nothing =>
              \E k \in page : /\ Declares(s) /\ rows[s][k].claim = c
                             /\ rows[s][k].account = claimants'[c]
    BY <1>1, <2>1, <2>3, LearnedTrue DEF MigrationInductive
  <2>10. \A k \in page : Declares(s) /\ rows[s][k].claim \in AllClaims =>
           claimants'[rows[s][k].claim] = rows[s][k].account
    BY <1>4, <2>1 DEF Conflict
  <2>11. MigrationTypes'
    BY <2>1, <2>5, <2>7, <2>9 DEF MigrationInductive, MigrationTypes
  <2>12. ASSUME NEW t \in Stages, t # s
         PROVE  progress'[t] = progress[t] /\ Past(t)' = Past(t) /\ KeysOf(t)' = KeysOf(t)
    BY <2>1, <2>8, <2>12 DEF Past, KeysOf
  <2>13. Past(s)' = Past(s) \cup page /\ Past(s) \cap page = {} /\ KeysOf(s)' = KeysOf(s)
    <3>1. \A k \in KeysOf(s) : k \in Nat
      BY DEF KeysOf, Migratable
    <3>2. p.cursor \in Nat /\ Cursor(p, page) \in Nat
      <4>0. Keys \subseteq Nat
        BY DEF Migratable
      <4>1. \A k \in {0} \cup Keys : k \in Nat
        BY <4>0
      <4> QED
        BY <1>1, <2>3, <4>1 DEF Positions
    <3>3. Past(s)' = {k \in KeysOf(s) : k <= Cursor(p, page)}
      BY <2>1, <2>5, <2>8 DEF Past, KeysOf
    <3>4. Past(s) = {k \in KeysOf(s) : k <= p.cursor}
      BY <2>2 DEF Past
    <3>5. \A k \in KeysOf(s) : k <= Cursor(p, page) <=> (k <= p.cursor \/ k \in page)
      BY <2>3, <3>1, <3>2
    <3>6. \A k \in page : ~(k <= p.cursor)
      BY <2>3, <3>1, <3>2
    <3>7. KeysOf(s)' = KeysOf(s)
      BY <2>1 DEF KeysOf
    <3> QED
      BY <2>3, <3>3, <3>4, <3>5, <3>6, <3>7
  <2>14. ASSUME NEW t \in Stages PROVE Past(t) \subseteq Past(t)'
    BY <2>12, <2>13
  <2>15. Positioned'
    <3> SUFFICES ASSUME NEW t \in Stages
                 PROVE  /\ progress'[t].records = Cardinality(Past(t)')
                        /\ IF progress'[t].exists THEN \A k \in KeysOf(t)' : k <= progress'[t].end
                           ELSE progress'[t] = NoProgress
                        /\ progress'[t].completed => KeysOf(t)' \subseteq Past(t)'
      BY DEF Positioned, NoProgress
    <3>1. CASE t # s
      BY <2>12, <3>1 DEF MigrationInductive, Positioned
    <3>2. CASE t = s
      <4>1. Cardinality(Past(s) \cup page) = Cardinality(Past(s)) + Cardinality(page)
        <5>1. Past(s) \in SUBSET KeysOf(s)
          BY DEF Past
        <5>2. IsFiniteSet(Past(s)) /\ Cardinality(Past(s)) \in Nat
          BY <1>1, <5>1, RowsFinite
        <5>3. Cardinality(Past(s) \cup page) =
                Cardinality(Past(s)) + Cardinality(page) - Cardinality(Past(s) \cap page)
          BY <2>4, <5>2, FS_Union
        <5> QED
          <6>1. Cardinality(Past(s) \cap page) = 0
            BY <2>13, FS_EmptySet
          <6> QED
            BY <2>4, <5>2, <5>3, <6>1
      <4>2. p.records = Cardinality(Past(s)) /\ \A k \in KeysOf(s) : k <= p.end
        BY <1>1, <2>2 DEF MigrationInductive, Positioned
      <4>3. page = {} => KeysOf(s) \subseteq Past(s)
        BY <2>2, <2>3, <4>2 DEF Past
      <4> QED
        BY <2>5, <2>8, <2>13, <3>2, <4>1, <4>2, <4>3
    <3> QED
      BY <3>1, <3>2
  <2>16. Settled'
    <3> SUFFICES ASSUME NEW t \in Stages, NEW k \in Past(t)', Declares(t),
                        rows[t][k].claim \in AllClaims
                 PROVE  claimants'[rows[t][k].claim] = rows[t][k].account
      BY <2>1 DEF Settled, Declares
    <3>1. CASE k \in Past(t)
      <4>1. claimants[rows[t][k].claim] = rows[t][k].account
        BY <3>1 DEF MigrationInductive, Settled
      <4>2. rows[t][k] \in SourceRows
        BY <3>1 DEF Past, KeysOf, MigrationInductive, MigrationTypes
      <4>3. rows[t][k].account # Nothing
        BY <4>2 DEF SourceAccounts, Migratable
      <4> QED
        BY <2>9, <4>1, <4>3
    <3>2. CASE t = s /\ k \in page
      BY <2>10, <3>2
    <3> QED
      BY <2>12, <2>13, <3>1, <3>2
  <2>17. OwnerFromSource'
    <3> SUFFICES ASSUME NEW c \in AllClaims, claimants'[c] # Nothing
                 PROVE  \E t \in {"claims", "accounts"}, k \in Keys :
                          /\ rows[t][k] # Nothing /\ rows[t][k].claim = c
                          /\ rows[t][k].account = claimants'[c] /\ k <= progress'[t].cursor
      BY <2>1 DEF OwnerFromSource
    <3>1. CASE claimants[c] # Nothing
      <4>1. PICK t \in {"claims", "accounts"}, k \in Keys :
              /\ rows[t][k] # Nothing /\ rows[t][k].claim = c
              /\ rows[t][k].account = claimants[c] /\ k <= progress[t].cursor
        BY <3>1 DEF MigrationInductive, OwnerFromSource
      <4>2. t \in Stages /\ k \in Past(t)
        BY <4>1, StagesAre DEF Past, KeysOf
      <4>3. k <= progress'[t].cursor
        BY <2>14, <4>2 DEF Past
      <4> QED
        BY <2>9, <3>1, <4>1, <4>3
    <3>2. CASE claimants[c] = Nothing
      <4>1. PICK k \in page : /\ Declares(s) /\ rows[s][k].claim = c
                             /\ rows[s][k].account = claimants'[c]
        BY <2>9, <3>2
      <4>2. k \in Keys /\ rows[s][k] # Nothing /\ k <= progress'[s].cursor
        BY <2>3, <2>5, <2>8 DEF KeysOf
      <4> QED
        BY <4>1, <4>2 DEF Declares
    <3> QED
      BY <3>1, <3>2
  <2>18. Fenced'
    <3>1. ~fence.completed
      BY <1>1, <2>2 DEF MigrationInductive, Fenced
    <3> QED
      BY <1>1, <2>1, <3>1 DEF MigrationInductive, Fenced, Total, KeysOf
  <2>19. ASSUME NEW n \in Migrators PROVE Informed(n)'
    <3>1. CASE n = m
      BY <2>7, <2>8, <3>1 DEF Informed
    <3>2. CASE n # m
      <4>1. worker'[n] = worker[n] /\ StageOf(n)' = StageOf(n) /\ StageOf(n) \in Stages
            /\ worker[n].seen \in Positions
        BY <2>8, <3>2, StagesAre DEF StageOf, MigrationInductive, MigrationTypes, Workers
      <4>2. Total' = Total /\ PageOf(worker[n].seen, StageOf(n))' = PageOf(worker[n].seen, StageOf(n))
        BY <2>1, <4>1 DEF Total, PageOf, KeysOf
      <4>3. CASE StageOf(n) # s
        BY <2>8, <4>1, <4>2, <4>3 DEF MigrationInductive, Informed
      <4>4. CASE StageOf(n) = s
        <5>1. p.revision \in Nat /\ worker[n].seen.revision \in Nat
          BY <1>1, <4>1 DEF Positions
        <5>2. worker[n].at \in {"page", "commit"} =>
                /\ worker[n].seen.exists /\ ~worker[n].seen.completed
                /\ worker[n].seen.revision <= p.revision
          BY <2>2, <4>4 DEF MigrationInductive, Informed
        <5>3. worker[n].at \in {"page", "commit"} =>
                worker[n].seen.revision <= q.revision /\ worker[n].seen.revision # q.revision
          BY <2>5, <5>1, <5>2
        <5>4. /\ worker[n].at = "record" => worker[n].total = Total
              /\ worker[n].at = "commit" => worker[n].page = PageOf(worker[n].seen, StageOf(n))
          BY DEF MigrationInductive, Informed
        <5> QED
          BY <2>5, <2>8, <4>1, <4>2, <4>4, <5>2, <5>3, <5>4 DEF Informed
      <4> QED
        BY <4>3, <4>4
    <3> QED
      BY <3>1, <3>2
  <2> QED
    BY <2>11, <2>15, <2>16, <2>17, <2>18, <2>19 DEF MigrationInductive
<1> QED
  BY <1>2, <1>3, <1>4

---------------------------------------------------------------------------
\* While nobody has begun, no table is known.
LEMMA NothingPassed ==
  ASSUME Migratable, NEW s \in Stages, progress[s] = NoProgress PROVE Past(s) = {}
<1>1. progress[s].cursor = 0 /\ \A k \in KeysOf(s) : k \in Nat \ {0}
  BY DEF NoProgress, KeysOf, Migratable
<1> QED
  BY <1>1 DEF Past

LEMMA NothingBegun ==
  ASSUME Migratable, MigrationTypes, \A s \in Stages : progress[s] = NoProgress,
         \A m \in Migrators : worker[m].at = "idle", fence = NoFence,
         \A c \in AllClaims : claimants[c] = Nothing
  PROVE  MigrationInductive
<1>1. Positioned /\ Settled
  <2>1. ASSUME NEW s \in Stages
        PROVE  Past(s) = {} /\ progress[s] = NoProgress /\ progress[s].records = Cardinality(Past(s))
               /\ ~progress[s].exists /\ ~progress[s].completed
    BY NothingPassed, FS_EmptySet DEF NoProgress
  <2> QED
    BY <2>1 DEF Positioned, Settled
<1>2. Fenced /\ OwnerFromSource /\ \A m \in Migrators : Informed(m)
  BY DEF Fenced, OwnerFromSource, Informed, NoFence
<1> QED
  BY <1>1, <1>2 DEF MigrationInductive

LEMMA MigrationInitial ==
  ASSUME Migratable, MigrationInit PROVE MigrationInductive
<1>1. PICK d \in Databases :
        rows = [s \in Stages |-> [k \in Keys |-> IF k \in DOMAIN d.rows[s] THEN d.rows[s][k]
                                                ELSE Nothing]]
  BY DEF MigrationInit
<1>2. fence = NoFence /\ progress = [s \in Stages |-> NoProgress]
      /\ claimants = [c \in AllClaims |-> Nothing] /\ worker = [m \in Migrators |-> Idle]
  BY DEF MigrationInit
<1>3. rows \in [Stages -> [Keys -> SourceRows \cup {Nothing}]]
  <2>1. \A s \in Stages : \A k \in DOMAIN d.rows[s] : d.rows[s][k] \in SourceRows
    BY DEF SourceRows
  <2> QED
    BY <1>1, <2>1
<1>4. NoProgress \in Positions
  <2>1. 0 \in {0} \cup Keys /\ 0 \in Nat
    OBVIOUS
  <2> QED
    BY <2>1 DEF NoProgress, Positions
<1>5. Idle \in Workers
  <2>1. {} \in SUBSET Keys /\ 1 \in 1..4 /\ 0 \in Nat
    OBVIOUS
  <2> QED
    BY <1>4, <2>1 DEF Idle, Workers
<1>6. fence \in [exists : BOOLEAN, revision : Nat, records : Nat, completed : BOOLEAN]
  BY <1>2 DEF NoFence
<1>7. MigrationTypes
  BY <1>2, <1>3, <1>4, <1>5, <1>6 DEF MigrationTypes
<1>8. \A m \in Migrators : worker[m].at = "idle"
  BY <1>2 DEF Idle
<1> QED
  BY <1>2, <1>7, <1>8, NothingBegun

\* What an old server writes it writes before the fence.
LEMMA WriteInductive ==
  ASSUME Migratable, MigrationInductive, NEW s \in Stages, NEW k \in Keys, NEW r \in SourceRows,
         Write(s, k, r)
  PROVE  MigrationInductive'
<1>1. /\ ~fence.exists /\ rows' = [rows EXCEPT ![s][k] = r]
      /\ UNCHANGED <<fence, progress, claimants, worker>>
  BY DEF Write, Writable
<1>2. /\ fence = NoFence /\ \A t \in Stages : progress[t] = NoProgress
      /\ \A m \in Migrators : worker[m].at = "idle"
  BY <1>1 DEF MigrationInductive, Fenced
<1>3. ASSUME NEW c \in AllClaims PROVE claimants[c] = Nothing
  <2> SUFFICES ASSUME claimants[c] # Nothing PROVE FALSE
    OBVIOUS
  <2>1. PICK t \in {"claims", "accounts"}, j \in Keys :
          rows[t][j] # Nothing /\ j <= progress[t].cursor
    BY DEF MigrationInductive, OwnerFromSource
  <2>2. t \in Stages /\ j \in Past(t)
    BY <2>1, StagesAre DEF Past, KeysOf
  <2> QED
    BY <1>2, <2>2, NothingPassed
<1>4. MigrationTypes'
  BY <1>1 DEF MigrationInductive, MigrationTypes
<1>5. Positioned' /\ Settled'
  <2>1. ASSUME NEW t \in Stages PROVE Past(t)' = {}
    <3>1. progress'[t].cursor = 0 /\ \A j \in KeysOf(t)' : j \in Nat \ {0}
      BY <1>1, <1>2 DEF NoProgress, KeysOf, Migratable
    <3> QED
      BY <3>1 DEF Past
  <2> QED
    <3>1. ASSUME NEW t \in Stages
          PROVE  /\ progress'[t] = NoProgress /\ progress'[t].records = Cardinality(Past(t)')
                 /\ ~progress'[t].exists /\ ~progress'[t].completed
      <4>1. progress'[t] = NoProgress
        BY <1>1, <1>2
      <4>2. NoProgress.records = 0 /\ ~NoProgress.exists /\ ~NoProgress.completed
        BY DEF NoProgress
      <4>3. Cardinality({}) = 0
        BY FS_EmptySet
      <4>4. Past(t)' = {}
        BY <2>1
      <4> QED
        BY <4>1, <4>2, <4>3, <4>4
    <3> QED
      BY <2>1, <3>1 DEF Positioned, Settled, NoProgress
<1>6. Fenced' /\ OwnerFromSource' /\ \A m \in Migrators : Informed(m)'
  BY <1>1, <1>2, <1>3 DEF Fenced, OwnerFromSource, Informed, NoFence
<1> QED
  BY <1>4, <1>5, <1>6 DEF MigrationInductive

---------------------------------------------------------------------------
LEMMA MigrationNextInductive ==
  ASSUME Migratable, MigrationInductive, [MigrationNext]_migrationVars PROVE MigrationInductive'
<1>1. CASE UNCHANGED migrationVars
  <2>0. UNCHANGED <<rows, fence, progress, claimants, worker>>
    BY <1>1 DEF migrationVars
  <2>1. MigrationTypes' /\ OwnerFromSource'
    BY <2>0 DEF MigrationInductive, MigrationTypes, OwnerFromSource
  <2>2. Positioned' /\ Settled'
    BY <2>0 DEF MigrationInductive, Positioned, Settled, Past, KeysOf
  <2>3. Fenced'
    BY <2>0 DEF MigrationInductive, Fenced, Total, KeysOf
  <2>4. ASSUME NEW m \in Migrators PROVE Informed(m)'
    <3>1. StageOf(m)' = StageOf(m) /\ Total' = Total
      BY <2>0 DEF StageOf, Total, KeysOf
    <3>2. PageOf(worker[m].seen, StageOf(m))' = PageOf(worker[m].seen, StageOf(m))
      BY <2>0, <3>1 DEF PageOf, KeysOf
    <3>3. Informed(m)
      BY DEF MigrationInductive
    <3> QED
      BY <2>0, <3>1, <3>2, <3>3 DEF Informed
  <2> QED
    BY <2>1, <2>2, <2>3, <2>4 DEF MigrationInductive
<1>2. ASSUME NEW s \in Stages, NEW k \in Keys, Write(s, k, [claim |-> "c2", account |-> "b"])
      PROVE  MigrationInductive'
  <2>1. [claim |-> "c2", account |-> "b"] \in SourceRows
    BY DEF SourceRows, Late
  <2> QED
    BY <1>2, <2>1, WriteInductive
<1>3. ASSUME NEW m \in Migrators,
             \/ Migrate(m) \/ Count(m) \/ Record(m) \/ ReadProgress(m) \/ ReadPage(m)
             \/ Commit(m) \/ Finish(m) \/ Die(m)
      PROVE  MigrationInductive'
  BY <1>3, MigrateInductive, CountInductive, RecordInductive, ReadProgressInductive,
     ReadPageInductive, CommitInductive, FinishInductive, DieInductive
<1> QED
  BY <1>1, <1>2, <1>3 DEF MigrationNext

LEMMA MigrationHeld ==
  ASSUME Migratable, MigrationInductive PROVE MigrationIInv
<1>1. MigrationTypeOK
  BY DEF MigrationInductive, MigrationTypes, MigrationTypeOK, Positions, Workers
<1>2. ReadyComplete
  <2> SUFFICES ASSUME Ready, NEW s \in Stages, NEW k \in Keys, rows[s][k] # Nothing
               PROVE  /\ k <= progress[s].cursor
                      /\ Declares(s) /\ rows[s][k].claim \in AllClaims =>
                           claimants[rows[s][k].claim] = rows[s][k].account
    BY DEF ReadyComplete
  <2>1. k \in Past(s)
    BY DEF Ready, MigrationInductive, Fenced, Positioned, KeysOf
  <2> QED
    BY <2>1 DEF Past, MigrationInductive, Settled
<1>3. CountedOnce
  BY DEF MigrationInductive, Positioned, Fenced, CountedOnce, Past
<1> QED
  BY <1>1, <1>2, <1>3 DEF MigrationIInv, MigrationInductive

\* Readiness means that every row of every table was migrated and that the account of a
\* claim is the one the source names; each row is counted once, whatever died on the way
\* (migration_progress, migration_page, commit_migration_batch, identity_batches).
THEOREM MigrationInvariant == Migratable => (MigrationSpec => []MigrationIInv)
<1> SUFFICES ASSUME Migratable PROVE MigrationSpec => []MigrationIInv
  OBVIOUS
<1>1. MigrationInit => MigrationInductive
  BY MigrationInitial
<1>2. MigrationInductive /\ [MigrationNext]_migrationVars => MigrationInductive'
  BY MigrationNextInductive
<1>3. MigrationInductive => MigrationIInv
  BY MigrationHeld
<1> QED
  BY <1>1, <1>2, <1>3, PTL DEF MigrationSpec

---------------------------------------------------------------------------
(* Backfill. *)

\* The tables are finite, and what a behaviour begins with is rows of them.
Importable ==
  /\ IsFiniteSet(Rows) /\ Cap \in Nat
  /\ Stores \subseteq
       [source : [Tables -> SUBSET Rows], target : [Tables -> SUBSET Rows],
        file : Int, server : Int, failures : Int]

FileRows == [rev : Nat, by : {"file"}]
KeptRows == [rev : Nat, by : {"file", "server", "removed"}]

\* The invariant of Backfill, part by part.
BackfillTypes ==
  /\ source \in [Tables -> [Rows -> FileRows]]
  /\ target \in [Tables -> [Rows -> KeptRows]]
  /\ run \in [at : Tables \cup {"stopped", "reported"}, todo : SUBSET Rows]
  /\ run.at \in Tables => run.todo \subseteq There(source, run.at)

\* The tables that a run has done.
Finished(t) ==
  \/ run.at = "reported"
  \/ run.at = "loans" /\ t # "loans"
  \/ run.at = "devices" /\ t \in {"aliases", "accounts", "users"}
  \/ run.at = "users" /\ t \in {"aliases", "accounts"}
  \/ run.at = "accounts" /\ t = "aliases"

\* What it has read back is still so: nobody writes beside it.
SameRows ==
  \A t \in Tables, r \in Rows :
    r \in There(source, t) /\ (Finished(t) \/ (run.at = t /\ r \notin run.todo)) =>
      target[t][r] = source[t][r]

\* And so is what it has checked on its way.
Checked ==
  /\ \A t \in {"aliases", "devices"} : Finished(t) => Shown(t) \subseteq There(source, t)
  /\ run.at = "loans" => LoansFit
  /\ run.at = "reported" => NothingExtra

BackfillInductive == BackfillTypes /\ SameRows /\ Checked /\ Repeatable

---------------------------------------------------------------------------
\* A set of rows within one that fits fits.
LEMMA FitsWithin ==
  ASSUME IsFiniteSet(Rows), Cap \in Nat, NEW S \in SUBSET Rows, NEW T \in SUBSET Rows,
         T \subseteq S, Cardinality(S) <= Cap
  PROVE  Cardinality(T) <= Cap
<1>1. IsFiniteSet(S) /\ IsFiniteSet(T)
  BY FS_Subset
<1>2. Cardinality(T) <= Cardinality(S)
  BY <1>1, FS_Subset
<1>3. Cardinality(S) \in Nat /\ Cardinality(T) \in Nat
  BY <1>1, FS_CardinalityType
<1> QED
  BY <1>2, <1>3

\* What a run reports is what it has checked.
LEMMA ReportedExact ==
  ASSUME BackfillTypes, SameRows, Checked PROVE BackfillTypeOK /\ ReportExact
<1>1. BackfillTypeOK
  BY DEF BackfillTypes, BackfillTypeOK, FileRows
<1>2. ASSUME run.at = "reported", NEW t \in Tables
      PROVE  Fits(t)
  BY <1>2 DEF Checked, NothingExtra
<1>3. ASSUME run.at = "reported", NEW t \in Tables, NEW r \in Rows
      PROVE  target[t][r] = source[t][r] \/ (Removed(t, r) /\ source[t][r] = NoRow)
  <2>1. CASE r \in There(source, t)
    BY <1>3, <2>1 DEF SameRows, Finished
  <2>2. CASE source[t][r] = NoRow /\ target[t][r] # NoRow /\ ~Removed(t, r)
    <3>1. r \in Shown(t) /\ r \in There(target, t) /\ r \notin There(source, t)
      BY <2>2 DEF Shown, There
    <3>2. There(target, "loans") \subseteq There(source, "loans")
      BY <1>3 DEF Checked, NothingExtra
    <3>3. ASSUME t # "loans" PROVE Shown(t) \subseteq There(source, t)
      BY <1>3, <3>3 DEF Checked, NothingExtra, Finished, Tables
    <3> QED
      BY <3>1, <3>2, <3>3
  <2> QED
    BY <2>1, <2>2 DEF There
<1> QED
  BY <1>1, <1>2, <1>3 DEF ReportExact

LEMMA BackfillInitial ==
  ASSUME Importable, BackfillInit PROVE BackfillInductive
<1>1. PICK s \in Stores :
        /\ source = [t \in Tables |-> [r \in Rows |->
             IF r \in s.source[t] THEN [rev |-> 1, by |-> "file"] ELSE NoRow]]
        /\ target = [t \in Tables |-> [r \in Rows |->
             IF r \in s.target[t] THEN [rev |-> 1, by |-> "server"] ELSE NoRow]]
        /\ mixed = (\E t \in Tables : s.target[t] # {})
        /\ run = Stopped
  BY DEF BackfillInit
<1>2. s.target \in [Tables -> SUBSET Rows]
  BY <1>1 DEF Importable
<1>3. run.at = "stopped" /\ run.todo = {} /\ run \in [at : Tables \cup {"stopped", "reported"}, todo : SUBSET Rows]
  BY <1>1 DEF Stopped
<1>4. BackfillTypes
  <2>1. source \in [Tables -> [Rows -> FileRows]]
    BY <1>1 DEF FileRows, NoRow
  <2>2. target \in [Tables -> [Rows -> KeptRows]]
    BY <1>1 DEF KeptRows, NoRow
  <2> QED
    BY <1>3, <2>1, <2>2 DEF BackfillTypes, Tables
<1>5. SameRows /\ Checked
  BY <1>3 DEF SameRows, Checked, Finished, Tables
<1>6. Repeatable
  BY <1>1, <1>2 DEF Repeatable
<1> QED
  BY <1>4, <1>5, <1>6 DEF BackfillInductive

\* A run that stops has nothing left to keep.
LEMMA StoppedInductive ==
  ASSUME source' \in [Tables -> [Rows -> FileRows]], target' \in [Tables -> [Rows -> KeptRows]],
         run' = Stopped, Repeatable'
  PROVE  BackfillInductive'
<1>1. run'.at = "stopped" /\ run'.todo = {} /\ run' \in [at : Tables \cup {"stopped", "reported"}, todo : SUBSET Rows]
  BY DEF Stopped
<1>2. BackfillTypes'
  BY <1>1 DEF BackfillTypes, Tables
<1>3. SameRows' /\ Checked'
  BY <1>1 DEF SameRows, Checked, Finished, Tables
<1> QED
  BY <1>2, <1>3 DEF BackfillInductive

\* So does one that bails.
LEMMA BailInductive ==
  ASSUME BackfillInductive, Bail, UNCHANGED <<source, mixed>>
  PROVE  BackfillInductive' /\ RowsKept
<1>1. Repeatable'
  BY DEF BackfillInductive, Repeatable, Bail
<1>2. BackfillInductive'
  BY <1>1, StoppedInductive DEF BackfillInductive, BackfillTypes, Bail
<1> QED
  BY <1>2 DEF RowsKept, Bail

\* A turn to the next table, when what was done agrees.
LEMMA TurnInductive ==
  ASSUME BackfillInductive, NEW at \in Tables, Turn(at), UNCHANGED <<source, target, mixed>>,
         \A t \in Tables : \A r \in There(source, t) : Finished(t)' => target[t][r] = source[t][r],
         \A t \in {"aliases", "devices"} : Finished(t)' => Shown(t) \subseteq There(source, t),
         at = "loans" => LoansFit
  PROVE  BackfillInductive' /\ RowsKept
<1>1. run'.at = at /\ run'.todo = There(source, at) /\ run' \in [at : Tables \cup {"stopped", "reported"}, todo : SUBSET Rows]
  BY DEF Turn, There
<1>2. BackfillTypes'
  BY <1>1 DEF BackfillInductive, BackfillTypes, There
<1>3. SameRows'
  BY <1>1 DEF SameRows, There
<1>4. Checked'
  BY <1>1 DEF Checked, Shown, There, Removed, LoansFit, Tables
<1>5. Repeatable'
  BY DEF BackfillInductive, Repeatable
<1> QED
  BY <1>2, <1>3, <1>4, <1>5 DEF BackfillInductive, RowsKept

\* A run begins.
LEMMA BeginInductive ==
  ASSUME BackfillInductive, Begin PROVE BackfillInductive' /\ RowsKept
<1>1. Turn("aliases") /\ UNCHANGED <<source, target, mixed>>
  BY DEF Begin
<1> QED
  BY <1>1, TurnInductive DEF Turn, Finished, Tables

\* The aliases are replaced together, if none of them is one that was deleted.
LEMMA CopyAliasesInductive ==
  ASSUME Importable, BackfillInductive, CopyAliases PROVE BackfillInductive' /\ RowsKept
<1>1. CASE ~AliasesMatch
  BY <1>1, BailInductive DEF CopyAliases
<1>2. CASE AliasesMatch
  <2>0. /\ target' = [target EXCEPT !["aliases"] = Aliases] /\ Turn("accounts")
        /\ UNCHANGED <<source, mixed>>
    BY <1>2 DEF CopyAliases
  <2>1. /\ run'.at = "accounts" /\ run'.todo = There(source, "accounts")
        /\ run' \in [at : Tables \cup {"stopped", "reported"}, todo : SUBSET Rows]
    BY <2>0 DEF Turn, There, Tables
  <2>2. Aliases \in [Rows -> KeptRows]
    BY DEF BackfillInductive, BackfillTypes, Aliases, FileRows, KeptRows, Tables
  <2>3. target' \in [Tables -> [Rows -> KeptRows]]
    BY <2>0, <2>2 DEF BackfillInductive, BackfillTypes
  <2>4. ASSUME NEW t \in Tables, t # "aliases" PROVE target'[t] = target[t]
    BY <2>0, <2>4 DEF BackfillInductive, BackfillTypes
  <2>5. target'["aliases"] = Aliases
    BY <2>0 DEF BackfillInductive, BackfillTypes, Tables
  <2>6. ASSUME NEW r \in There(source, "aliases")
        PROVE  target'["aliases"][r] = source["aliases"][r] /\ ~Removed("aliases", r)
    BY <1>2, <2>5 DEF Aliases, AliasesMatch, There
  <2>7. ASSUME NEW r \in Rows \ There(source, "aliases")
        PROVE  target'["aliases"][r] = target["aliases"][r]
    BY <2>5 DEF Aliases
  <2>8. BackfillTypes'
    BY <2>0, <2>1, <2>3 DEF BackfillInductive, BackfillTypes, There
  <2>9. SameRows'
    BY <2>0, <2>1, <2>6 DEF SameRows, Finished, There, Tables
  <2>10. Shown("aliases")' \subseteq There(source, "aliases")
    BY <1>2, <2>6, <2>7 DEF AliasesMatch, Shown, There, Removed
  <2>11. Checked'
    BY <2>0, <2>1, <2>10 DEF Checked, Finished, There, Tables
  <2>12. Repeatable'
    BY <2>0, <2>4, <2>6, <2>7 DEF BackfillInductive, Repeatable
  <2>13. ASSUME NEW t \in Tables, NEW r \in Rows, target'[t][r] # target[t][r]
         PROVE  t = "aliases" /\ target[t][r].by # "removed"
    BY <2>4, <2>6, <2>7, <2>13 DEF Removed
  <2>14. Cardinality({r \in Rows : target'["aliases"][r] # NoRow}) <= Cap
    <3> DEFINE both == There(source, "aliases") \cup There(target, "aliases")
               filled == {r \in Rows : target'["aliases"][r] # NoRow}
    <3>1. filled \subseteq both
      BY <2>6, <2>7 DEF There
    <3>2. Cardinality(both) <= Cap /\ both \in SUBSET Rows
      BY <1>2 DEF AliasesMatch, There
    <3> QED
      BY <3>1, <3>2, FitsWithin DEF Importable
  <2>15. target'["loans"] = target["loans"]
    BY <2>4 DEF Tables
  <2>16. RowsKept
    BY <2>13, <2>14, <2>15 DEF RowsKept
  <2> QED
    BY <2>8, <2>9, <2>11, <2>12, <2>16 DEF BackfillInductive
<1> QED
  BY <1>1, <1>2

\* A row is copied and read back.
LEMMA CopyRowInductive ==
  ASSUME Importable, BackfillInductive, NEW r \in Rows, CopyRow(r)
  PROVE  BackfillInductive' /\ RowsKept
<1>1. CASE ~ReadsBack(run.at, r)
  BY <1>1, BailInductive DEF CopyRow
<1>2. CASE ReadsBack(run.at, r)
  <2> DEFINE at == run.at
  <2>0. /\ target' = [target EXCEPT ![at][r] = Copied(at, r)]
        /\ run' = [run EXCEPT !.todo = @ \ {r}] /\ UNCHANGED <<source, mixed>>
        /\ at \in {"accounts", "users", "devices", "loans"} /\ r \in run.todo
    BY <1>2 DEF CopyRow
  <2>1. /\ run'.at = at /\ run'.todo = run.todo \ {r}
        /\ run' \in [at : Tables \cup {"stopped", "reported"}, todo : SUBSET Rows]
    BY <2>0 DEF BackfillInductive, BackfillTypes
  <2>2. at \in Tables /\ at # "aliases" /\ r \in There(source, at) /\ Copied(at, r) = source[at][r]
    BY <1>2, <2>0 DEF BackfillInductive, BackfillTypes, ReadsBack, Tables
  <2>3. source[at][r] \in KeptRows /\ source[at][r] \in FileRows
    BY <2>2 DEF BackfillInductive, BackfillTypes, KeptRows, FileRows
  <2>4. target' \in [Tables -> [Rows -> KeptRows]]
    BY <2>0, <2>2, <2>3 DEF BackfillInductive, BackfillTypes
  <2>5. ASSUME NEW t \in Tables, NEW q \in Rows
        PROVE  target'[t][q] = IF t = at /\ q = r THEN source[at][r] ELSE target[t][q]
    BY <2>0, <2>2 DEF BackfillInductive, BackfillTypes
  <2> HIDE DEF at
  <2>6. BackfillTypes'
    BY <2>0, <2>1, <2>4 DEF BackfillInductive, BackfillTypes, There, at
  <2>7. ASSUME NEW t \in Tables PROVE Finished(t)' <=> Finished(t)
    BY <2>1 DEF Finished, at
  <2>8. SameRows'
    BY <2>0, <2>1, <2>5, <2>7 DEF BackfillInductive, SameRows, There, at
  <2>9. ASSUME NEW t \in Tables
        PROVE  There(target', t) \subseteq There(target, t) \cup There(source, t)
    BY <2>2, <2>5 DEF There
  <2>10. ASSUME NEW t \in Tables, t # at PROVE Shown(t)' = Shown(t)
    BY <2>5, <2>10 DEF Shown, There, Removed
  <2>11. ~Finished(at)
    BY <2>0 DEF Finished, at
  <2>12. ASSUME NEW t \in {"aliases", "devices"}, Finished(t)'
         PROVE  Shown(t)' \subseteq There(source', t)
    BY <2>0, <2>7, <2>10, <2>11, <2>12 DEF BackfillInductive, Checked, Tables
  <2>13. ASSUME at = "loans" PROVE LoansFit'
    <3>1. There(source, "loans") \cup There(target', "loans")
            \subseteq There(source, "loans") \cup There(target, "loans")
      BY <2>9 DEF Tables
    <3>2. Cardinality(There(source, "loans") \cup There(target, "loans")) <= Cap
      BY <2>13 DEF BackfillInductive, Checked, LoansFit, at
    <3>3. /\ There(source, "loans") \cup There(target', "loans") \in SUBSET Rows
          /\ There(source, "loans") \cup There(target, "loans") \in SUBSET Rows
      BY DEF There
    <3>4. Cardinality(There(source, "loans") \cup There(target', "loans")) <= Cap
      BY <3>1, <3>2, <3>3, FitsWithin DEF Importable
    <3> QED
      BY <2>0, <3>4 DEF LoansFit
  <2>14. Checked'
    BY <2>0, <2>1, <2>12, <2>13 DEF Checked
  <2>15. Repeatable'
    BY <2>0, <2>5 DEF BackfillInductive, Repeatable
  <2>16. ASSUME NEW t \in Tables, NEW q \in Rows, target'[t][q] # target[t][q]
         PROVE  /\ t = at /\ target[t][q].by # "removed"
                /\ target'[t][q].rev > target[t][q].rev
                /\ t \in {"users", "devices", "loans"} => target[t][q] = NoRow
    <3>1. t = at /\ q = r /\ target'[t][q] = source[at][r] /\ source[at][r] # target[at][r]
      BY <2>5, <2>16
    <3>2. Copies(at, r)
      BY <2>2, <3>1 DEF Copied
    <3>3. CASE at = "accounts"
      BY <3>1, <3>2, <3>3, <2>3, <2>4 DEF Copies, Newer, Removed, BackfillInductive, BackfillTypes, KeptRows
    <3>4. CASE at # "accounts"
      <4>1. target[at][r] = NoRow
        BY <3>2, <3>4 DEF Copies
      <4>2. source[at][r] # NoRow /\ source[at][r].rev \in Nat /\ source[at][r].by = "file"
            /\ source[at][r] = [rev |-> source[at][r].rev, by |-> source[at][r].by]
        BY <2>2, <2>3 DEF There, FileRows
      <4>3. source[at][r].rev > 0
        BY <4>2 DEF NoRow
      <4> QED
        BY <3>1, <4>1, <4>3 DEF NoRow
    <3> QED
      BY <3>3, <3>4
  <2>17. target'["aliases"] = target["aliases"]
    <3>1. \A q \in Rows : target'["aliases"][q] = target["aliases"][q]
      BY <2>2, <2>5 DEF Tables
    <3>2. target'["aliases"] \in [Rows -> KeptRows] /\ target["aliases"] \in [Rows -> KeptRows]
      BY <2>4 DEF BackfillInductive, BackfillTypes, Tables
    <3> QED
      BY <3>1, <3>2
  <2>18. ASSUME at = "loans" PROVE RowsKept
    <3> DEFINE filled == {q \in Rows : target'["loans"][q] # NoRow}
    <3>1. filled \subseteq There(source', "loans") \cup There(target', "loans")
      BY DEF There
    <3>2. Cardinality(There(source', "loans") \cup There(target', "loans")) <= Cap
      BY <2>13, <2>18 DEF LoansFit
    <3>3. There(source', "loans") \cup There(target', "loans") \in SUBSET Rows
      BY DEF There
    <3>4. Cardinality(filled) <= Cap
      BY <3>1, <3>2, <3>3, FitsWithin DEF Importable
    <3> QED
      BY <2>16, <2>17, <3>4 DEF RowsKept
  <2>19. ASSUME at # "loans" PROVE RowsKept
    <3>1. \A q \in Rows : target'["loans"][q] = target["loans"][q]
      BY <2>5, <2>19 DEF Tables
    <3>2. target'["loans"] \in [Rows -> KeptRows] /\ target["loans"] \in [Rows -> KeptRows]
      BY <2>4 DEF BackfillInductive, BackfillTypes, Tables
    <3>3. target'["loans"] = target["loans"]
      BY <3>1, <3>2
    <3> QED
      BY <2>16, <2>17, <3>3 DEF RowsKept
  <2> QED
    BY <2>6, <2>8, <2>14, <2>15, <2>18, <2>19 DEF BackfillInductive
<1> QED
  BY <1>1, <1>2

\* A table is done.
LEMMA NextTableInductive ==
  ASSUME BackfillInductive, NextTable PROVE BackfillInductive' /\ RowsKept
<1>0. UNCHANGED <<source, mixed>> /\ run.todo = {}
  BY DEF NextTable
<1>1. CASE run.at = "accounts" /\ Turn("users") /\ UNCHANGED target
  BY <1>0, <1>1, TurnInductive
     DEF BackfillInductive, SameRows, Checked, Finished, Turn, There, Tables
<1>2. CASE run.at = "users" /\ Turn("devices") /\ UNCHANGED target
  BY <1>0, <1>2, TurnInductive
     DEF BackfillInductive, SameRows, Checked, Finished, Turn, There, Tables
<1>3. CASE run.at = "devices" /\ DevicesMatch /\ LoansFit /\ Turn("loans") /\ UNCHANGED target
  BY <1>0, <1>3, TurnInductive
     DEF BackfillInductive, SameRows, Checked, Finished, Turn, There, Tables, DevicesMatch
<1>4. CASE /\ run.at = "loans" /\ NothingExtra /\ UNCHANGED target
           /\ run' = [at |-> "reported", todo |-> {}]
  <2>1. run'.at = "reported" /\ run' \in [at : Tables \cup {"stopped", "reported"}, todo : SUBSET Rows]
    BY <1>4
  <2>2. BackfillTypes'
    BY <1>0, <1>4, <2>1 DEF BackfillInductive, BackfillTypes, Tables
  <2>3. SameRows'
    BY <1>0, <1>4, <2>1 DEF BackfillInductive, SameRows, Finished, There
  <2>4. Checked'
    BY <1>0, <1>4, <2>1
       DEF BackfillInductive, Checked, Finished, NothingExtra, Shown, There, Removed, Fits
  <2>5. Repeatable'
    BY <1>0, <1>4 DEF BackfillInductive, Repeatable
  <2> QED
    BY <1>4, <2>2, <2>3, <2>4, <2>5 DEF BackfillInductive, RowsKept
<1>5. CASE Bail
  BY <1>0, <1>5, BailInductive
<1> QED
  BY <1>1, <1>2, <1>3, <1>4, <1>5 DEF NextTable

\* A crash or a failed statement ends the run.
LEMMA FailInductive ==
  ASSUME BackfillInductive, Fail PROVE BackfillInductive' /\ RowsKept
BY BailInductive DEF Fail, Bail

\* A server writes between two runs, and what was reported is no longer said.
LEMMA WritesInductive ==
  ASSUME BackfillInductive, NEW t \in Tables, NEW r \in Rows,
         FileWrites(t, r) \/ \E by \in {"server", "removed"} : ServerWrites(t, r, by)
  PROVE  BackfillInductive'
<1>1. CASE FileWrites(t, r)
  <2>1. source' \in [Tables -> [Rows -> FileRows]]
    <3>1. [source[t][r] EXCEPT !.rev = @ + 1] \in FileRows
      <4>1. source[t][r] \in FileRows
        BY DEF BackfillInductive, BackfillTypes
      <4> QED
        BY <4>1 DEF FileRows
    <3> QED
      BY <1>1, <3>1 DEF FileWrites, BackfillInductive, BackfillTypes
  <2>2. Repeatable' /\ run' = Stopped /\ target' \in [Tables -> [Rows -> KeptRows]]
    BY <1>1 DEF FileWrites, Repeatable, BackfillInductive, BackfillTypes
  <2> QED
    BY <2>1, <2>2, StoppedInductive
<1>2. ASSUME NEW by \in {"server", "removed"}, ServerWrites(t, r, by) PROVE BackfillInductive'
  <2>1. target' \in [Tables -> [Rows -> KeptRows]]
    <3>1. [rev |-> target[t][r].rev + 1, by |-> by] \in KeptRows
      BY DEF BackfillInductive, BackfillTypes, KeptRows
    <3> QED
      BY <1>2, <3>1 DEF ServerWrites, BackfillInductive, BackfillTypes
  <2>2. Repeatable' /\ run' = Stopped /\ source' \in [Tables -> [Rows -> FileRows]]
    BY <1>2 DEF ServerWrites, Repeatable, BackfillInductive, BackfillTypes
  <2> QED
    BY <2>1, <2>2, StoppedInductive
<1> QED
  BY <1>1, <1>2

\* Every step of a backfill keeps its rows.
LEMMA BackfillStepKept ==
  ASSUME Importable, BackfillInductive, BackfillStep PROVE BackfillInductive' /\ RowsKept
BY BeginInductive, CopyAliasesInductive, CopyRowInductive, NextTableInductive, FailInductive
   DEF BackfillStep

\* A step of a server is none of the backfill's: it is not made while one runs.
LEMMA BackfillNextInductive ==
  ASSUME Importable, BackfillInductive, [BackfillNext]_backfillVars
  PROVE  BackfillInductive' /\ [RowsKept]_backfillVars
<1>1. CASE UNCHANGED backfillVars
  BY <1>1 DEF backfillVars, BackfillInductive, BackfillTypes, SameRows, Checked, Repeatable, Finished,
     Shown, There, Removed, LoansFit, NothingExtra, Fits
<1>2. CASE BackfillStep
  BY <1>2, BackfillStepKept
<1>3. CASE ~BackfillStep /\ BackfillNext
  BY <1>3, WritesInductive DEF BackfillNext, RowsKept
<1> QED
  BY <1>1, <1>2, <1>3

\* What a run reports as imported is the file server's state, row for row, within the
\* caps, and a run that stopped can be repeated (import_snapshot and the checks around it).
THEOREM BackfillInvariant == Importable => (BackfillSpec => []BackfillIInv)
<1> SUFFICES ASSUME Importable PROVE BackfillSpec => []BackfillIInv
  OBVIOUS
<1>1. BackfillInit => BackfillInductive
  BY BackfillInitial
<1>2. BackfillInductive /\ [BackfillNext]_backfillVars => BackfillInductive'
  BY BackfillNextInductive
<1>3. BackfillInductive => BackfillIInv
  BY ReportedExact DEF BackfillInductive, BackfillIInv
<1> QED
  BY <1>1, <1>2, <1>3, PTL DEF BackfillSpec

\* A backfill never takes a row back: no revision falls, nothing removed returns, only
\* accounts and aliases are replaced (save_account, save_alias_tombstones, import_loans).
THEOREM BackfillKeeps == Importable => (BackfillSpec => BackfillSafe)
<1> SUFFICES ASSUME Importable PROVE BackfillSpec => BackfillSafe
  OBVIOUS
<1>1. BackfillInit => BackfillInductive
  BY BackfillInitial
<1>2. BackfillInductive /\ [BackfillNext]_backfillVars
        => BackfillInductive' /\ [RowsKept]_backfillVars
  BY BackfillNextInductive
<1> QED
  BY <1>1, <1>2, PTL DEF BackfillSpec, BackfillSafe
=============================================================================
