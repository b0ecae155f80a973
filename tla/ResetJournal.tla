---------------------------- MODULE ResetJournal ----------------------------
(***************************************************************************)
(* The redemption journal of one account (src/src/central/resets.rs):      *)
(* Pending::join and Journal::complete as functions on records.  Requests  *)
(* are numbers, in the order of their ids; a receipt is the provider's     *)
(* code.                                                                   *)
(***************************************************************************)
EXTENDS Integers, Sequences, FiniteSets, SequencesExt

CONSTANTS
  Requests,      \* redeem_request_id values
  Credits,       \* provider credit ids
  None,          \* no pending redemption
  ReceiptLimit   \* RECEIPT_LIMIT, 256 in the code

ASSUME RequestsAssumption == Requests \subseteq Nat /\ IsFiniteSet(Requests)
ASSUME LimitAssumption == ReceiptLimit \in Nat \ {0}

Codes == {"reset", "already_redeemed", "nothing_to_reset", "no_credit", "unknown"}

\* The upstream id is the digest of user, account and the first request.
Pendings == [request : Requests, credit : Credits, joined : SUBSET Requests]

EmptyJournal == [pending |-> None, completed |-> <<>>, order |-> <<>>]

\* A journal value: receipts, and their order of completion where it is known.
Receipts == UNION {[S -> Codes] : S \in SUBSET Requests}
Journals == [pending : Pendings \cup {None}, completed : Receipts, order : Seq(Requests)]

ASSUME NoneAssumption == None \notin Pendings \cup Requests \cup Codes

---------------------------------------------------------------------------
Covers(p) == p.joined \cup {p.request}

\* A journal that was written by this code or an earlier release: what is pending has no
\* receipt, and every ordered receipt is on record, once.
Sound(j) ==
  /\ j \in Journals
  /\ j.pending # None => Covers(j.pending) \cap DOMAIN j.completed = {}
  /\ ToSet(j.order) \subseteq DOMAIN j.completed /\ IsInjective(j.order)

\* Pending::join, and its refusal when the batch is full.
JoinBusy(p, r) == r \notin Covers(p) /\ Cardinality(p.joined) >= ReceiptLimit - 1
Join(p, r) == IF r \in Covers(p) THEN p ELSE [p EXCEPT !.joined = @ \cup {r}]

\* A batch is a BTreeSet: it is walked in the order of the ids.
InOrder(S) ==
  CHOOSE s \in SetToSeqs(S) : \A h, i \in DOMAIN s : h < i => s[h] < s[i]

\* Journal::complete, first loop: the receipts, and new ones at the end of
\* the order.
Recorded(j, batch, code) ==
  LET new == batch \ DOMAIN j.completed
  IN  [j EXCEPT
        !.completed = [r \in DOMAIN j.completed \cup batch |->
                         IF r \in batch THEN code ELSE j.completed[r]],
        !.order = @ \o InOrder(new)]

\* Receipts of unknown age go once a full window of ordered ones exists.
WithoutUnordered(j, limit) ==
  IF Cardinality(DOMAIN j.completed) > limit /\ Len(j.order) >= limit
  THEN [j EXCEPT !.completed = [r \in DOMAIN j.completed \cap ToSet(j.order) |->
                                  j.completed[r]]]
  ELSE j

\* Then the oldest ordered receipts beyond the limit.
Trimmed(j, limit) ==
  LET excess == IF Len(j.order) > limit THEN Len(j.order) - limit ELSE 0
      oldest == ToSet(SubSeq(j.order, 1, excess))
  IN  [j EXCEPT !.order = SubSeq(@, excess + 1, Len(@)),
                !.completed = [r \in DOMAIN j.completed \ oldest |-> j.completed[r]]]

\* Mutated form: the limit does not grow with a larger batch.
BatchLimitFixed(batch) == ReceiptLimit

\* A batch larger than the limit is kept whole.
BatchLimit(batch) ==
  IF Cardinality(batch) > ReceiptLimit THEN Cardinality(batch) ELSE ReceiptLimit

Complete(j, batch, code) ==
  LET limit == BatchLimit(batch)
  IN  Trimmed(WithoutUnordered(Recorded(j, batch, code), limit), limit)

=============================================================================
