-------------------------- MODULE IdentityAdmission --------------------------
(***************************************************************************)
(* Who owns a login: the ledger of identity claims and the reservations of *)
(* login operations (src/central/storage/identity.rs), one workspace.      *)
(*                                                                         *)
(* A credential declares some of its login's claims: a uid, a sub, both or *)
(* none.  Imports, Adds, renewals, refreshes and removals are transactions *)
(* under one admission lock; between two transactions of one operation any *)
(* other may run.  What the operations do outside these transactions is    *)
(* LoginOperation and CredentialOwner.                                     *)
(***************************************************************************)
EXTENDS Integers, FiniteSets

CONSTANTS
  Accounts,  \* account rows: one per company user and alias
  UserOf,    \* the company user of each row
  Logins,    \* the identities behind the credentials
  Ops,       \* login operations
  Nobody,
  Hands,     \* the company user of each operation
  Plans      \* bounds of a behaviour: how many imports and removals, which operations

VARIABLES
  accounts,   \* state (none, live, removed), of (the login), claims of the credential
  ledger,     \* central_account_identity_claims: the account of each claim
  held,       \* central_login_identity_reservations: the operation of each claim
  ops,        \* phase, kind, account, alias (the row an Add proposes), of, claims, evidence
  imports,    \* imports that passed their check: account, of, claims
  left        \* imports and removals left, the operations of the behaviour

admissionVars == <<accounts, ledger, held, ops, imports, left>>

Kinds == {"uid", "sub"}
Claims == Kinds \X Logins
Declared(p) == SUBSET (Kinds \X {p})
Kind(c) == c[1]
KindsOf(cs) == {Kind(c) : c \in cs}

NoCredential == [state |-> "none", of |-> Nobody, claims |-> {}]
NoOp == [phase |-> "idle", kind |-> "add", account |-> Nobody, alias |-> Nobody,
         of |-> Nobody, claims |-> {}, evidence |-> {}]
Terminal == {"idle", "completed", "failed", "rejected"}

AdmissionInit ==
  /\ accounts = [a \in Accounts |-> NoCredential]
  /\ ledger = [c \in Claims |-> Nobody] /\ held = [c \in Claims |-> Nobody]
  /\ ops = [o \in Ops |-> NoOp]
  /\ imports = {} /\ left \in Plans

---------------------------------------------------------------------------
\* KnownClaims: what an account is known by, and whether arriving claims agree.
Live(a) == accounts[a].state = "live"
Recorded(a) == {c \in Claims : ledger[c] = a}
\* A uid decides when both sides have one; else a sub must be known.
Same(known, cs) ==
  LET kind == IF "uid" \in KindsOf(known) \cap KindsOf(cs) THEN "uid" ELSE "sub"
  IN \E c \in cs \cap known : Kind(c) = kind
\* central_login_identity_agrees: the ledger and the account's login column.
Agrees(cs, a) ==
  Live(a) /\ Same(Recorded(a) \cup {c \in accounts[a].claims : Kind(c) = "sub"}, cs)
\* central_login_identity_matches: they may be the same.
Matches(cs, a) ==
  LET known == Recorded(a) \cup {c \in accounts[a].claims : Kind(c) = "sub"}
  IN Live(a) /\ (known \cap cs # {} \/ KindsOf(known) \cap KindsOf(cs) = {})

\* A live account that arriving claims cannot be told from.
\* Mutated form: an account is known by either kind of claim.
UnknownOnlyUnclaimed(a, cs) == \E b \in Accounts \ {a} : Live(b) /\ Recorded(b) = {}
Unknown(a, cs) ==
  \E b \in Accounts \ {a} : Live(b) /\ KindsOf(Recorded(b)) \cap KindsOf(cs) = {}
Reserved(a, cs) == \E c \in cs : held[c] # Nobody /\ ops[held[c]].account # a
Owned(a, cs) == \E c \in cs : ledger[c] \notin {Nobody, a}
Conflicts(a, cs) == Recorded(a) # {} /\ ~Same(Recorded(a), cs)
\* check_claims.
Admissible(a, cs) ==
  ~Reserved(a, cs) /\ ~Owned(a, cs) /\ ~Unknown(a, cs) /\ ~Conflicts(a, cs)
\* record_claims: all of them or none.
\* Mutated form: a claim that another account owns is skipped.
RecordableAnyway(a, cs) == ~Conflicts(a, cs)
Recordable(a, cs) == ~Conflicts(a, cs) /\ ~Owned(a, cs)
Recording(a, cs) == [c \in Claims |-> IF c \in cs /\ ledger[c] = Nobody THEN a ELSE ledger[c]]
\* reserve_claims: a rejected candidate of the same account keeps its own row.
Reservable(o, a, cs) ==
  \A c \in cs : held[c] \notin {Nobody, o} =>
    ops[held[c]].phase = "rejected" /\ Agrees(ops[held[c]].claims, a)
Reserving(o, cs) == [c \in Claims |-> IF c \in cs /\ held[c] = Nobody THEN o ELSE held[c]]
Releasing(os) == [c \in Claims |-> IF held[c] \in os THEN Nobody ELSE held[c]]

---------------------------------------------------------------------------
\* import_account_locked: the check, then native work, then save_account.
CheckImport(a, p, cs) ==
  /\ left.imports > 0
  /\ accounts[a].state = "none" /\ Admissible(a, cs)
  /\ imports' = imports \cup {[account |-> a, of |-> p, claims |-> cs]}
  /\ left' = [left EXCEPT !.imports = @ - 1]
  /\ UNCHANGED <<accounts, ledger, held, ops>>

\* save_account checks again in its own transaction; a removed row refuses.
\* Mutated form: the check of the import is not repeated.
SavedUnchecked(i) == Recordable(i.account, i.claims)
Saved(i) == Admissible(i.account, i.claims) /\ Recordable(i.account, i.claims)
SaveImport(i) ==
  /\ imports' = imports \ {i}
  /\ IF accounts[i.account].state = "none" /\ Saved(i)
     THEN /\ accounts' = [accounts EXCEPT ![i.account] =
                            [state |-> "live", of |-> i.of, claims |-> i.claims]]
          /\ ledger' = Recording(i.account, i.claims)
     ELSE UNCHANGED <<accounts, ledger>>
  /\ UNCHANGED <<held, ops, left>>

\* fenced_write_observed of a refreshed credential: a denial publishes nothing.
\* A verifying operation holds the lease of its account.
Refresh(a, cs) ==
  /\ Live(a) /\ cs # accounts[a].claims
  /\ \A o \in Ops : ops[o].phase = "verifying" => ops[o].account # a
  /\ Recordable(a, cs)
  /\ accounts' = [accounts EXCEPT ![a].claims = cs]
  /\ ledger' = Recording(a, cs)
  /\ UNCHANGED <<held, ops, imports, left>>

\* remove_account: never while a login that may be this account's is pending.
Fencing(o, a) ==
  /\ ops[o].phase \in {"candidate", "reserved", "verifying", "unresolved", "rejected"}
  /\ \/ ops[o].account = a
     \/ ops[o].kind = "add" /\ ops[o].account = Nobody /\ Hands[o] = UserOf[a]
          /\ Matches(ops[o].claims, a)
     \/ (ops[o].kind = "renewal" \/ ops[o].account # Nobody) /\ Matches(ops[o].claims, a)
Remove(a) ==
  /\ Live(a) /\ left.removals > 0
  /\ \A o \in Ops : ~Fencing(o, a)
  /\ accounts' = [accounts EXCEPT ![a].state = "removed"]
  /\ left' = [left EXCEPT !.removals = @ - 1]
  /\ UNCHANGED <<ledger, held, ops, imports>>

---------------------------------------------------------------------------
\* A login's candidate is saved: an Add proposes a row of its user's, a renewal
\* names a live account of its user's that no other operation is active on.
ActiveOn(a) == \E o \in Ops : ops[o].account = a /\ ops[o].phase \notin Terminal
Arrive(o, a, p, cs) ==
  /\ o \in left.ops /\ ops[o].phase = "idle" /\ UserOf[a] = Hands[o]
  /\ \A q \in Ops : ops[q].alias = a => ops[q].phase \in Terminal
  /\ \E kind \in {"add", "renewal"} :
       /\ kind = "renewal" => Live(a) /\ ~ActiveOn(a)
       /\ ops' = [ops EXCEPT ![o] =
            [phase |-> "candidate", kind |-> kind, alias |-> a, of |-> p, claims |-> cs,
             account |-> IF kind = "renewal" THEN a ELSE Nobody, evidence |-> {}]]
  /\ UNCHANGED <<accounts, ledger, held, imports, left>>

To(o, phase) == [ops EXCEPT ![o].phase = phase, ![o].evidence = {}]
\* A failed or completed operation fences nothing: what else its row says is left out.
Done(phase) == [NoOp EXCEPT !.phase = phase]

\* login_admit_add, its answers in the order of its checks.
Holders(cs) == {a \in Accounts : Live(a) /\ \E c \in cs : ledger[c] = a}
Rejected(q) == ops[q].phase = "rejected"
HeldByActive(o, cs) ==
  \E c \in cs : held[c] \notin {Nobody, o} /\ ~Rejected(held[c])
HeldFrom(o, a, cs) ==
  \E c \in cs : held[c] \notin {Nobody, o} /\ ~(Rejected(held[c]) /\ Agrees(ops[held[c]].claims, a))
Admission(o) ==
  LET cs == ops[o].claims
      found == Holders(cs)
  IN IF cs = {} THEN "account_identity_unresolved"
     ELSE IF HeldByActive(o, cs) THEN "relogin_reserved"
     ELSE IF Unknown(Nobody, cs) THEN "account_identity_unresolved"
     ELSE IF \E a \in found : ~Agrees(cs, a) THEN "alias_identity_conflict"
     ELSE IF \E a \in found : UserOf[a] # Hands[o] THEN "account_already_owned"
     ELSE IF Cardinality(found) > 1 THEN "error"
     ELSE IF found = {} /\ \E c \in cs : held[c] \notin {Nobody, o} THEN "relogin_reserved"
     ELSE IF \E a \in found : HeldFrom(o, a, cs) \/ ActiveOn(a) THEN "relogin_reserved"
     ELSE IF found = {} /\ accounts[ops[o].alias].state # "none" THEN "alias_exists"
     ELSE IF \E a \in (IF found = {} THEN {ops[o].alias} ELSE found) : ~Recordable(a, cs) THEN "error"
     ELSE "ready"
Admitted(o) ==
  LET found == Holders(ops[o].claims)
  IN IF found = {} THEN ops[o].alias ELSE CHOOSE a \in found : TRUE

Unadmitted(o) == ops[o].phase = "candidate" /\ ops[o].kind = "add" /\ ops[o].account = Nobody
AdmitAdd(o) ==
  /\ Unadmitted(o) /\ Admission(o) = "ready"
  /\ LET a == Admitted(o)
         cs == ops[o].claims
     IN /\ accounts' = IF Live(a) THEN accounts
                       ELSE [accounts EXCEPT ![a] = [state |-> "live", of |-> ops[o].of, claims |-> cs]]
        /\ ledger' = Recording(a, cs)
        /\ held' = Reserving(o, cs)
        /\ ops' = [ops EXCEPT ![o].account = a]
  /\ UNCHANGED <<imports, left>>

\* An unresolved identity is kept as a quarantine; other refusals drop the grant.
RefuseAdd(o) ==
  /\ Unadmitted(o) /\ Admission(o) \notin {"ready", "error"}
  /\ ops' = IF Admission(o) = "account_identity_unresolved" THEN To(o, "rejected")
            ELSE [ops EXCEPT ![o] = Done("failed")]
  /\ UNCHANGED <<accounts, ledger, held, imports, left>>

\* validate_login_candidate: the saved credential's claims and the ledger.
Valid(o) ==
  LET a == ops[o].account
  IN Live(a) /\ Same(accounts[a].claims \cup Recorded(a), ops[o].claims)

\* login_reserve_renewal; a wrong login is rejected before it waits for anything.
ReserveRenewal(o) ==
  LET a == ops[o].account
      cs == ops[o].claims
  IN /\ ops[o].phase = "candidate" /\ ops[o].kind = "renewal"
     /\ IF Valid(o) /\ ~Owned(a, cs) /\ Reservable(o, a, cs)
        THEN /\ held' = Reserving(o, cs)
             /\ ops' = To(o, "reserved")
        ELSE ops' = To(o, "rejected") /\ UNCHANGED held
     /\ UNCHANGED <<accounts, ledger, imports, left>>

\* login_begin_verification, after the lease: the identity is checked again, and
\* the rejected candidates that this renewal may repair are written down.
Repairable(r, a) == Rejected(r) /\ (ops[r].account = a \/ Agrees(ops[r].claims, a))
BeginVerification(o) ==
  /\ \/ ops[o].phase = "reserved"
     \/ ops[o].phase = "candidate" /\ ops[o].kind = "add" /\ ops[o].account # Nobody
  /\ Valid(o)
  /\ ops' = [ops EXCEPT ![o].phase = "verifying",
                        ![o].evidence = {r \in Ops : Repairable(r, ops[o].account)}]
  /\ UNCHANGED <<accounts, ledger, held, imports, left>>

\* login_complete with the credential the provider returned: it publishes, learns
\* the claims, and releases its own reservations and those it repaired.
Repaired(o) == {r \in ops[o].evidence : Repairable(r, ops[o].account)}
Complete(o, cs) ==
  LET a == ops[o].account
  IN /\ ops[o].phase = "verifying" /\ Live(a) /\ Recordable(a, cs)
     /\ accounts' = [accounts EXCEPT ![a].claims = cs]
     /\ ledger' = Recording(a, cs)
     /\ held' = Releasing({o} \cup Repaired(o))
     /\ ops' = [q \in Ops |->
          CASE q = o -> Done("completed")
            [] q \in Repaired(o) /\ Agrees(ops[q].claims, a) -> [ops[q] EXCEPT !.claims = {}]
            [] OTHER -> ops[q]]
     /\ UNCHANGED <<imports, left>>

\* The provider refuses the candidate, or the worker cannot tell what became of it.
EndUnpublished(o) ==
  /\ \/ ops[o].phase = "verifying" /\ ops' = To(o, "rejected")
     \/ ops[o].phase \in {"candidate", "reserved", "verifying"} /\ ops' = To(o, "unresolved")
  /\ UNCHANGED <<accounts, ledger, held, imports, left>>

AdmissionNext ==
  \/ \E a \in Accounts, p \in Logins : \E cs \in Declared(p) :
       CheckImport(a, p, cs) \/ \E o \in Ops : Arrive(o, a, p, cs)
  \/ \E i \in imports : SaveImport(i)
  \/ \E a \in Accounts : Remove(a) \/ \E cs \in Declared(accounts[a].of) : Refresh(a, cs)
  \/ \E o \in Ops :
       \/ AdmitAdd(o) \/ RefuseAdd(o) \/ ReserveRenewal(o)
       \/ BeginVerification(o) \/ EndUnpublished(o)
       \/ \E cs \in Declared(ops[o].of) : Complete(o, cs)

AdmissionSpec == AdmissionInit /\ [][AdmissionNext]_admissionVars

---------------------------------------------------------------------------
Credentials == [state : {"none", "live", "removed"}, of : Logins \cup {Nobody},
                claims : SUBSET Claims]
Operations == [phase : Terminal \cup {"candidate", "reserved", "verifying", "unresolved"},
               kind : {"add", "renewal"}, account : Accounts \cup {Nobody},
               alias : Accounts \cup {Nobody}, of : Logins \cup {Nobody},
               claims : SUBSET Claims, evidence : SUBSET Ops]
Arriving == [account : Accounts, of : Logins, claims : SUBSET Claims]
AdmissionTypeOK ==
  /\ accounts \in [Accounts -> Credentials] /\ ops \in [Ops -> Operations]
  /\ ledger \in [Claims -> Accounts \cup {Nobody}] /\ held \in [Claims -> Ops \cup {Nobody}]
  /\ imports \subseteq Arriving

\* A credential declares claims of its own login, and only an account that exists has one.
OwnClaims ==
  /\ \A a \in Accounts : /\ accounts[a].claims \in Declared(accounts[a].of)
                         /\ Live(a) => accounts[a].of \in Logins
  /\ \A o \in Ops : ops[o].claims \in Declared(ops[o].of)
  /\ \A o \in Ops : ops[o].phase \in {"candidate", "verifying"} => ops[o].of \in Logins
  /\ \A i \in imports : i.claims \in Declared(i.of)

\* No two live accounts are the same login's, whatever part of it each credential
\* has declared so far.
OneAccountPerLogin ==
  \A a, b \in Accounts : Live(a) /\ Live(b) /\ a # b => accounts[a].of # accounts[b].of

\* The ledger names the account of every claim of a live credential, and an
\* account it names exists and has that login.
LedgerTrue ==
  /\ \A a \in Accounts : Live(a) => accounts[a].claims \subseteq Recorded(a)
  /\ \A c \in Claims : ledger[c] # Nobody =>
       accounts[ledger[c]].state # "none" /\ accounts[ledger[c]].of = c[2]

\* A reserved claim is its operation's account's, or nobody's yet; that account is
\* not removed before the operation is done with it.
ReservedForOwner ==
  \A c \in Claims : held[c] # Nobody =>
    LET o == ops[held[c]]
    IN /\ o.phase \in {"candidate", "reserved", "verifying", "unresolved", "rejected"}
       /\ o.account \in Accounts /\ Live(o.account)
       /\ o.of = c[2] /\ accounts[o.account].of = c[2]
       /\ ledger[c] \in {Nobody, o.account}

\* What is verified for an account is a grant of the account's login; a candidate
\* proposes a row, and a renewal names its account.
VerifiedForOwner ==
  \A o \in Ops :
    /\ ops[o].phase = "verifying" =>
         /\ ops[o].account \in Accounts /\ accounts[ops[o].account].state # "none"
         /\ accounts[ops[o].account].of = ops[o].of
    /\ ops[o].phase = "candidate" => ops[o].alias \in Accounts
    /\ ops[o].phase = "reserved" \/ (ops[o].phase = "candidate" /\ ops[o].kind = "renewal")
         => ops[o].account \in Accounts

AdmissionIInv ==
  /\ AdmissionTypeOK /\ OwnClaims /\ OneAccountPerLogin /\ LedgerTrue
  /\ ReservedForOwner /\ VerifiedForOwner
=============================================================================
