-------------------------------- MODULE Loans --------------------------------
(***************************************************************************)
(* Loans of one server account (src/src/central/loans/http.rs and          *)
(* storage/loans.rs) with the dual-mode store: PostgreSQL decides, and     *)
(* every committed grant or end is copied to the file mirror afterwards,   *)
(* in any order, or not at all when the copy fails.                        *)
(*                                                                         *)
(* A worker is one request of the account server: a borrower's token       *)
(* request, a lend, or an end.  Its reads and writes of the store are      *)
(* separate steps; each SQL statement is atomic.  Time is in whole         *)
(* seconds, as Utc::now().timestamp() gives it.                            *)
(***************************************************************************)
EXTENDS Integers, FiniteSets

CONSTANTS
  Ids,       \* grant ids
  Managers,  \* lends and ends in progress
  Borrowers, \* token requests in progress
  Mirrored,  \* bound: the grants whose copies to the file mirror are followed
  Logins,    \* CredentialSubject values the lender's account may carry
  None,
  MaxTime    \* bound: the clock

ASSUME MaxTimeAssumption == MaxTime \in Nat
ASSUME MirroredAssumption == Mirrored \subseteq Ids

Workers == Managers \cup Borrowers

VARIABLES
  now,        \* the clock
  account,    \* the lender's account row: [active, login]
  past,       \* the logins the account has carried, tokens of any may be held
  enabled,    \* the lender's user is enabled
  grants,     \* account_loans, by id
  audit,      \* account_loan_audit: how many events of each kind, by id
  issued,     \* token_issued events, with the login of the token
  file,       \* the file mirror's grants, by id
  fileAudit,  \* the file mirror's events, by id
  mirrors,    \* copies on their way to the mirror: [grant, id, kind]
  missed,     \* history: <<id, kind>> whose last copy failed
  work        \* what each request knows

store == <<grants, audit, issued>>
mirror == <<file, fileAudit, mirrors, missed>>
vars == <<now, account, past, enabled, store, mirror, work>>

Reasons == {"revoked", "returned", "expired", "account_removed"}
Kinds == {"granted", "ended"}
NoGrant == [phase |-> "none", login |-> None, ends |-> 0, at |-> 0, reason |-> None]
GrantRows == [phase : {"none", "active", "ended"}, login : Logins \cup {None},
              ends : 0..MaxTime, at : 0..MaxTime, reason : Reasons \cup {None}]
Idle == [pc |-> "idle", id |-> None, grant |-> NoGrant, login |-> None, reason |-> None]

TypeOK ==
  /\ now \in 0..MaxTime
  /\ account \in [active : BOOLEAN, login : Logins]
  /\ past \in SUBSET Logins /\ account.login \in past
  /\ enabled \in BOOLEAN
  /\ grants \in [Ids -> GrantRows] /\ file \in [Ids -> GrantRows]
  /\ audit \in [Ids -> [Kinds -> 0..2]] /\ fileAudit \in [Ids -> [Kinds -> 0..2]]
  /\ issued \in SUBSET [id : Ids, at : 0..MaxTime, login : Logins]
  /\ mirrors \in SUBSET [id : Ids, grant : GrantRows, kind : Kinds]
  /\ missed \in SUBSET (Ids \X Kinds)
  /\ work \in [Workers ->
       [pc : {"idle", "planned", "resolved", "prepared", "confirmed", "issuing",
              "ending", "storing"},
        id : Ids \cup {None}, grant : GrantRows, login : Logins \cup {None},
        reason : Reasons \cup {None}]]

Init ==
  /\ now = 0
  /\ \E l \in Logins : account = [active |-> TRUE, login |-> l] /\ past = {l}
  /\ enabled = TRUE
  /\ grants = [i \in Ids |-> NoGrant] /\ file = grants
  /\ audit = [i \in Ids |-> [k \in Kinds |-> 0]] /\ fileAudit = audit
  /\ issued = {} /\ mirrors = {} /\ missed = {}
  /\ work = [w \in Workers |-> Idle]

---------------------------------------------------------------------------
At(w, pc) == work[w].pc = pc
Go(w, pc) == work' = [work EXCEPT ![w].pc = pc]
Done(w) == work' = [work EXCEPT ![w] = Idle]
Unended(i) == grants[i].phase = "active"
Active(i) == Unended(i) /\ now < grants[i].ends
Due(i) == Unended(i) /\ now >= grants[i].ends

\* Grant::end, and the event stored in the same statement.
Ended(g, at, reason) == [g EXCEPT !.phase = "ended", !.at = at, !.reason = reason]
Count(a, i, kind) == [a EXCEPT ![i][kind] = @ + 1]
Copy(i, g, kind) == [id |-> i, grant |-> g, kind |-> kind]
Send(copies) == mirrors' = mirrors \cup {m \in copies : m.id \in Mirrored}

\* expire_loans: one statement ends every due grant at its own end time.
\* Every request that reads grants runs it first.
Expire ==
  LET due == {i \in Ids : Due(i)}
      end(i) == Ended(grants[i], grants[i].ends, "expired")
  IN
  /\ due # {}
  /\ grants' = [i \in Ids |-> IF i \in due THEN end(i) ELSE grants[i]]
  /\ audit' = [i \in Ids |-> IF i \in due THEN [audit[i] EXCEPT !["ended"] = @ + 1]
                             ELSE audit[i]]
  /\ Send({Copy(i, end(i), "ended") : i \in due})
  /\ UNCHANGED <<now, account, past, enabled, issued, file, fileAudit, missed, work>>

---------------------------------------------------------------------------
\* lend: the login and the end time are read before the insert.
Plan(w, i, until) ==
  /\ At(w, "idle") /\ account.active
  /\ until \in (now + 1)..MaxTime
  /\ grants[i] = NoGrant /\ \A v \in Workers : work[v].id # i
  /\ \E l \in past :
       work' = [work EXCEPT ![w] = [Idle EXCEPT !.pc = "planned", !.id = i,
                 !.grant = [NoGrant EXCEPT !.phase = "active", !.login = l, !.ends = until]]]
  /\ UNCHANGED <<now, account, past, enabled, store, mirror>>

\* create_loan: an active account row, shared-locked, and no conflict on
\* account_loans_one_active.
Lendable == account.active /\ \A i \in Ids : ~Unended(i)

\* The insert happens or does not: loan_exists, account_removed.
Create(w) ==
  LET i == work[w].id
      g == work[w].grant
  IN
  /\ At(w, "planned")
  /\ IF Lendable
     THEN /\ grants' = [grants EXCEPT ![i] = g]
          /\ audit' = Count(audit, i, "granted")
          /\ Send({Copy(i, g, "granted")})
     ELSE UNCHANGED <<grants, audit, mirrors>>
  /\ Done(w)
  /\ UNCHANGED <<now, account, past, enabled, issued, file, fileAudit, missed>>

---------------------------------------------------------------------------
\* end, or the end of a grant whose account is gone (grant_owner): the
\* request has seen the grant and names a reason.
RequestEnd(w, i, reason) ==
  /\ At(w, "idle") /\ grants[i].phase # "none"
  /\ reason \in {"revoked", "returned"}
  /\ work' = [work EXCEPT ![w] = [Idle EXCEPT !.pc = "ending", !.id = i, !.reason = reason]]
  /\ UNCHANGED <<now, account, past, enabled, store, mirror>>

\* end_loan, load_loan: an ended grant is not ended again, its committed end
\* is copied to the mirror once more.
EndLoad(w) ==
  LET i == work[w].id
      g == grants[i]
  IN
  /\ At(w, "ending")
  /\ IF g.phase = "ended"
     THEN /\ Send({Copy(i, g, "ended")})
          /\ Done(w)
     ELSE /\ work' = [work EXCEPT ![w].pc = "storing",
                                  ![w].grant = Ended(g, now, work[w].reason)]
          /\ UNCHANGED mirrors
  /\ UNCHANGED <<now, account, past, enabled, store, file, fileAudit, missed>>

\* Mutated form: the update does not ask whether the grant was ended since.
StorableAlways(i) == TRUE

\* WHERE ended_at IS NULL
Storable(i) == Unended(i)

\* store_end: the first end wins; the loser copies the winner's.
EndStore(w) ==
  LET i == work[w].id
      g == work[w].grant
  IN
  /\ At(w, "storing")
  /\ IF Storable(i)
     THEN /\ grants' = [grants EXCEPT ![i] = g]
          /\ audit' = Count(audit, i, "ended")
     ELSE UNCHANGED <<grants, audit>>
  /\ Send({Copy(i, grants'[i], "ended")})
  /\ Done(w)
  /\ UNCHANGED <<now, account, past, enabled, issued, file, fileAudit, missed>>

---------------------------------------------------------------------------
\* borrowed_owner: an active grant, an enabled lender, an account that still
\* exists.  A login that differs here pauses the loan.
Resolve(w, i) ==
  /\ At(w, "idle") /\ Active(i)
  /\ enabled
  /\ account.active /\ account.login = grants[i].login
  /\ work' = [work EXCEPT ![w] = [Idle EXCEPT !.pc = "resolved", !.id = i,
                                              !.grant = grants[i]]]
  /\ UNCHANGED <<now, account, past, enabled, store, mirror>>

\* The owner produces a token, possibly of a login it still holds.
Prepare(w, l) ==
  /\ At(w, "resolved")
  /\ l \in past
  /\ work' = [work EXCEPT ![w].pc = "prepared", ![w].login = l]
  /\ UNCHANGED <<now, account, past, enabled, store, mirror>>

\* confirm_borrowed_token: the token and the shared store name the grant's
\* login.
SameLogin(w) ==
  /\ work[w].login = work[w].grant.login
  /\ account.login = work[w].grant.login

ConfirmSubject(w) ==
  /\ At(w, "prepared")
  /\ \/ account.active /\ SameLogin(w) /\ Go(w, "confirmed")
     \/ account.active /\ ~SameLogin(w) /\ Done(w)            \* loan_paused
     \/ /\ ~account.active                                    \* loan_ended
        /\ work' = [work EXCEPT ![w].pc = "ending", ![w].reason = "account_removed"]
  /\ UNCHANGED <<now, account, past, enabled, store, mirror>>

ConfirmLender(w) ==
  /\ At(w, "confirmed")
  /\ \/ enabled /\ Go(w, "issuing")
     \/ ~enabled /\ Done(w)
  /\ UNCHANGED <<now, account, past, enabled, store, mirror>>

\* Mutated form: the grant read at resolution is trusted at the issue.
IssuableStale(w) == now < work[w].grant.ends

\* issue_token: one statement over the grant row, with its own clock.
Issuable(w) == Active(work[w].id)

Issue(w) ==
  /\ At(w, "issuing")
  /\ issued' = IF Issuable(w) THEN issued \cup {[id |-> work[w].id, at |-> now, login |-> work[w].login]}
                ELSE issued
  /\ Done(w)
  /\ UNCHANGED <<now, account, past, enabled, grants, audit, mirror>>

---------------------------------------------------------------------------
\* Mutated form: the mirror takes the latest copy to arrive.
ReplacesAlways(m) == TRUE

\* mirror_loan: an ended copy is terminal.
Replaces(m) == file[m.id].phase # "ended"

\* Each grant has one event of each kind, added once in any order.
Missing(m) == fileAudit[m.id][m.kind] = 0

Mirror(m) ==
  /\ m \in mirrors
  /\ mirrors' = mirrors \ {m}
  /\ file' = IF Replaces(m) THEN [file EXCEPT ![m.id] = m.grant] ELSE file
  /\ fileAudit' = IF Missing(m) THEN Count(fileAudit, m.id, m.kind) ELSE fileAudit
  /\ missed' = missed \ {<<m.id, m.kind>>}
  /\ UNCHANGED <<now, account, past, enabled, store, work>>

\* mirror_failure: counted and forgotten; a crash loses the copy as well.
MirrorFails(m) ==
  /\ m \in mirrors
  /\ mirrors' = mirrors \ {m}
  /\ missed' = missed \cup {<<m.id, m.kind>>}
  /\ UNCHANGED <<now, account, past, enabled, store, file, fileAudit, work>>

---------------------------------------------------------------------------
Tick ==
  /\ now < MaxTime
  /\ now' = now + 1
  /\ UNCHANGED <<account, past, enabled, store, mirror, work>>

\* A login renewal may bring another login.
Renew(l) ==
  /\ account.active /\ l # account.login
  /\ account' = [account EXCEPT !.login = l]
  /\ past' = past \cup {l}
  /\ UNCHANGED <<now, enabled, store, mirror, work>>

\* Mutated form: a removal looks at grants that have not run out, not at
\* grants that have not ended.
RemovableWhenPast == \A i \in Ids : ~Active(i)

\* remove_account refuses an account with an unended grant, `account_lent`.
Removable == \A i \in Ids : ~Unended(i)

RemoveAccount ==
  /\ account.active /\ Removable
  /\ account' = [account EXCEPT !.active = FALSE]
  /\ UNCHANGED <<now, past, enabled, store, mirror, work>>

DisableLender ==
  /\ enabled' = ~enabled
  /\ UNCHANGED <<now, account, past, store, mirror, work>>

Next ==
  \/ \E w \in Managers, i \in Ids :
       \/ \E t \in 1..MaxTime : Plan(w, i, t)
       \/ \E r \in Reasons : RequestEnd(w, i, r)
  \/ \E w \in Managers : Create(w) \/ EndStore(w)
  \/ \E w \in Workers : EndLoad(w)
  \/ \E w \in Borrowers :
       \/ \E i \in Ids : Resolve(w, i)
       \/ \E l \in Logins : Prepare(w, l)
       \/ ConfirmSubject(w) \/ ConfirmLender(w) \/ Issue(w)
  \/ \E m \in mirrors : Mirror(m) \/ MirrorFails(m)
  \/ \E l \in Logins : Renew(l)
  \/ Expire \/ Tick \/ RemoveAccount \/ DisableLender

Spec == Init /\ [][Next]_vars

---------------------------------------------------------------------------
(***************************************************************************)
(* Properties.                                                             *)
(***************************************************************************)

\* The end is final and its reason is set once, whoever ends the loan at the
\* same time: a revoke, a return, an expiry; and a delayed copy never reopens a
\* loan in the mirror.
EndKept ==
  \A i \in Ids : /\ grants[i].phase = "ended" => grants'[i] = grants[i]
                 /\ file[i].phase = "ended" => file'[i] = file[i]

\* The audit log agrees with the grants: one grant event per loan, one end
\* event exactly when it ended.
AuditMatches ==
  \A i \in Ids :
    /\ audit[i]["granted"] = (IF grants[i].phase = "none" THEN 0 ELSE 1)
    /\ audit[i]["ended"] = (IF grants[i].phase = "ended" THEN 1 ELSE 0)

\* What is delivered, at the moment of delivery: the loan has not ended, its
\* time is not over and the token is of the login that was lent, however
\* long the token took and whatever happened meanwhile (ADR 0004, Revoke
\* Semantics).
DeliveredLent ==
  \A e \in issued' \ issued :
    /\ grants[e.id].phase = "active"
    /\ e.at < grants[e.id].ends
    /\ e.login = grants[e.id].login

\* A removed account has no loan left to end, so grant_owner never finds an
\* unended loan without its account.
RemovedUnlent == ~account.active => \A i \in Ids : ~Unended(i)

\* When the copies of a loan have arrived, in whatever order, the mirror
\* holds what PostgreSQL holds; a missed grant is made good by the end, and
\* a missed end by repeating it.
MirrorConverges ==
  \A i \in Mirrored : (\A m \in mirrors : m.id # i) =>
    LET last == IF grants[i].phase = "ended" THEN "ended" ELSE "granted"
    IN  /\ <<i, last>> \notin missed => file[i] = grants[i]
        /\ \A k \in Kinds : <<i, k>> \notin missed => fileAudit[i][k] = audit[i][k]

\* The types, one audit event per change, no loan of a removed account, and a
\* mirror that agrees.
LoansIInv == TypeOK /\ AuditMatches /\ RemovedUnlent /\ MirrorConverges
=============================================================================
