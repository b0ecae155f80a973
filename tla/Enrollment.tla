----------------------------- MODULE Enrollment -----------------------------
(***************************************************************************)
(* Company sign-in on the account server (src/central/enrollment.rs,       *)
(* enrollment/identity.rs, storage/browser.rs, dashboard/actions.rs): a    *)
(* machine asks for a device code and polls for its token; a browser signs *)
(* in for that code, or for the dashboard, and its company identity is     *)
(* resolved to a company user; a person approves the machine; the          *)
(* dashboard revokes machines and keeps an audit.  Devices, logins,        *)
(* approvals and sessions are in memory and die with a file-mode server; a *)
(* PostgreSQL server keeps logins and sessions, and enrolls no machine.    *)
(*                                                                         *)
(* An attempt is one sign-in, from its start to its session or its         *)
(* machine, which it names.  The exchange of the code and the claims of    *)
(* the ID token give the identity, and only a verified company email.      *)
(***************************************************************************)
EXTENDS Integers, Sequences, FiniteSets

CONSTANTS
  Identities,   \* the digests of issuer and subject
  EmailOf,      \* the verified email each identity arrives with
  Attempts,     \* sign-ins, 1..n
  DeviceCodes,
  Browsers,
  Nobody,
  Places,       \* 1024 logins, approvals and sessions
  DeviceTTL, SessionTTL, Recent, LastDay,  \* 300, 3600, 630 seconds; bound: the clock
  SitePlans     \* of a behaviour: mode, the configurations across restarts, what the
                \* attempts are for, and bounds on changes of users and on revocations

VARIABLES
  today,
  site,      \* mode; sites, the configurations: people, hosted, links; and the bounds
  users,     \* the registry of company users, by id
  devices,   \* device codes: phase, at, grant, and the tokens given to its polls
  attempt,   \* sign-ins: pc, of, browser, at, who, user, signed
  sessions,  \* browser sessions: user, browser, at, signed
  machines,  \* the registry of machines: token, user, revoked
  audits,    \* the dashboard's revocations: pc, token, user, changed, row, told
  admitted   \* history: who, user and the identity the user was linked to then

enrollmentVars ==
  <<today, site, users, devices, attempt, sessions, machines, audits, admitted>>

NoUser == [email |-> Nobody, enabled |-> FALSE, linked |-> Nobody]
NewUser(who) == [email |-> EmailOf[who], enabled |-> TRUE, linked |-> Nobody]
NoAttempt == [pc |-> "none", of |-> "none", browser |-> Nobody, at |-> 0, who |-> Nobody,
              user |-> Nobody, signed |-> FALSE]
NoAudit == [pc |-> "none", token |-> 0, user |-> Nobody, changed |-> FALSE, row |-> "none",
            told |-> "none"]
Config == Head(site.sites)
Shared == site.mode = "postgres"
Known(u) == users[u] # NoUser

EnrollmentInit ==
  /\ today = 0 /\ admitted = {} /\ sessions = {}
  /\ site \in SitePlans
  /\ users = [u \in Identities |-> IF u \in site.stored THEN NewUser(u) ELSE NoUser]
  /\ devices = [c \in DeviceCodes |-> [phase |-> "none", at |-> 0, grant |-> 0, given |-> <<>>]]
  /\ attempt = [i \in Attempts |-> NoAttempt]
  /\ machines = {[token |-> 0, user |-> u, revoked |-> FALSE] : u \in site.stored}
  /\ audits = [k \in 1..site.revokes |-> NoAudit]

---------------------------------------------------------------------------
\* Sso::cleanup: what is older than its time counts as gone.
DeviceThere(c) == devices[c].phase = "started" /\ today - devices[c].at < DeviceTTL
InTime(i) == today - attempt[i].at < DeviceTTL
Live(s) == today - s.at < SessionTTL
Room(pc) == Cardinality({i \in Attempts : attempt[i].pc = pc /\ InTime(i)}) < Places

Start(c) ==
  /\ ~Shared /\ devices[c].phase = "none" /\ \E i \in Attempts : site.of[i] = c
  /\ devices' = [devices EXCEPT ![c].phase = "started", ![c].at = today]
  /\ UNCHANGED <<today, site, users, attempt, sessions, machines, audits, admitted>>

\* Mutated form: the device stays when its token was taken.
TakenKept(d) == [d EXCEPT !.given = Append(@, d.grant)]
Taken(d) == [d EXCEPT !.given = Append(@, d.grant), !.phase = "gone", !.grant = 0]

\* The token leaves the device with the answer, which may be lost.
Poll(c) ==
  /\ DeviceThere(c) /\ devices[c].grant # 0 /\ Len(devices[c].given) < 2
  /\ devices' = [devices EXCEPT ![c] = Taken(@)]
  /\ UNCHANGED <<today, site, users, attempt, sessions, machines, audits, admitted>>

\* verify and accounts_sign_in, with begin_login.
Begin(i) ==
  /\ attempt[i].pc = "none" /\ Room("login")
  /\ site.of[i] \in DeviceCodes => DeviceThere(site.of[i]) /\ devices[site.of[i]].grant = 0
  /\ \E b \in Browsers :
       attempt' = [attempt EXCEPT ![i].pc = "login", ![i].of = site.of[i], ![i].browser = b,
                                  ![i].at = today]
  /\ UNCHANGED <<today, site, users, devices, sessions, machines, audits, admitted>>

Fail(i) == attempt' = [attempt EXCEPT ![i] = [NoAttempt EXCEPT !.pc = "failed"]]

\* callback: the login is consumed, by whichever browser brings its state.
Callback(i, b, who) ==
  /\ attempt[i].pc = "login" /\ InTime(i) /\ who \in Config.people
  /\ \E signed \in BOOLEAN :
       IF \/ attempt[i].of \notin DeviceCodes /\ b # attempt[i].browser
          \/ attempt[i].of = "fresh" /\ ~signed
       THEN Fail(i)
       ELSE attempt' = [attempt EXCEPT ![i].pc = "claimed", ![i].who = who,
                          ![i].signed = signed /\ attempt[i].of \notin DeviceCodes]
  /\ UNCHANGED <<today, site, users, devices, sessions, machines, audits, admitted>>

---------------------------------------------------------------------------
\* identity::decide, under the registry's lock.
Linked(who) == {u \in Identities : users[u].linked = who}
Holders(email) == {u \in Identities : Known(u) /\ users[u].email = email}
Source(who) == {u \in Identities : <<EmailOf[who], u>> \in Config.links}
Decision(who) ==
  LET found == Linked(who)
      same == Holders(EmailOf[who])
  IN CASE found # {} ->
            IF \A u \in found : users[u].enabled THEN [is |-> "known", user |-> CHOOSE u \in found : TRUE]
            ELSE [is |-> "refused"]
       [] found = {} /\ Known(who) ->
            IF users[who].enabled /\ users[who].linked = Nobody THEN [is |-> "known", user |-> who]
            ELSE [is |-> "refused"]
       [] found = {} /\ ~Known(who) /\ ~Config.hosted -> [is |-> "new"]
       [] found = {} /\ ~Known(who) /\ Config.hosted /\ same = {} /\ Source(who) = {} ->
            [is |-> "reserve"]
       [] found = {} /\ ~Known(who) /\ Config.hosted /\ Source(who) # {} /\ same = Source(who)
            /\ \A u \in same : users[u].linked = Nobody /\ users[u].enabled ->
            [is |-> "link", user |-> CHOOSE u \in same : TRUE]
       [] OTHER -> [is |-> "refused"]

\* Mutated form: an email without an account is not reserved, only answered.
RegisteredLater(who, d) ==
  IF d.is = "link" THEN [users EXCEPT ![d.user].linked = who] ELSE users
\* A new email is reserved at once; PostgreSQL reserves without hosted domains too.
Registered(who, d) ==
  CASE d.is = "link" -> [users EXCEPT ![d.user].linked = who]
    [] d.is = "reserve" \/ (d.is = "new" /\ Shared) -> [users EXCEPT ![who] = NewUser(who)]
    [] OTHER -> users

ResolveIdentity(i) ==
  /\ attempt[i].pc = "claimed"
  /\ LET who == attempt[i].who
         d == Decision(who)
         user == IF d.is \in {"known", "link"} THEN d.user ELSE who
     IN IF d.is = "refused" THEN Fail(i) /\ UNCHANGED <<users, admitted>>
        ELSE /\ users' = Registered(who, d)
             /\ attempt' = [attempt EXCEPT ![i].pc = "resolved", ![i].user = user]
             /\ admitted' = admitted \cup
                  {[who |-> who, user |-> user, linked |-> users'[user].linked]}
  /\ UNCHANGED <<today, site, devices, sessions, machines, audits>>

\* record_user, record_user_central, record_browser_user: a disabled user is refused.
RecordUser(i) ==
  /\ \/ attempt[i].pc = "resolved" /\ attempt[i].of \notin DeviceCodes
     \/ attempt[i].pc = "approving"
  /\ LET u == attempt[i].user
     IN IF Known(u) /\ ~users[u].enabled THEN Fail(i) /\ UNCHANGED users
        ELSE /\ users' = [users EXCEPT ![u] =
                  IF Known(u) THEN [@ EXCEPT !.email = EmailOf[attempt[i].who]]
                  ELSE NewUser(attempt[i].who)]
             /\ attempt' = [attempt EXCEPT ![i].pc =
                  IF @ = "approving" THEN "enrolling" ELSE "recorded"]
  /\ UNCHANGED <<today, site, devices, sessions, machines, audits, admitted>>

OpenSession(i) ==
  /\ attempt[i].pc = "recorded" /\ Cardinality({s \in sessions : Live(s)}) < Places
  /\ sessions' = {s \in sessions : Live(s)} \cup
       {[user |-> attempt[i].user, browser |-> attempt[i].browser, at |-> today,
         signed |-> attempt[i].signed]}
  /\ attempt' = [attempt EXCEPT ![i] = [NoAttempt EXCEPT !.pc = "done"]]
  /\ UNCHANGED <<today, site, users, devices, machines, audits, admitted>>

SignOut(s) ==
  /\ sessions' = sessions \ {s}
  /\ UNCHANGED <<today, site, users, devices, attempt, machines, audits, admitted>>

---------------------------------------------------------------------------
\* The end of callback, for a machine: the page that asks for the approval.
Ask(i) ==
  /\ attempt[i].pc = "resolved" /\ attempt[i].of \in DeviceCodes
  /\ IF DeviceThere(attempt[i].of) /\ Room("asking")
     THEN attempt' = [attempt EXCEPT ![i].pc = "asking", ![i].at = today]
     ELSE Fail(i)
  /\ UNCHANGED <<today, site, users, devices, sessions, machines, audits, admitted>>

\* approve: the approval works once, and the lock is not held for the rest.
Approve(i) ==
  /\ attempt[i].pc = "asking" /\ InTime(i)
  /\ IF DeviceThere(attempt[i].of) /\ devices[attempt[i].of].grant = 0
     THEN attempt' = [attempt EXCEPT ![i].pc = "approving"] ELSE Fail(i)
  /\ UNCHANGED <<today, site, users, devices, sessions, machines, audits, admitted>>

RecordMachine(i) ==
  /\ attempt[i].pc = "enrolling"
  /\ machines' = machines \cup {[token |-> i, user |-> attempt[i].user, revoked |-> FALSE]}
  /\ attempt' = [attempt EXCEPT ![i].pc = "enrolled"]
  /\ UNCHANGED <<today, site, users, devices, sessions, audits, admitted>>

\* Mutated form: the token is granted before its machine is recorded.
GrantableEarly(i) == attempt[i].pc \in {"enrolling", "enrolled"}
Grantable(i) == attempt[i].pc = "enrolled"

\* grant_device: a device that went meanwhile never gets the token; the second
\* approval of a device overwrites the first one's.
GrantDevice(i) ==
  /\ Grantable(i)
  /\ devices' = [devices EXCEPT ![attempt[i].of].grant = IF devices[attempt[i].of].phase = "started"
                                                         THEN i ELSE @]
  /\ attempt' = [attempt EXCEPT ![i] = [NoAttempt EXCEPT !.pc = "done"]]
  /\ UNCHANGED <<today, site, users, sessions, machines, audits, admitted>>

\* A failing write, or a browser that goes away.
Abandon(i) ==
  /\ attempt[i].pc \in {"resolved", "recorded", "approving", "enrolling", "enrolled"}
  /\ Fail(i)
  /\ UNCHANGED <<today, site, users, devices, sessions, machines, audits, admitted>>

---------------------------------------------------------------------------
\* run_revoke: the session's user, recently signed in, then one transaction.
Closed(k, row) == [audits[k] EXCEPT !.pc = "done", !.row = row]
RevokeBegin(k, s) ==
  /\ Shared /\ audits[k].pc = "none" /\ Live(s) /\ users[s.user].enabled
  /\ \E m \in machines :
       audits' = [audits EXCEPT ![k] =
         IF s.signed /\ today - s.at <= Recent
         THEN [@ EXCEPT !.pc = "checked", !.token = m.token, !.user = s.user]
         ELSE Closed(k, "refused")]
  /\ UNCHANGED <<today, site, users, devices, attempt, sessions, machines, admitted>>

\* CentralStore::revoke_machine: the revocation and its audit are one transaction.
RevokeCommit(k) ==
  /\ audits[k].pc = "checked"
  /\ LET mine == {m \in machines : m.token = audits[k].token /\ m.user = audits[k].user}
         changed == \E m \in mine : ~m.revoked
         row == IF mine = {} THEN "notfound" ELSE IF changed THEN "ok" ELSE "already"
     IN /\ machines' = (machines \ mine) \cup {[m EXCEPT !.revoked = TRUE] : m \in mine}
        /\ \E answered \in BOOLEAN :
             audits' = [audits EXCEPT ![k].changed = changed, ![k].row = row,
                          ![k].pc = IF answered THEN "done" ELSE "unsure",
                          ![k].told = IF answered THEN row ELSE "none"]
  /\ UNCHANGED <<today, site, users, devices, attempt, sessions, admitted>>
RevokeFails(k) ==
  /\ audits[k].pc = "checked"
  /\ audits' = [audits EXCEPT ![k].pc = "unsure"]
  /\ UNCHANGED <<today, site, users, devices, attempt, sessions, machines, admitted>>

\* Mutated form: the failure replaces the outcome that committed unheard.
RowReplaced(row) == "failed"
\* dashboard_audit: a row the lost commit left is the attempt's row.
RowKept(row) == IF row = "none" THEN "failed" ELSE row
RevokeAudit(k) ==
  /\ audits[k].pc = "unsure"
  /\ audits' = [audits EXCEPT ![k] = Closed(k, RowKept(audits[k].row))]
  /\ UNCHANGED <<today, site, users, devices, attempt, sessions, machines, admitted>>

\* revoke_device: another machine of the user, without an audit.
RevokeByMachine(m) ==
  /\ site.revokes > 0 /\ ~m.revoked /\ users[m.user].enabled
  /\ machines' = (machines \ {m}) \cup {[m EXCEPT !.revoked = TRUE]}
  /\ UNCHANGED <<today, site, users, devices, attempt, sessions, audits, admitted>>

---------------------------------------------------------------------------
\* set_user, set_user_central.
SetUser(u) ==
  /\ site.changes > 0 /\ Known(u)
  /\ users' = [users EXCEPT ![u].enabled = ~@]
  /\ site' = [site EXCEPT !.changes = @ - 1]
  /\ UNCHANGED <<today, devices, attempt, sessions, machines, audits, admitted>>

\* The server restarts, with another configuration.
Restart ==
  /\ Len(site.sites) > 1
  /\ site' = [site EXCEPT !.sites = Tail(@)]
  /\ attempt' = [i \in Attempts |->
       IF attempt[i].pc \in {"none", "done"} \/ (Shared /\ attempt[i].pc = "login") THEN attempt[i]
       ELSE [NoAttempt EXCEPT !.pc = "failed"]]
  /\ devices' = [c \in DeviceCodes |->
       IF devices[c].phase = "started" THEN [devices[c] EXCEPT !.phase = "gone", !.grant = 0]
       ELSE devices[c]]
  /\ sessions' = IF Shared THEN sessions ELSE {}
  /\ audits' = [k \in DOMAIN audits |->
       IF audits[k].pc = "none" THEN NoAudit ELSE [audits[k] EXCEPT !.pc = "done"]]
  /\ UNCHANGED <<today, users, machines, admitted>>

Pass ==
  /\ today < LastDay
  /\ today' = today + 1
  /\ UNCHANGED <<site, users, devices, attempt, sessions, machines, audits, admitted>>

EnrollmentNext ==
  \/ \E c \in DeviceCodes : Start(c) \/ Poll(c)
  \/ \E i \in Attempts :
       \/ Begin(i) \/ ResolveIdentity(i) \/ RecordUser(i) \/ OpenSession(i)
       \/ \E b \in Browsers, who \in Identities : Callback(i, b, who)
       \/ Ask(i) \/ Approve(i) \/ RecordMachine(i) \/ GrantDevice(i) \/ Abandon(i)
  \/ \E s \in sessions : SignOut(s) \/ \E k \in DOMAIN audits : RevokeBegin(k, s)
  \/ \E k \in DOMAIN audits : RevokeCommit(k) \/ RevokeFails(k) \/ RevokeAudit(k)
  \/ \E m \in machines : RevokeByMachine(m)
  \/ \E u \in Identities : SetUser(u)
  \/ Restart \/ Pass

EnrollmentSpec == EnrollmentInit /\ [][EnrollmentNext]_enrollmentVars

---------------------------------------------------------------------------
EnrollmentTypeOK ==
  /\ \A u \in Identities : users[u].linked \in Identities \cup {Nobody}
  /\ \A m, n \in machines : m.token = n.token /\ m.user = n.user => m = n
  /\ \A i \in Attempts : attempt[i].pc \in
       {"none", "login", "claimed", "resolved", "recorded", "asking", "approving",
        "enrolling", "enrolled", "done", "failed"}

\* A company identity keeps its user through cutover, restart and roll back, and
\* no second identity gets a user: the old one only until the link, and no other.
OneIdentity ==
  \A a \in admitted :
    /\ a.who = a.user => a.linked = Nobody
    /\ a.who # a.user => a.linked = a.who
    /\ a.linked # Nobody => users[a.user].linked = a.linked
    /\ \A b \in admitted : a.who = b.who => a.user = b.user

\* Two identities of the company's domains never become two users of one email.
NoCompetingUser ==
  \A u, v \in site.company : u # v /\ Known(u) /\ Known(v) => users[u].email # users[v].email

\* A device code gives one token, once, of a machine recorded for the user who
\* approved it; machines and sessions belong to users the registry knows.
DeliveredOnce ==
  \A c \in DeviceCodes :
    /\ Len(devices[c].given) <= 1
    /\ \A j \in DOMAIN devices[c].given : \E m \in machines : m.token = devices[c].given[j]
    /\ devices[c].grant # 0 => \E m \in machines : m.token = devices[c].grant
UsersKnown == \A x \in machines \cup sessions : Known(x.user)

\* What the audit says of a revocation is what it did, with its answer lost too,
\* and what the person was told agrees.
AuditTruthful ==
  \A k \in DOMAIN audits :
    /\ audits[k].changed <=> audits[k].row = "ok"
    /\ audits[k].told # "none" => audits[k].told = audits[k].row
    /\ audits[k].row = "ok" =>
         \E m \in machines : m.token = audits[k].token /\ m.user = audits[k].user /\ m.revoked

EnrollmentIInv ==
  /\ EnrollmentTypeOK /\ OneIdentity /\ NoCompetingUser /\ DeliveredOnce /\ UsersKnown
  /\ AuditTruthful
=============================================================================
