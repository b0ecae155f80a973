---------------------------- MODULE UsersProofs ----------------------------
(***************************************************************************)
(* Theorems about what the account server keeps for its users: their       *)
(* sign-ins, sessions and machines (Enrollment), the accounts they lend    *)
(* each other (Loans), and the sessions that move to another account when  *)
(* a model is overloaded (Capacity).                                       *)
(*                                                                         *)
(* Enrollment, for any identities, sign-ins, devices and course of         *)
(* restarts: an identity keeps its user because a link is made only of an  *)
(* identity without a user of its own and is never taken back              *)
(* (UsersSound), and everyone who was let in is on record as one or the    *)
(* other (AdmittedSound).  A sign-in carries that record to the machine or *)
(* the session it ends with (SignInSound).                                 *)
(*                                                                         *)
(* Loans, for any grants, requests, logins and any clock.  A request       *)
(* decides on what it read some steps ago; Knows says what of that is      *)
(* still so when it writes.  A copy on its way to the mirror is a grant as *)
(* it was; CopyOK and FileOK say which copies can still be about, and      *)
(* Arrived that what the mirror lacks is on its way or was missed.         *)
(*                                                                         *)
(* Capacity, for any accounts, windows, limits and course of reports.      *)
(* HistoryTrue says that what a history counts did happen, and MovesSound  *)
(* relates the charged moves to those that were told, also while a write   *)
(* is in progress (Pending) or its answer is lost.                         *)
(***************************************************************************)
EXTENDS Enrollment, Loans, Capacity, FiniteSetTheorems, TLAPS

---------------------------------------------------------------------------
(* Enrollment. *)

\* What the constants are: emails, configurations and what a behaviour begins with.
Emails == {EmailOf[u] : u \in Identities}

Configs ==
  [people : SUBSET Identities, hosted : BOOLEAN, links : SUBSET (Emails \X Identities)]
Sites ==
  [mode : {"file", "postgres"}, sites : Seq(Configs),
   of : [Attempts -> DeviceCodes \cup {"accounts", "fresh"}],
   stored : SUBSET Identities, company : SUBSET Identities, changes : Int, revokes : Int]

\* An identity is of one issuer, and each configuration has one: that of the company's
\* domains lets in only identities of the company, and any other one none of them.
OneIssuer(company) ==
  {c \in Configs : IF c.hosted THEN c.people \subseteq company ELSE c.people \cap company = {}}
Site(s) == s \in Sites /\ s.sites \in Seq(OneIssuer(s.company)) /\ s.sites # <<>>

\* Nobody is no one's name or email, sign-ins are numbered from 1, each behaviour has a
\* configuration to begin with, and the company's stored users have different emails.
Deployed ==
  /\ Nobody \notin Identities \cup Emails /\ 0 \notin Attempts
  /\ \A s \in SitePlans :
       /\ Site(s)
       /\ \A u, v \in s.stored \cap s.company : u # v => EmailOf[u] # EmailOf[v]

\* The records of the state.
UserRows ==
  [email : Emails \cup {Nobody}, enabled : BOOLEAN, linked : Identities \cup {Nobody}]
Devices ==
  [phase : {"none", "started", "gone"}, at : Int, grant : Attempts \cup {0},
   given : Seq(Attempts \cup {0})]
SignIns ==
  [pc : {"none", "login", "claimed", "resolved", "recorded", "asking", "approving",
         "enrolling", "enrolled", "done", "failed"},
   of : DeviceCodes \cup {"none", "accounts", "fresh"}, browser : Browsers \cup {Nobody},
   at : Int, who : Identities \cup {Nobody}, user : Identities \cup {Nobody}, signed : BOOLEAN]
Machines == [token : Attempts \cup {0}, user : Identities, revoked : BOOLEAN]
Sessions == [user : Identities, browser : Browsers \cup {Nobody}, at : Int, signed : BOOLEAN]
Outcomes == {"none", "refused", "notfound", "ok", "already", "failed"}
Audits ==
  [pc : {"none", "checked", "unsure", "done"}, token : Attempts \cup {0},
   user : Identities \cup {Nobody}, changed : BOOLEAN, row : Outcomes, told : Outcomes]
Admissions == [who : Identities, user : Identities, linked : Identities \cup {Nobody}]

\* The invariant of Enrollment, part by part.
EnrollmentTypes ==
  /\ today \in Int
  /\ Site(site)
  /\ users \in [Identities -> UserRows]
  /\ devices \in [DeviceCodes -> Devices]
  /\ attempt \in [Attempts -> SignIns]
  /\ sessions \subseteq Sessions
  /\ machines \subseteq Machines
  /\ audits \in [DOMAIN audits -> Audits]
  /\ admitted \subseteq Admissions

\* A user keeps the email of its identity. A link is of a company identity without a user
\* of its own, with the email of the user, and to this user alone.
UsersSound ==
  /\ \A u \in Identities : Known(u) => users[u].email = EmailOf[u]
  /\ \A u, w \in Identities : users[u].linked = w =>
       /\ Known(u) /\ ~Known(w) /\ w \in site.company /\ EmailOf[w] = EmailOf[u]
       /\ \A v \in Identities : users[v].linked = w => v = u
  /\ NoCompetingUser

\* Who was let in as a user of its own is linked to no other, and one of the company is
\* registered; who was let in as another user is linked to that user.
EntrySound(a) ==
  /\ a.who = a.user =>
       /\ a.linked = Nobody /\ \A u \in Identities : users[u].linked # a.who
       /\ a.who \in site.company => Known(a.who)
  /\ a.who # a.user => a.linked = a.who
  /\ a.linked # Nobody => users[a.user].linked = a.linked
AdmittedSound == \A a \in admitted : EntrySound(a)

HasMachine(token) == \E m \in machines : m.token = token
Settled(i) == attempt[i].pc \in {"enrolled", "done", "failed"}

\* A sign-in is of someone the configuration admits, then of someone let in.
SignInSound(i) ==
  LET a == attempt[i]
  IN  /\ a.pc = "claimed" => a.who \in Config.people
      /\ a.pc \in {"resolved", "recorded", "asking", "approving", "enrolling", "enrolled"} =>
           \E b \in admitted : b.who = a.who /\ b.user = a.user
      /\ a.pc \in {"recorded", "enrolling", "enrolled"} => a.user \in Identities /\ Known(a.user)
      /\ a.pc = "enrolled" => HasMachine(i)

\* A machine has one record of its user, and was made by a sign-in that has got that far.
MachinesSound ==
  /\ \A m, n \in machines : m.token = n.token /\ m.user = n.user => m = n
  /\ \A m \in machines : Known(m.user) /\ (m.token \in Attempts => Settled(m.token))
SessionsSound == \A s \in sessions : Known(s.user)

\* A device whose token was given is gone.
DeviceSound(c) ==
  LET d == devices[c]
  IN  /\ d.phase # "gone" => d.given = <<>>
      /\ Len(d.given) <= 1
      /\ \A j \in DOMAIN d.given : HasMachine(d.given[j])
      /\ d.grant # 0 => HasMachine(d.grant)

AuditSound(k) ==
  LET a == audits[k]
  IN  /\ a.pc \in {"none", "checked"} => ~a.changed /\ a.row = "none" /\ a.told = "none"
      /\ a.pc = "unsure" => a.told = "none"
      /\ a.changed <=> a.row = "ok"
      /\ a.told # "none" => a.told = a.row
      /\ a.row = "ok" => \E m \in machines : m.token = a.token /\ m.user = a.user /\ m.revoked

EnrollmentInductive ==
  /\ EnrollmentTypes /\ UsersSound /\ AdmittedSound /\ \A i \in Attempts : SignInSound(i)
  /\ MachinesSound /\ SessionsSound /\ \A c \in DeviceCodes : DeviceSound(c)
  /\ \A k \in DOMAIN audits : AuditSound(k)

---------------------------------------------------------------------------
(* What the steps leave alone. *)

UsersKept == \A u \in Identities : Known(u) => Known(u)'
MachinesKept ==
  \A m \in machines : \E n \in machines' :
    n.token = m.token /\ n.user = m.user /\ (m.revoked => n.revoked)

\* While no user changes, the registry is as sound as it was.
LEMMA UsersSame ==
  ASSUME EnrollmentInductive, users' = users, site'.company = site.company
  PROVE  UsersSound' /\ UsersKept
BY DEF EnrollmentInductive, UsersSound, NoCompetingUser, Known, UsersKept

\* Nor does what was admitted change with it.
LEMMA AdmittedSame ==
  ASSUME EnrollmentInductive, users' = users, admitted' = admitted, site'.company = site.company
  PROVE  AdmittedSound'
BY DEF EnrollmentInductive, AdmittedSound, EntrySound, Known

\* Machines that do not change are kept, and so is a token that has one.
LEMMA MachinesStay == ASSUME machines' = machines PROVE MachinesKept
BY DEF MachinesKept

LEMMA HasMachineKept ==
  ASSUME MachinesKept, NEW token, HasMachine(token) PROVE HasMachine(token)'
BY DEF MachinesKept, HasMachine

\* A sign-in that does not move is as sound as it was.
LEMMA SignInStays ==
  ASSUME EnrollmentInductive, NEW i \in Attempts, attempt'[i] = attempt[i],
         attempt[i].pc = "claimed" => Config' = Config,
         admitted \subseteq admitted', UsersKept, MachinesKept
  PROVE  SignInSound(i)'
<1>1. SignInSound(i)
  BY DEF EnrollmentInductive
<1>2. HasMachine(i) => HasMachine(i)'
  BY HasMachineKept
<1> QED
  BY <1>1, <1>2 DEF SignInSound, UsersKept

\* Machines stay sound while sign-ins do not fall back.
LEMMA MachinesSame ==
  ASSUME EnrollmentInductive, machines' = machines, UsersKept,
         \A i \in Attempts : Settled(i) => Settled(i)'
  PROVE  MachinesSound'
<1>1. MachinesSound /\ machines \subseteq Machines
  BY DEF EnrollmentInductive, EnrollmentTypes
<1>2. \A m \in machines : m.user \in Identities
  BY <1>1 DEF Machines
<1>3. ASSUME NEW m \in machines, m.token \in Attempts PROVE Settled(m.token)'
  BY <1>1, <1>3 DEF MachinesSound
<1>4. ASSUME NEW m \in machines PROVE Known(m.user)'
  BY <1>1, <1>2, <1>4 DEF MachinesSound, UsersKept
<1> QED
  BY <1>1, <1>3, <1>4 DEF MachinesSound

\* Sessions may end; their users stay known.
LEMMA SessionsSame ==
  ASSUME EnrollmentInductive, sessions' \subseteq sessions, UsersKept
  PROVE  SessionsSound' /\ sessions' \subseteq Sessions
<1>1. SessionsSound /\ \A s \in sessions : s.user \in Identities
  BY DEF EnrollmentInductive, EnrollmentTypes, Sessions
<1> QED
  BY <1>1 DEF EnrollmentInductive, EnrollmentTypes, SessionsSound, UsersKept

\* A device that does not move is as sound as it was, and so is an audit.
LEMMA DeviceStays ==
  ASSUME EnrollmentInductive, NEW c \in DeviceCodes, devices'[c] = devices[c], MachinesKept
  PROVE  DeviceSound(c)'
<1>1. DeviceSound(c)
  BY DEF EnrollmentInductive
<1>2. ASSUME NEW j \in DOMAIN devices[c].given PROVE HasMachine(devices[c].given[j])'
  BY <1>1, HasMachineKept DEF DeviceSound
<1>3. ASSUME devices[c].grant # 0 PROVE HasMachine(devices[c].grant)'
  BY <1>1, <1>3, HasMachineKept DEF DeviceSound
<1> QED
  BY <1>1, <1>2, <1>3 DEF DeviceSound, HasMachine

LEMMA AuditStays ==
  ASSUME EnrollmentInductive, NEW k \in DOMAIN audits, audits'[k] = audits[k], MachinesKept
  PROVE  AuditSound(k)'
<1>1. AuditSound(k)
  BY DEF EnrollmentInductive
<1> QED
  BY <1>1 DEF AuditSound, MachinesKept

\* Sign-ins and devices are records of these fields.
LEMMA SignInIs ==
  ASSUME EnrollmentTypes, NEW i \in Attempts
  PROVE  /\ attempt[i] \in SignIns /\ attempt \in [Attempts -> SignIns]
         /\ today \in Int /\ site.of[i] \in DeviceCodes \cup {"accounts", "fresh"}
BY DEF EnrollmentTypes, Site, Sites

\* One sign-in moves: the others are as sound as they were.
LEMMA SignInsMove ==
  ASSUME EnrollmentInductive, NEW i \in Attempts, NEW k \in SignIns,
         attempt' = [attempt EXCEPT ![i] = k], SignInSound(i)', Config' = Config,
         Settled(i) => k.pc \in {"enrolled", "done", "failed"},
         admitted \subseteq admitted', UsersKept, MachinesKept
  PROVE  /\ attempt' \in [Attempts -> SignIns]
         /\ \A j \in Attempts : SignInSound(j)' /\ (Settled(j) => Settled(j)')
<1>1. /\ attempt' \in [Attempts -> SignIns] /\ attempt'[i] = k
      /\ \A j \in Attempts \ {i} : attempt'[j] = attempt[j]
  BY DEF EnrollmentInductive, EnrollmentTypes
<1>2. ASSUME NEW j \in Attempts \ {i} PROVE SignInSound(j)'
  BY <1>1, SignInStays
<1>3. \A j \in Attempts : Settled(j) => Settled(j)'
  BY <1>1 DEF Settled
<1> QED
  BY <1>1, <1>2, <1>3

\* What holds after a step of one sign-in that changes the registry of users.
LEMMA UsersMove ==
  ASSUME EnrollmentInductive, NEW i \in Attempts, NEW k \in SignIns,
         attempt' = [attempt EXCEPT ![i] = k], SignInSound(i)',
         Settled(i) => k.pc \in {"enrolled", "done", "failed"},
         users' \in [Identities -> UserRows], UsersSound', UsersKept,
         admitted \subseteq admitted', AdmittedSound',
         admitted' \subseteq Admissions,
         UNCHANGED <<today, site, devices, sessions, machines, audits>>
  PROVE  EnrollmentInductive'
<1>1. MachinesKept
  BY MachinesStay
<1>2. /\ attempt' \in [Attempts -> SignIns]
      /\ \A j \in Attempts : SignInSound(j)' /\ (Settled(j) => Settled(j)')
  BY <1>1, SignInsMove DEF Config
<1>3. MachinesSound' /\ SessionsSound'
  BY <1>2, MachinesSame, SessionsSame
<1>4. ASSUME NEW c \in DeviceCodes PROVE DeviceSound(c)'
  BY <1>1, DeviceStays
<1>5. ASSUME NEW x \in DOMAIN audits PROVE AuditSound(x)'
  BY <1>1, AuditStays
<1>6. EnrollmentTypes'
  BY <1>2 DEF EnrollmentInductive, EnrollmentTypes
<1> QED
  BY <1>2, <1>3, <1>4, <1>5, <1>6 DEF EnrollmentInductive

\* What holds after a step of one sign-in that changes no more than its own record.
LEMMA SignInMoves ==
  ASSUME EnrollmentInductive, NEW i \in Attempts, NEW k \in SignIns,
         attempt' = [attempt EXCEPT ![i] = k], SignInSound(i)',
         Settled(i) => k.pc \in {"enrolled", "done", "failed"},
         UNCHANGED <<today, site, users, devices, sessions, machines, audits, admitted>>
  PROVE  EnrollmentInductive'
<1>1. UsersSound' /\ UsersKept /\ AdmittedSound'
  BY UsersSame, AdmittedSame
<1>2. /\ users' \in [Identities -> UserRows]
      /\ admitted' \subseteq Admissions
  BY DEF EnrollmentInductive, EnrollmentTypes
<1> QED
  BY <1>1, <1>2, UsersMove

\* A device moves, and nothing else.
LEMMA DeviceMoves ==
  ASSUME EnrollmentInductive, NEW c \in DeviceCodes, NEW k \in Devices,
         devices' = [devices EXCEPT ![c] = k], DeviceSound(c)',
         UNCHANGED <<today, site, users, attempt, sessions, machines, audits, admitted>>
  PROVE  EnrollmentInductive'
<1>1. UsersSound' /\ UsersKept /\ MachinesKept /\ AdmittedSound'
  BY UsersSame, MachinesStay, AdmittedSame
<1>2. /\ devices' \in [DeviceCodes -> Devices]
      /\ \A x \in DeviceCodes \ {c} : devices'[x] = devices[x]
  BY DEF EnrollmentInductive, EnrollmentTypes
<1>3. MachinesSound' /\ SessionsSound'
  BY <1>1, MachinesSame, SessionsSame DEF Settled
<1>4. ASSUME NEW x \in DeviceCodes PROVE DeviceSound(x)'
  BY <1>1, <1>2, DeviceStays
<1>5. ASSUME NEW x \in DOMAIN audits PROVE AuditSound(x)'
  BY <1>1, AuditStays
<1>6. ASSUME NEW i \in Attempts PROVE SignInSound(i)'
  BY <1>1, SignInStays DEF Config
<1>7. EnrollmentTypes'
  BY <1>2 DEF EnrollmentInductive, EnrollmentTypes
<1> QED
  BY <1>1, <1>3, <1>4, <1>5, <1>6, <1>7 DEF EnrollmentInductive

\* A sign-in may always fail.
LEMMA FailedIs ==
  /\ [NoAttempt EXCEPT !.pc = "failed"] \in SignIns
  /\ [NoAttempt EXCEPT !.pc = "failed"].pc = "failed"
  /\ [NoAttempt EXCEPT !.pc = "done"] \in SignIns
  /\ [NoAttempt EXCEPT !.pc = "done"].pc = "done"
<1>1. NoAttempt \in SignIns
  BY DEF NoAttempt, SignIns
<1> QED
  BY <1>1 DEF SignIns

LEMMA FailKeeps ==
  ASSUME EnrollmentInductive, NEW i \in Attempts, Fail(i),
         UNCHANGED <<today, site, users, devices, sessions, machines, audits, admitted>>
  PROVE  EnrollmentInductive'
<1> DEFINE k == [NoAttempt EXCEPT !.pc = "failed"]
<1>1. k \in SignIns /\ k.pc = "failed" /\ attempt' = [attempt EXCEPT ![i] = k]
  BY FailedIs DEF Fail
<1> HIDE DEF k
<1>2. attempt'[i] = k
  BY <1>1, SignInIs DEF EnrollmentInductive
<1>3. SignInSound(i)'
  BY <1>1, <1>2 DEF SignInSound
<1> QED
  BY <1>1, <1>3, SignInMoves

---------------------------------------------------------------------------
(* Devices and sign-ins. *)

\* A device starts without a token, and gives its token once.
LEMMA StartKeeps ==
  ASSUME EnrollmentInductive, NEW c \in DeviceCodes, Start(c) PROVE EnrollmentInductive'
<1> DEFINE k == [devices[c] EXCEPT !.phase = "started", !.at = today]
<1>1. /\ devices[c] \in Devices /\ today \in Int /\ devices[c].phase = "none" /\ DeviceSound(c)
      /\ devices \in [DeviceCodes -> Devices]
  BY DEF EnrollmentInductive, EnrollmentTypes, Start
<1>2. k \in Devices
  BY <1>1 DEF Devices
<1>3. devices' = [devices EXCEPT ![c] = k] /\ devices'[c] = k
  BY <1>1 DEF Start
<1>4. k.given = devices[c].given /\ k.grant = devices[c].grant
  BY <1>1 DEF Devices
<1> HIDE DEF k
<1>5. DeviceSound(c)'
  BY <1>1, <1>3, <1>4 DEF DeviceSound, HasMachine, Start
<1> QED
  BY <1>2, <1>3, <1>5, DeviceMoves DEF Start

LEMMA PollKeeps ==
  ASSUME EnrollmentInductive, NEW c \in DeviceCodes, Poll(c) PROVE EnrollmentInductive'
<1> DEFINE d == devices[c]
           k == Taken(d)
<1>1. /\ d \in Devices /\ devices \in [DeviceCodes -> Devices] /\ DeviceSound(c)
      /\ d.phase = "started" /\ d.grant # 0
  BY DEF EnrollmentInductive, EnrollmentTypes, Poll, DeviceThere
<1>2. d.given = <<>> /\ HasMachine(d.grant)
  BY <1>1 DEF DeviceSound
<1>3. d.grant \in Attempts \cup {0} /\ Append(d.given, d.grant) \in Seq(Attempts \cup {0})
  BY <1>1 DEF Devices
<1>4. k \in Devices
  BY <1>1, <1>3 DEF Devices, Taken
<1>5. k.given = <<d.grant>> /\ k.grant = 0 /\ k.phase = "gone"
  BY <1>1, <1>2 DEF Devices, Taken
<1>6. devices' = [devices EXCEPT ![c] = k] /\ devices'[c] = k
  BY <1>1 DEF Poll
<1>7. PICK m \in machines' : m.token = d.grant
  BY <1>2 DEF HasMachine, Poll
<1> HIDE DEF k, d
<1>8. devices'[c].given[1] = m.token /\ DOMAIN devices'[c].given = {1} /\ Len(devices'[c].given) = 1
  BY <1>5, <1>6, <1>7
<1>9. \A j \in DOMAIN devices'[c].given : \E n \in machines' : n.token = devices'[c].given[j]
  BY <1>8
<1>10. devices'[c].phase = "gone" /\ devices'[c].grant = 0
  BY <1>5, <1>6
<1>11. DeviceSound(c)'
  BY <1>8, <1>9, <1>10 DEF DeviceSound, HasMachine
<1> QED
  BY <1>4, <1>6, <1>11, DeviceMoves DEF Poll

\* A sign-in goes from its start to the identity, which the configuration admits, and from
\* there to the approval, with the identity and the user it was let in as.
LEMMA BeginKeeps ==
  ASSUME EnrollmentInductive, NEW i \in Attempts, Begin(i) PROVE EnrollmentInductive'
<1>1. PICK b \in Browsers :
        attempt' = [attempt EXCEPT ![i].pc = "login", ![i].of = site.of[i], ![i].browser = b,
                                   ![i].at = today]
  BY DEF Begin
<1> DEFINE k == [attempt[i] EXCEPT !.pc = "login", !.of = site.of[i], !.browser = b, !.at = today]
<1>2. /\ attempt[i] \in SignIns /\ attempt \in [Attempts -> SignIns] /\ today \in Int
      /\ site.of[i] \in DeviceCodes \cup {"accounts", "fresh"}
  BY SignInIs DEF EnrollmentInductive
<1>3. k \in SignIns /\ k.pc = "login"
  BY <1>2 DEF SignIns
<1>4. attempt' = [attempt EXCEPT ![i] = k] /\ attempt'[i] = k
  BY <1>1, <1>2
<1> HIDE DEF k
<1>5. SignInSound(i)'
  BY <1>3, <1>4 DEF SignInSound
<1> QED
  BY <1>3, <1>4, <1>5, SignInMoves DEF Begin, Settled

LEMMA CallbackKeeps ==
  ASSUME EnrollmentInductive, NEW i \in Attempts, NEW b \in Browsers, NEW who \in Identities,
         Callback(i, b, who)
  PROVE  EnrollmentInductive'
<1>1. PICK signed \in BOOLEAN :
        \/ Fail(i)
        \/ attempt' = [attempt EXCEPT ![i].pc = "claimed", ![i].who = who,
                          ![i].signed = signed /\ attempt[i].of \notin DeviceCodes]
  BY DEF Callback
<1>2. PICK s \in BOOLEAN : s = (signed /\ attempt[i].of \notin DeviceCodes)
  OBVIOUS
<1>3. CASE Fail(i)
  BY <1>3, FailKeeps DEF Callback
<1>4. CASE attempt' = [attempt EXCEPT ![i].pc = "claimed", ![i].who = who, ![i].signed = s]
  <2> DEFINE k == [attempt[i] EXCEPT !.pc = "claimed", !.who = who, !.signed = s]
  <2>1. attempt[i] \in SignIns /\ attempt \in [Attempts -> SignIns]
    BY SignInIs DEF EnrollmentInductive
  <2>2. k \in SignIns /\ k.pc = "claimed" /\ k.who = who
    BY <2>1 DEF SignIns
  <2>3. attempt' = [attempt EXCEPT ![i] = k] /\ attempt'[i] = k
    BY <1>4, <2>1
  <2> HIDE DEF k
  <2>4. SignInSound(i)'
    BY <2>2, <2>3 DEF SignInSound, Callback, Config
  <2> QED
    BY <2>2, <2>3, <2>4, SignInMoves DEF Callback, Settled
<1> QED
  BY <1>1, <1>2, <1>3, <1>4

LEMMA AskKeeps ==
  ASSUME EnrollmentInductive, NEW i \in Attempts, Ask(i) PROVE EnrollmentInductive'
<1>1. CASE Fail(i)
  BY <1>1, FailKeeps DEF Ask
<1>2. CASE attempt' = [attempt EXCEPT ![i].pc = "asking", ![i].at = today]
  <2> DEFINE k == [attempt[i] EXCEPT !.pc = "asking", !.at = today]
  <2>1. /\ attempt[i] \in SignIns /\ attempt \in [Attempts -> SignIns] /\ today \in Int
        /\ SignInSound(i) /\ attempt[i].pc = "resolved"
    BY SignInIs DEF EnrollmentInductive, Ask
  <2>2. k \in SignIns /\ k.pc = "asking" /\ k.who = attempt[i].who /\ k.user = attempt[i].user
    BY <2>1 DEF SignIns
  <2>3. attempt' = [attempt EXCEPT ![i] = k] /\ attempt'[i] = k
    BY <1>2, <2>1
  <2> HIDE DEF k
  <2>4. SignInSound(i)'
    BY <2>1, <2>2, <2>3 DEF SignInSound, Ask
  <2> QED
    BY <2>1, <2>2, <2>3, <2>4, SignInMoves DEF Ask, Settled
<1> QED
  BY <1>1, <1>2 DEF Ask

LEMMA ApproveKeeps ==
  ASSUME EnrollmentInductive, NEW i \in Attempts, Approve(i) PROVE EnrollmentInductive'
<1>1. CASE Fail(i)
  BY <1>1, FailKeeps DEF Approve
<1>2. CASE attempt' = [attempt EXCEPT ![i].pc = "approving"]
  <2> DEFINE k == [attempt[i] EXCEPT !.pc = "approving"]
  <2>1. /\ attempt[i] \in SignIns /\ attempt \in [Attempts -> SignIns]
        /\ SignInSound(i) /\ attempt[i].pc = "asking"
    BY SignInIs DEF EnrollmentInductive, Approve
  <2>2. k \in SignIns /\ k.pc = "approving" /\ k.who = attempt[i].who /\ k.user = attempt[i].user
    BY <2>1 DEF SignIns
  <2>3. attempt' = [attempt EXCEPT ![i] = k] /\ attempt'[i] = k
    BY <1>2, <2>1
  <2> HIDE DEF k
  <2>4. SignInSound(i)'
    BY <2>1, <2>2, <2>3 DEF SignInSound, Approve
  <2> QED
    BY <2>1, <2>2, <2>3, <2>4, SignInMoves DEF Approve, Settled
<1> QED
  BY <1>1, <1>2 DEF Approve

LEMMA AbandonKeeps ==
  ASSUME EnrollmentInductive, NEW i \in Attempts, Abandon(i) PROVE EnrollmentInductive'
BY FailKeeps DEF Abandon

---------------------------------------------------------------------------
(* Users: who an identity is, and their records. *)

\* The configuration in force is of one issuer.
LEMMA ConfigIs ==
  ASSUME EnrollmentTypes
  PROVE  /\ Config \in OneIssuer(site.company) /\ Config \in Configs
         /\ Config.people \subseteq Identities /\ Config.hosted \in BOOLEAN
         /\ Config.hosted => Config.people \subseteq site.company
         /\ ~Config.hosted => Config.people \cap site.company = {}
<1>1. Config \in OneIssuer(site.company)
  BY DEF EnrollmentTypes, Site, Config
<1> QED
  BY <1>1 DEF OneIssuer, Configs

\* A user that is linked, or has an email, is known.
LEMMA KnownIs ==
  ASSUME EnrollmentTypes, Deployed, UsersSound, NEW u \in Identities
  PROVE  /\ users[u] \in UserRows /\ EmailOf[u] \in Emails /\ EmailOf[u] # Nobody
         /\ Known(u) => users[u].email = EmailOf[u]
         /\ ~Known(u) => users[u].linked = Nobody
         /\ NewUser(u) \in UserRows /\ NewUser(u) # NoUser
         /\ NewUser(u).email = EmailOf[u] /\ NewUser(u).linked = Nobody
<1>1. users[u] \in UserRows /\ EmailOf[u] \in Emails /\ EmailOf[u] # Nobody
  BY DEF EnrollmentTypes, Emails, Deployed
<1>2. Known(u) => users[u].email = EmailOf[u]
  BY DEF UsersSound
<1>3. ~Known(u) => users[u].linked = Nobody
  BY DEF Known, NoUser
<1> QED
  BY <1>1, <1>2, <1>3 DEF NewUser, UserRows, NoUser

\* What decide answers, when it admits.
LEMMA DecisionIs ==
  ASSUME NEW who \in Identities, NEW d, d = Decision(who), d.is # "refused"
  PROVE  \/ d.is = "known" /\ d.user \in Linked(who)
         \/ /\ d.is = "known" /\ d.user = who /\ Known(who) /\ users[who].linked = Nobody
            /\ Linked(who) = {}
         \/ d.is = "new" /\ Linked(who) = {} /\ ~Known(who) /\ ~Config.hosted
         \/ /\ d.is = "reserve" /\ Linked(who) = {} /\ ~Known(who) /\ Config.hosted
            /\ Holders(EmailOf[who]) = {}
         \/ /\ d.is = "link" /\ Linked(who) = {} /\ ~Known(who) /\ Config.hosted
            /\ d.user \in Holders(EmailOf[who]) /\ users[d.user].linked = Nobody
<1> DEFINE found == Linked(who)
           same == Holders(EmailOf[who])
<1>1. CASE found # {}
  <2>1. (CHOOSE u \in found : TRUE) \in found
    BY <1>1
  <2>2. d = IF \A u \in found : users[u].enabled THEN [is |-> "known", user |-> CHOOSE u \in found : TRUE]
            ELSE [is |-> "refused"]
    BY <1>1 DEF Decision
  <2> HIDE DEF found
  <2>3. d = [is |-> "known", user |-> CHOOSE u \in found : TRUE]
    BY <2>2
  <2>4. d.is = "known" /\ d.user \in found
    BY <2>1, <2>3
  <2> QED
    BY <2>4 DEF found
<1>2. CASE found = {} /\ Known(who)
  <2>1. d = IF users[who].enabled /\ users[who].linked = Nobody THEN [is |-> "known", user |-> who]
            ELSE [is |-> "refused"]
    BY <1>2 DEF Decision
  <2> QED
    BY <1>2, <2>1
<1>3. CASE found = {} /\ ~Known(who) /\ ~Config.hosted
  <2>1. d = [is |-> "new"]
    BY <1>3 DEF Decision
  <2> QED
    BY <1>3, <2>1
<1>4. CASE found = {} /\ ~Known(who) /\ Config.hosted /\ same = {} /\ Source(who) = {}
  <2>1. d = [is |-> "reserve"]
    BY <1>4 DEF Decision
  <2> QED
    BY <1>4, <2>1
<1>5. CASE /\ found = {} /\ ~Known(who) /\ Config.hosted /\ Source(who) # {} /\ same = Source(who)
           /\ \A u \in same : users[u].linked = Nobody /\ users[u].enabled
  <2>1. d = [is |-> "link", user |-> CHOOSE u \in same : TRUE]
    BY <1>5 DEF Decision
  <2>2. (CHOOSE u \in same : TRUE) \in same
    BY <1>5
  <2> HIDE DEF same
  <2>3. d.is = "link" /\ d.user \in same
    BY <2>1, <2>2
  <2> QED
    BY <1>5, <2>3 DEF same
<1>6. CASE ~(\/ found # {}
             \/ found = {} /\ Known(who)
             \/ found = {} /\ ~Known(who) /\ ~Config.hosted
             \/ found = {} /\ ~Known(who) /\ Config.hosted /\ same = {} /\ Source(who) = {}
             \/ /\ found = {} /\ ~Known(who) /\ Config.hosted /\ Source(who) # {}
                /\ same = Source(who)
                /\ \A u \in same : users[u].linked = Nobody /\ users[u].enabled)
  <2>1. d = [is |-> "refused"]
    BY <1>6 DEF Decision
  <2> QED
    BY <2>1
<1> QED
  BY <1>1, <1>2, <1>3, <1>4, <1>5, <1>6

\* A user is added under an identity that is not known and not linked.
LEMMA UserAdded ==
  ASSUME Deployed, EnrollmentInductive, NEW who \in Identities, ~Known(who), Linked(who) = {},
         who \in site.company => Holders(EmailOf[who]) = {},
         users' = [users EXCEPT ![who] = NewUser(who)], site' = site
  PROVE  /\ users' \in [Identities -> UserRows] /\ UsersSound' /\ UsersKept
         /\ \A u \in Identities : users'[u].linked = users[u].linked
         /\ Known(who)'
<1>1. /\ users \in [Identities -> UserRows] /\ UsersSound /\ EnrollmentTypes
      /\ NewUser(who) \in UserRows /\ NewUser(who) # NoUser /\ NewUser(who).linked = Nobody
      /\ NewUser(who).email = EmailOf[who] /\ users[who].linked = Nobody
  BY KnownIs DEF EnrollmentInductive, EnrollmentTypes
<1>2. /\ users' \in [Identities -> UserRows] /\ users'[who] = NewUser(who)
      /\ \A u \in Identities \ {who} : users'[u] = users[u]
  BY <1>1
<1>3. \A u \in Identities : users'[u].linked = users[u].linked
  BY <1>1, <1>2
<1>4. \A u \in Identities : Known(u)' <=> Known(u) \/ u = who
  BY <1>1, <1>2 DEF Known
<1>5. ASSUME NEW u \in Identities, Known(u)' PROVE users'[u].email = EmailOf[u]
  BY <1>1, <1>2, <1>4, <1>5 DEF UsersSound
<1>6. ASSUME NEW u \in Identities, NEW w \in Identities, users'[u].linked = w
      PROVE  /\ Known(u)' /\ ~Known(w)' /\ w \in site'.company /\ EmailOf[w] = EmailOf[u]
             /\ \A v \in Identities : users'[v].linked = w => v = u
  <2>1. users[u].linked = w
    BY <1>3, <1>6
  <2>2. w # who
    BY <2>1 DEF Linked
  <2> QED
    BY <1>1, <1>3, <1>4, <2>1, <2>2 DEF UsersSound
<1>7. ASSUME NEW u \in site.company, NEW v \in site.company, u # v, Known(u)', Known(v)',
             users'[u].email = users'[v].email
      PROVE  FALSE
  <2>1. site.company \subseteq Identities
    BY <1>1 DEF EnrollmentTypes, Site, Sites
  <2>2. CASE u # who /\ v # who
    BY <1>1, <1>2, <1>4, <1>7, <2>1, <2>2 DEF UsersSound, NoCompetingUser
  <2>3. CASE u = who
    <3>1. v \in Holders(EmailOf[who])
      BY <1>1, <1>2, <1>4, <1>7, <2>1, <2>3 DEF Holders
    <3> QED
      BY <1>7, <2>3, <3>1
  <2>4. CASE v = who
    <3>1. u \in Holders(EmailOf[who])
      BY <1>1, <1>2, <1>4, <1>7, <2>1, <2>4 DEF Holders
    <3> QED
      BY <1>7, <2>4, <3>1
  <2> QED
    BY <2>2, <2>3, <2>4
<1>8. UsersSound'
  BY <1>5, <1>6, <1>7 DEF UsersSound, NoCompetingUser
<1> QED
  BY <1>2, <1>3, <1>4, <1>8 DEF UsersKept

\* An identity of the company, without a user of its own, is linked to the user of its email.
LEMMA UserLinked ==
  ASSUME Deployed, EnrollmentInductive, NEW who \in site.company, ~Known(who), Linked(who) = {},
         NEW x \in Holders(EmailOf[who]), users[x].linked = Nobody,
         users' = [users EXCEPT ![x].linked = who], site' = site
  PROVE  /\ users' \in [Identities -> UserRows] /\ UsersSound' /\ UsersKept
         /\ \A u \in Identities \ {x} : users'[u].linked = users[u].linked
         /\ users'[x].linked = who /\ Known(x) /\ x \in Identities /\ who \in Identities
         /\ \A u \in Identities : Known(u)' <=> Known(u)
<1> DEFINE k == [users[x] EXCEPT !.linked = who]
<1>1. /\ users \in [Identities -> UserRows] /\ UsersSound /\ EnrollmentTypes
      /\ x \in Identities /\ Known(x) /\ users[x].email = EmailOf[who]
      /\ who \in Identities /\ site.company \subseteq Identities
  BY DEF EnrollmentInductive, EnrollmentTypes, Holders, Site, Sites
<1>2. /\ users[x] \in UserRows /\ EmailOf[x] # Nobody /\ users[x].email = EmailOf[x]
  BY <1>1, KnownIs
<1>3. k \in UserRows /\ k.linked = who /\ k.email = EmailOf[x] /\ k # NoUser
  BY <1>1, <1>2 DEF UserRows, NoUser
<1>4. users' = [users EXCEPT ![x] = k]
  BY <1>1
<1> HIDE DEF k
<1>5. /\ users' \in [Identities -> UserRows] /\ users'[x] = k
      /\ \A u \in Identities \ {x} : users'[u] = users[u]
  BY <1>1, <1>3, <1>4
<1>6. \A u \in Identities : Known(u)' <=> Known(u)
  BY <1>1, <1>3, <1>5 DEF Known
<1>7. \A u \in Identities : users'[u].email = users[u].email
  BY <1>2, <1>3, <1>5
<1>8. ASSUME NEW u \in Identities, NEW w \in Identities, users'[u].linked = w
      PROVE  /\ Known(u)' /\ ~Known(w)' /\ w \in site'.company /\ EmailOf[w] = EmailOf[u]
             /\ \A v \in Identities : users'[v].linked = w => v = u
  <2>1. CASE u = x
    <3>1. w = who
      BY <1>3, <1>5, <1>8, <2>1
    <3>2. \A v \in Identities : users'[v].linked = w => v = x
      BY <1>5, <3>1 DEF Linked
    <3> QED
      BY <1>1, <1>2, <1>6, <2>1, <3>1, <3>2
  <2>2. CASE u # x
    <3>1. users[u].linked = w /\ w # who
      BY <1>5, <1>8, <2>2 DEF Linked
    <3>2. \A v \in Identities : users'[v].linked = w => v # x /\ users[v].linked = w
      BY <1>3, <1>5, <3>1
    <3> QED
      BY <1>1, <1>6, <3>1, <3>2 DEF UsersSound
  <2> QED
    BY <2>1, <2>2
<1>9. UsersSound'
  BY <1>1, <1>6, <1>7, <1>8 DEF UsersSound, NoCompetingUser
<1> QED
  BY <1>1, <1>3, <1>5, <1>6, <1>9 DEF UsersKept

\* Who was let in stays so while links stay.
LEMMA EntryStays ==
  ASSUME EnrollmentInductive, UsersKept, site' = site, NEW a \in admitted,
         \A u \in Identities : users'[u].linked = users[u].linked
  PROVE  EntrySound(a)'
<1>1. EntrySound(a) /\ a.who \in Identities /\ a.user \in Identities
  BY DEF EnrollmentInductive, EnrollmentTypes, AdmittedSound, Admissions
<1> QED
  BY <1>1 DEF EntrySound, UsersKept

\* resolve, case by case: who is let in is on record, and those before stay so.
LEMMA AdmissionKeeps ==
  ASSUME Deployed, EnrollmentInductive, NEW who \in Config.people, NEW d, d = Decision(who),
         d.is # "refused", NEW user, user = IF d.is \in {"known", "link"} THEN d.user ELSE who,
         users' = Registered(who, d), site' = site, NEW e,
         e = [who |-> who, user |-> user, linked |-> users'[user].linked]
  PROVE  /\ users' \in [Identities -> UserRows] /\ UsersSound' /\ UsersKept
         /\ e \in Admissions /\ EntrySound(e)' /\ \A a \in admitted : EntrySound(a)'
<1>0. /\ EnrollmentTypes /\ UsersSound /\ users \in [Identities -> UserRows]
      /\ who \in Identities /\ e.who = who /\ e.user = user /\ e.linked = users'[user].linked
      /\ Config.hosted => who \in site.company
      /\ ~Config.hosted => who \notin site.company
  BY ConfigIs DEF EnrollmentInductive, EnrollmentTypes
<1>1. ASSUME d.is = "known", user \in Identities, users' = users,
             users[user].linked = who \/ (user = who /\ Known(who) /\ users[who].linked = Nobody
                                          /\ Linked(who) = {})
      PROVE  EntrySound(e)'
  <2>1. CASE users[user].linked = who
    <3>1. Known(user) /\ ~Known(who)
      BY <1>0, <1>1, <2>1 DEF UsersSound
    <3>2. user # who
      BY <3>1
    <3> QED
      BY <1>0, <1>1, <2>1, <3>2 DEF EntrySound
  <2>2. CASE user = who /\ Known(who) /\ users[who].linked = Nobody /\ Linked(who) = {}
    BY <1>0, <1>1, <2>2 DEF EntrySound, Linked, Known
  <2> QED
    BY <1>1, <2>1, <2>2
<1>2. CASE d.is = "known"
  <2>1. user = d.user /\ users' = users
    BY <1>2 DEF Registered
  <2>2. /\ user \in Identities
        /\ users[user].linked = who \/ (user = who /\ Known(who) /\ users[who].linked = Nobody
                                        /\ Linked(who) = {})
    BY <1>0, <1>2, <2>1, DecisionIs DEF Linked
  <2>3. EntrySound(e)'
    BY <1>1, <1>2, <2>1, <2>2
  <2>4. UsersSound' /\ UsersKept
    BY <2>1, UsersSame
  <2>5. \A a \in admitted : EntrySound(a)'
    BY <2>1, <2>4, EntryStays
  <2>6. e \in Admissions
    BY <1>0, <2>1, <2>2 DEF Admissions, UserRows
  <2> QED
    BY <1>0, <2>1, <2>3, <2>4, <2>5, <2>6
<1>3. CASE d.is = "new" /\ users' = users
  <2>1. user = who /\ Linked(who) = {} /\ ~Known(who) /\ ~Config.hosted
    BY <1>0, <1>3, DecisionIs
  <2>2. users[who].linked = Nobody
    BY <1>0, <2>1, KnownIs
  <2>3. EntrySound(e)'
    BY <1>0, <1>3, <2>1, <2>2 DEF EntrySound, Linked
  <2>4. UsersSound' /\ UsersKept
    BY <1>3, UsersSame
  <2>5. \A a \in admitted : EntrySound(a)'
    BY <1>3, <2>4, EntryStays
  <2>6. e \in Admissions
    BY <1>0, <1>3, <2>1, <2>2 DEF Admissions
  <2> QED
    BY <1>0, <1>3, <2>3, <2>4, <2>5, <2>6
<1>4. CASE d.is \in {"new", "reserve"} /\ users' = [users EXCEPT ![who] = NewUser(who)]
  <2>1. /\ user = who /\ Linked(who) = {} /\ ~Known(who)
        /\ who \in site.company => Holders(EmailOf[who]) = {}
    BY <1>0, <1>4, DecisionIs
  <2>2. /\ users' \in [Identities -> UserRows] /\ UsersSound' /\ UsersKept
        /\ \A u \in Identities : users'[u].linked = users[u].linked
        /\ Known(who)'
    BY <1>0, <1>4, <2>1, UserAdded
  <2>3. users'[who].linked = Nobody
    BY <1>0, <2>1, <2>2, KnownIs
  <2>4. EntrySound(e)'
    BY <1>0, <2>1, <2>2, <2>3 DEF EntrySound, Linked
  <2>5. \A a \in admitted : EntrySound(a)'
    BY <2>2, EntryStays
  <2>6. e \in Admissions
    BY <1>0, <2>1, <2>3 DEF Admissions
  <2> QED
    BY <2>2, <2>4, <2>5, <2>6
<1>5. CASE d.is = "link"
  <2>1. /\ user = d.user /\ Linked(who) = {} /\ ~Known(who) /\ who \in site.company
        /\ user \in Holders(EmailOf[who]) /\ users[user].linked = Nobody
    BY <1>0, <1>5, DecisionIs
  <2>2. users' = [users EXCEPT ![user].linked = who]
    BY <1>5, <2>1 DEF Registered
  <2>3. /\ users' \in [Identities -> UserRows] /\ UsersSound' /\ UsersKept
        /\ \A u \in Identities \ {user} : users'[u].linked = users[u].linked
        /\ users'[user].linked = who /\ Known(user) /\ user \in Identities
        /\ \A u \in Identities : Known(u)' <=> Known(u)
    BY <2>1, <2>2, UserLinked
  <2>4. who # user /\ who # Nobody
    BY <1>0, <2>1, <2>3 DEF Deployed
  <2>5. EntrySound(e)'
    BY <1>0, <2>3, <2>4 DEF EntrySound
  <2>6. ASSUME NEW a \in admitted PROVE EntrySound(a)'
    <3>1. EntrySound(a) /\ a.who \in Identities /\ a.user \in Identities
      BY DEF EnrollmentInductive, EnrollmentTypes, AdmittedSound, Admissions
    <3>2. ASSUME a.who = a.user
          PROVE  /\ a.linked = Nobody /\ \A u \in Identities : users'[u].linked # a.who
                 /\ a.who \in site'.company => Known(a.who)'
      <4>1. a.who # who
        BY <2>1, <3>1, <3>2 DEF EntrySound
      <4> QED
        BY <2>3, <3>1, <3>2, <4>1 DEF EntrySound
    <3>3. a.linked # Nobody => users'[a.user].linked = a.linked
      BY <2>1, <2>3, <3>1 DEF EntrySound
    <3> QED
      BY <3>1, <3>2, <3>3 DEF EntrySound
  <2>7. e \in Admissions
    BY <1>0, <2>3 DEF Admissions
  <2> QED
    BY <2>3, <2>5, <2>6, <2>7
<1>6. \/ d.is = "known" \/ d.is = "link"
      \/ d.is = "new" /\ users' = users
      \/ d.is \in {"new", "reserve"} /\ users' = [users EXCEPT ![who] = NewUser(who)]
  <2>1. d.is \in {"known", "link", "new", "reserve"}
    BY <1>0, DecisionIs
  <2> QED
    BY <2>1 DEF Registered
<1> QED
  BY <1>2, <1>3, <1>4, <1>5, <1>6

\* resolve: who is let in is put on record in the same step.
LEMMA IdentityKeeps ==
  ASSUME Deployed, EnrollmentInductive, NEW i \in Attempts, ResolveIdentity(i)
  PROVE  EnrollmentInductive'
<1> DEFINE who == attempt[i].who
           d == Decision(who)
           user == IF d.is \in {"known", "link"} THEN d.user ELSE who
<1>1. /\ attempt[i] \in SignIns /\ attempt \in [Attempts -> SignIns] /\ SignInSound(i)
      /\ attempt[i].pc = "claimed" /\ who \in Config.people
  BY SignInIs DEF EnrollmentInductive, ResolveIdentity, SignInSound
<1>2. CASE d.is = "refused"
  BY <1>2, FailKeeps DEF ResolveIdentity
<1>3. CASE d.is # "refused"
  <2>1. PICK e : e = [who |-> who, user |-> user, linked |-> users'[user].linked]
    OBVIOUS
  <2>2. /\ users' = Registered(who, d) /\ admitted' = admitted \cup {e}
        /\ attempt' = [attempt EXCEPT ![i].pc = "resolved", ![i].user = user]
        /\ UNCHANGED <<today, site, devices, sessions, machines, audits>>
    BY <1>3, <2>1 DEF ResolveIdentity
  <2>3. PICK w, z, u :
          /\ w \in Config.people /\ w = who /\ z = Decision(w) /\ z.is # "refused"
          /\ u = (IF z.is \in {"known", "link"} THEN z.user ELSE w)
          /\ e = [who |-> w, user |-> u, linked |-> users'[u].linked]
          /\ users' = Registered(w, z) /\ u = user
    BY <1>1, <1>3, <2>1, <2>2
  <2>4. /\ users' \in [Identities -> UserRows] /\ UsersSound' /\ UsersKept
        /\ e \in Admissions /\ EntrySound(e)' /\ \A a \in admitted : EntrySound(a)'
    BY <2>2, <2>3, AdmissionKeeps
  <2>5. AdmittedSound' /\ admitted \subseteq admitted' /\ admitted' \subseteq Admissions
    BY <2>2, <2>4 DEF AdmittedSound, EnrollmentInductive, EnrollmentTypes
  <2>6. u \in Identities /\ e.who = w /\ e.user = u
    BY <2>3, <2>4 DEF Admissions
  <2> DEFINE k == [attempt[i] EXCEPT !.pc = "resolved", !.user = u]
  <2>7. k \in SignIns /\ k.pc = "resolved" /\ k.who = w /\ k.user = u
    BY <1>1, <2>3, <2>6 DEF SignIns
  <2>8. attempt' = [attempt EXCEPT ![i] = k] /\ attempt'[i] = k
    BY <1>1, <2>2, <2>3
  <2> HIDE DEF k, who, user, d
  <2>9. SignInSound(i)'
    BY <2>2, <2>6, <2>7, <2>8 DEF SignInSound
  <2> QED
    BY <1>1, <2>2, <2>4, <2>5, <2>7, <2>8, <2>9, UsersMove DEF Settled
<1> QED
  BY <1>2, <1>3

\* A user that is recorded keeps the email of its identity; one that is not is outside the
\* company.
LEMMA RecordUserKeeps ==
  ASSUME Deployed, EnrollmentInductive, NEW i \in Attempts, RecordUser(i)
  PROVE  EnrollmentInductive'
<1>1. CASE Fail(i) /\ UNCHANGED users
  BY <1>1, FailKeeps DEF RecordUser
<1>2. CASE ~(Fail(i) /\ UNCHANGED users)
  <2>1. /\ attempt[i] \in SignIns /\ attempt \in [Attempts -> SignIns] /\ SignInSound(i)
        /\ attempt[i].pc \in {"resolved", "approving"} /\ EnrollmentTypes /\ UsersSound
        /\ users \in [Identities -> UserRows]
    BY SignInIs DEF EnrollmentInductive, EnrollmentTypes, RecordUser
  <2>2. PICK b \in admitted : b.who = attempt[i].who /\ b.user = attempt[i].user
    BY <2>1 DEF SignInSound
  <2>3. PICK u \in Identities, who \in Identities : u = attempt[i].user /\ who = attempt[i].who
    BY <2>1, <2>2 DEF EnrollmentTypes, Admissions
  <2>4. PICK pc \in {"enrolling", "recorded"} :
          /\ attempt' = [attempt EXCEPT ![i].pc = pc]
          /\ users' = [users EXCEPT ![u] = IF Known(u) THEN [users[u] EXCEPT !.email = EmailOf[who]]
                                           ELSE NewUser(who)]
          /\ UNCHANGED <<today, site, devices, sessions, machines, audits, admitted>>
    BY <1>2, <2>1, <2>3 DEF RecordUser
  <2>5. EntrySound(b)
    BY DEF EnrollmentInductive, AdmittedSound
  <2>6. /\ users' \in [Identities -> UserRows] /\ UsersSound' /\ UsersKept /\ Known(u)'
        /\ \A x \in Identities : users'[x].linked = users[x].linked
    <3>1. CASE Known(u)
      <4>1. EmailOf[who] = EmailOf[u]
        <5>1. CASE who # u
          BY <2>1, <2>2, <2>3, <2>5, <5>1 DEF EntrySound, UsersSound, Deployed
        <5> QED
          BY <5>1
      <4>2. users[u] \in UserRows /\ users[u].email = EmailOf[u]
        BY <2>1, <3>1, KnownIs
      <4>3. [users[u] EXCEPT !.email = EmailOf[who]] = users[u]
        BY <4>1, <4>2 DEF UserRows
      <4>4. users' = users
        BY <2>1, <2>4, <3>1, <4>3
      <4> QED
        BY <2>1, <2>4, <3>1, <4>4, UsersSame DEF Known
    <3>2. CASE ~Known(u)
      <4>1. users[u].linked = Nobody
        BY <2>1, <3>2, KnownIs
      <4>2. who = u
        BY <2>1, <2>2, <2>3, <2>5, <4>1 DEF EntrySound, Deployed
      <4>3. Linked(u) = {} /\ u \notin site.company
        BY <2>2, <2>3, <2>5, <3>2, <4>2 DEF EntrySound, Linked
      <4>4. users' = [users EXCEPT ![u] = NewUser(u)] /\ site' = site
        BY <2>4, <3>2, <4>2
      <4> QED
        BY <3>2, <4>3, <4>4, UserAdded
    <3> QED
      BY <3>1, <3>2
  <2>7. AdmittedSound' /\ admitted \subseteq admitted' /\ admitted' \subseteq Admissions
    BY <2>1, <2>4, <2>6, EntryStays DEF AdmittedSound, EnrollmentTypes
  <2> DEFINE k == [attempt[i] EXCEPT !.pc = pc]
  <2>8. k \in SignIns /\ k.pc = pc /\ k.who = who /\ k.user = u
    BY <2>1, <2>3 DEF SignIns
  <2>9. attempt' = [attempt EXCEPT ![i] = k] /\ attempt'[i] = k
    BY <2>1, <2>4
  <2> HIDE DEF k
  <2>10. SignInSound(i)'
    BY <2>2, <2>3, <2>4, <2>6, <2>8, <2>9 DEF SignInSound
  <2>11. ~Settled(i)
    BY <2>1 DEF Settled
  <2>12. UNCHANGED <<today, site, devices, sessions, machines, audits>>
    BY <2>4
  <2> QED
    BY <2>6, <2>7, <2>8, <2>9, <2>10, <2>11, <2>12, UsersMove
<1> QED
  BY <1>1, <1>2

---------------------------------------------------------------------------
(* Sessions, machines and devices. *)

\* A session is of the user that was just recorded.
LEMMA OpenSessionKeeps ==
  ASSUME EnrollmentInductive, NEW i \in Attempts, OpenSession(i) PROVE EnrollmentInductive'
<1> DEFINE k == [NoAttempt EXCEPT !.pc = "done"]
           s == [user |-> attempt[i].user, browser |-> attempt[i].browser, at |-> today,
                 signed |-> attempt[i].signed]
<1>1. /\ attempt[i] \in SignIns /\ attempt \in [Attempts -> SignIns] /\ SignInSound(i)
      /\ attempt[i].pc = "recorded" /\ today \in Int
      /\ attempt[i].user \in Identities /\ Known(attempt[i].user)
  BY SignInIs DEF EnrollmentInductive, OpenSession, SignInSound
<1>2. s \in Sessions /\ s.user = attempt[i].user
  BY <1>1 DEF SignIns, Sessions
<1>3. k \in SignIns /\ k.pc = "done" /\ attempt' = [attempt EXCEPT ![i] = k]
  BY FailedIs DEF OpenSession
<1>4. /\ sessions' \subseteq sessions \cup {s}
      /\ UNCHANGED <<today, site, users, devices, machines, audits, admitted>>
  BY DEF OpenSession
<1> HIDE DEF k, s
<1>5. UsersSound' /\ UsersKept /\ MachinesKept /\ AdmittedSound'
  BY <1>4, UsersSame, AdmittedSame, MachinesStay
<1>6. attempt'[i] = k
  BY <1>1, <1>3
<1>7. SignInSound(i)'
  BY <1>3, <1>6 DEF SignInSound
<1>8. /\ attempt' \in [Attempts -> SignIns]
      /\ \A j \in Attempts : SignInSound(j)' /\ (Settled(j) => Settled(j)')
  BY <1>3, <1>4, <1>5, <1>7, SignInsMove DEF Config
<1>9. MachinesSound'
  BY <1>4, <1>5, <1>8, MachinesSame
<1>10. SessionsSound' /\ sessions' \subseteq Sessions
  <2>1. SessionsSound /\ sessions \subseteq Sessions
    BY DEF EnrollmentInductive, EnrollmentTypes
  <2>2. \A x \in sessions' : Known(x.user)
    BY <1>1, <1>2, <1>4, <2>1 DEF SessionsSound
  <2> QED
    BY <1>2, <1>4, <2>1, <2>2 DEF SessionsSound, Known
<1>11. ASSUME NEW c \in DeviceCodes PROVE DeviceSound(c)'
  BY <1>4, <1>5, DeviceStays
<1>12. ASSUME NEW x \in DOMAIN audits PROVE AuditSound(x)'
  BY <1>4, <1>5, AuditStays
<1>13. EnrollmentTypes'
  BY <1>4, <1>8, <1>10 DEF EnrollmentInductive, EnrollmentTypes
<1> QED
  BY <1>4, <1>5, <1>8, <1>9, <1>10, <1>11, <1>12, <1>13 DEF EnrollmentInductive

\* A machine is of the user that was just recorded, and of a sign-in that had none.
LEMMA RecordMachineKeeps ==
  ASSUME EnrollmentInductive, NEW i \in Attempts, RecordMachine(i) PROVE EnrollmentInductive'
<1> DEFINE k == [attempt[i] EXCEPT !.pc = "enrolled"]
           n == [token |-> i, user |-> attempt[i].user, revoked |-> FALSE]
<1>1. /\ attempt[i] \in SignIns /\ attempt \in [Attempts -> SignIns] /\ SignInSound(i)
      /\ attempt[i].pc = "enrolling" /\ attempt[i].user \in Identities /\ Known(attempt[i].user)
  BY SignInIs DEF EnrollmentInductive, RecordMachine, SignInSound
<1>2. n \in Machines /\ n.token = i /\ n.user = attempt[i].user
  BY <1>1 DEF Machines
<1>3. /\ machines' = machines \cup {n}
      /\ UNCHANGED <<today, site, users, devices, sessions, audits, admitted>>
  BY DEF RecordMachine
<1>4. /\ k \in SignIns /\ k.pc = "enrolled" /\ k.user = attempt[i].user
      /\ k.who = attempt[i].who
  BY <1>1 DEF SignIns
<1>5. attempt' = [attempt EXCEPT ![i] = k] /\ attempt'[i] = k
  BY <1>1 DEF RecordMachine
<1> HIDE DEF k, n
<1>6. UsersSound' /\ UsersKept /\ MachinesKept /\ AdmittedSound'
  BY <1>3, UsersSame, AdmittedSame DEF MachinesKept
<1>7. SignInSound(i)'
  <2>1. HasMachine(i)'
    BY <1>2, <1>3 DEF HasMachine
  <2> QED
    BY <1>1, <1>3, <1>4, <1>5, <2>1 DEF SignInSound, Known
<1>8. /\ attempt' \in [Attempts -> SignIns]
      /\ \A j \in Attempts : SignInSound(j)' /\ (Settled(j) => Settled(j)')
  BY <1>3, <1>4, <1>5, <1>6, <1>7, SignInsMove DEF Config
<1>9. MachinesSound'
  <2>1. MachinesSound /\ \A m \in machines : m.token # i
    BY <1>1 DEF EnrollmentInductive, MachinesSound, Settled
  <2>2. \A m, x \in machines' : m.token = x.token /\ m.user = x.user => m = x
    BY <1>2, <1>3, <2>1 DEF MachinesSound
  <2>3. ASSUME NEW m \in machines', m.token \in Attempts PROVE Settled(m.token)'
    <3>1. CASE m = n
      BY <1>2, <1>4, <1>5, <3>1 DEF Settled
    <3>2. CASE m \in machines
      BY <1>8, <2>1, <2>3, <3>2 DEF MachinesSound
    <3> QED
      BY <1>3, <3>1, <3>2
  <2>4. ASSUME NEW m \in machines' PROVE Known(m.user)'
    BY <1>1, <1>2, <1>3, <2>1, <2>4 DEF MachinesSound, Known
  <2> QED
    BY <2>2, <2>3, <2>4 DEF MachinesSound
<1>10. SessionsSound'
  BY <1>3, <1>6, SessionsSame
<1>11. ASSUME NEW c \in DeviceCodes PROVE DeviceSound(c)'
  BY <1>3, <1>6, DeviceStays
<1>12. ASSUME NEW x \in DOMAIN audits PROVE AuditSound(x)'
  BY <1>3, <1>6, AuditStays
<1>13. EnrollmentTypes'
  BY <1>2, <1>3, <1>8 DEF EnrollmentInductive, EnrollmentTypes
<1> QED
  BY <1>3, <1>6, <1>8, <1>9, <1>10, <1>11, <1>12, <1>13 DEF EnrollmentInductive

\* The token that is granted has its machine; a device that went gets none.
LEMMA GrantDeviceKeeps ==
  ASSUME EnrollmentInductive, NEW i \in Attempts, GrantDevice(i) PROVE EnrollmentInductive'
<1> DEFINE k == [NoAttempt EXCEPT !.pc = "done"]
<1>1. /\ attempt[i] \in SignIns /\ attempt \in [Attempts -> SignIns] /\ SignInSound(i)
      /\ attempt[i].pc = "enrolled" /\ HasMachine(i) /\ devices \in [DeviceCodes -> Devices]
  BY SignInIs DEF EnrollmentInductive, EnrollmentTypes, GrantDevice, Grantable, SignInSound
<1>2. k \in SignIns /\ k.pc = "done" /\ attempt' = [attempt EXCEPT ![i] = k]
  BY FailedIs DEF GrantDevice
<1>3. /\ UNCHANGED <<today, site, users, sessions, machines, audits, admitted>>
      /\ devices' = [devices EXCEPT ![attempt[i].of].grant =
                       IF devices[attempt[i].of].phase = "started" THEN i ELSE @]
  BY DEF GrantDevice
<1> HIDE DEF k
<1>4. UsersSound' /\ UsersKept /\ MachinesKept /\ AdmittedSound'
  BY <1>3, UsersSame, AdmittedSame, MachinesStay
<1>5. attempt'[i] = k
  BY <1>1, <1>2
<1>6. SignInSound(i)'
  BY <1>2, <1>5 DEF SignInSound
<1>7. /\ attempt' \in [Attempts -> SignIns]
      /\ \A j \in Attempts : SignInSound(j)' /\ (Settled(j) => Settled(j)')
  BY <1>2, <1>3, <1>4, <1>6, SignInsMove DEF Config
<1>8. MachinesSound' /\ SessionsSound'
  BY <1>3, <1>4, <1>7, MachinesSame, SessionsSame
<1>9. ASSUME NEW c \in DeviceCodes
      PROVE  /\ devices'[c] \in Devices
             /\ devices'[c].phase = devices[c].phase /\ devices'[c].given = devices[c].given
             /\ devices'[c].grant \in {devices[c].grant, i}
  <2> DEFINE g == IF devices[c].phase = "started" THEN i ELSE devices[c].grant
             x == [devices[c] EXCEPT !.grant = g]
  <2>1. devices'[c] = devices[c] \/ devices'[c] = x
    BY <1>1, <1>3
  <2>2. devices[c] \in Devices /\ g \in {devices[c].grant, i}
    BY <1>1
  <2>3. x \in Devices /\ x.phase = devices[c].phase /\ x.given = devices[c].given /\ x.grant = g
    BY <2>2 DEF Devices
  <2> HIDE DEF x, g
  <2> QED
    BY <2>1, <2>2, <2>3
<1>10. devices' \in [DeviceCodes -> Devices]
  <2>1. DOMAIN devices' = DeviceCodes /\ devices' = [c \in DeviceCodes |-> devices'[c]]
    BY <1>1, <1>3
  <2> QED
    BY <1>9, <2>1
<1>11. ASSUME NEW c \in DeviceCodes PROVE DeviceSound(c)'
  <2>1. DeviceSound(c)
    BY DEF EnrollmentInductive
  <2>2. HasMachine(i)' /\ \A x : HasMachine(x) => HasMachine(x)'
    BY <1>1, <1>3 DEF HasMachine
  <2>3. devices'[c].grant # 0 => \E m \in machines' : m.token = devices'[c].grant
    BY <1>1, <1>3, <1>9, <2>1 DEF DeviceSound, HasMachine
  <2>4. \A j \in DOMAIN devices'[c].given : \E m \in machines' : m.token = devices'[c].given[j]
    BY <1>3, <1>9, <2>1 DEF DeviceSound, HasMachine
  <2>5. /\ devices'[c].phase # "gone" => devices'[c].given = <<>>
        /\ Len(devices'[c].given) <= 1
    BY <1>9, <2>1 DEF DeviceSound
  <2> QED
    BY <2>3, <2>4, <2>5 DEF DeviceSound, HasMachine
<1>12. ASSUME NEW x \in DOMAIN audits PROVE AuditSound(x)'
  BY <1>3, <1>4, AuditStays
<1>13. EnrollmentTypes'
  BY <1>3, <1>7, <1>10 DEF EnrollmentInductive, EnrollmentTypes
<1> QED
  BY <1>3, <1>4, <1>7, <1>8, <1>11, <1>12, <1>13 DEF EnrollmentInductive

---------------------------------------------------------------------------
(* Revocations. *)

\* An audit moves, and machines at most lose their access.
LEMMA AuditMoves ==
  ASSUME EnrollmentInductive, NEW k \in DOMAIN audits, NEW a \in Audits,
         audits' = [audits EXCEPT ![k] = a], AuditSound(k)',
         machines' \subseteq Machines, MachinesSound', MachinesKept,
         UNCHANGED <<today, site, users, devices, attempt, sessions, admitted>>
  PROVE  EnrollmentInductive'
<1>1. UsersSound' /\ UsersKept /\ AdmittedSound'
  BY UsersSame, AdmittedSame
<1>2. /\ DOMAIN audits' = DOMAIN audits /\ audits' \in [DOMAIN audits' -> Audits]
      /\ \A x \in DOMAIN audits \ {k} : audits'[x] = audits[x]
  BY DEF EnrollmentInductive, EnrollmentTypes
<1>3. SessionsSound'
  BY <1>1, SessionsSame
<1>4. ASSUME NEW c \in DeviceCodes PROVE DeviceSound(c)'
  BY DeviceStays
<1>5. ASSUME NEW x \in DOMAIN audits' PROVE AuditSound(x)'
  BY <1>2, AuditStays
<1>6. ASSUME NEW i \in Attempts PROVE SignInSound(i)'
  BY <1>1, SignInStays DEF Config
<1>7. EnrollmentTypes'
  BY <1>2 DEF EnrollmentInductive, EnrollmentTypes
<1> QED
  BY <1>1, <1>3, <1>4, <1>5, <1>6, <1>7 DEF EnrollmentInductive

\* Revoked machines keep their token and user.
LEMMA RevokingKeeps ==
  ASSUME EnrollmentInductive, NEW mine \in SUBSET machines, UNCHANGED <<users, attempt>>,
         machines' = (machines \ mine) \cup {[m EXCEPT !.revoked = TRUE] : m \in mine}
  PROVE  /\ machines' \subseteq Machines /\ MachinesSound' /\ MachinesKept
         /\ \A m \in mine : \E n \in machines' :
              n.token = m.token /\ n.user = m.user /\ n.revoked
<1>1. machines \subseteq Machines /\ MachinesSound
  BY DEF EnrollmentInductive, EnrollmentTypes
<1>2. ASSUME NEW m \in machines
      PROVE  /\ [m EXCEPT !.revoked = TRUE] \in Machines
             /\ [m EXCEPT !.revoked = TRUE].token = m.token
             /\ [m EXCEPT !.revoked = TRUE].user = m.user
             /\ [m EXCEPT !.revoked = TRUE].revoked
  <2>1. m \in Machines
    BY <1>1
  <2> QED
    BY <2>1 DEF Machines
<1>3. \A n \in machines' :
        \/ n \in machines \ mine
        \/ \E m \in mine : n = [m EXCEPT !.revoked = TRUE] /\ n.token = m.token /\ n.user = m.user
  BY <1>2
<1>4. machines' \subseteq Machines
  BY <1>1, <1>2
<1>5. ASSUME NEW m \in mine
      PROVE  \E n \in machines' : n.token = m.token /\ n.user = m.user /\ n.revoked
  <2>1. PICK n : n = [m EXCEPT !.revoked = TRUE]
    OBVIOUS
  <2>2. n \in machines' /\ n.token = m.token /\ n.user = m.user /\ n.revoked
    BY <1>2, <2>1
  <2> QED
    BY <2>2
<1>6. MachinesKept
  BY <1>5 DEF MachinesKept
<1>7. ASSUME NEW n \in machines', NEW x \in machines', n.token = x.token, n.user = x.user
      PROVE  n = x
  <2>1. PICK m \in machines :
          /\ n.token = m.token /\ n.user = m.user
          /\ IF m \in mine THEN n = [m EXCEPT !.revoked = TRUE] ELSE n = m
    BY <1>3, <1>7
  <2>2. PICK z \in machines :
          /\ x.token = z.token /\ x.user = z.user
          /\ IF z \in mine THEN x = [z EXCEPT !.revoked = TRUE] ELSE x = z
    BY <1>3, <1>7
  <2>3. m = z
    BY <1>1, <1>7, <2>1, <2>2 DEF MachinesSound
  <2>4. PICK y : y = IF m \in mine THEN [m EXCEPT !.revoked = TRUE] ELSE m
    OBVIOUS
  <2>5. n = y
    BY <2>1, <2>4
  <2>6. x = y
    BY <2>2, <2>3, <2>4
  <2> QED
    BY <2>5, <2>6
<1>8. ASSUME NEW n \in machines' PROVE Known(n.user)' /\ (n.token \in Attempts => Settled(n.token)')
  <2>1. PICK m \in machines : n.token = m.token /\ n.user = m.user
    BY <1>3, <1>8
  <2>2. Known(m.user) /\ (m.token \in Attempts => Settled(m.token))
    BY <1>1 DEF MachinesSound
  <2> QED
    BY <2>1, <2>2 DEF Known, Settled
<1> QED
  BY <1>4, <1>5, <1>6, <1>7, <1>8 DEF MachinesSound

\* Machines stay sound while nothing of theirs changes.
LEMMA MachinesHere ==
  ASSUME EnrollmentInductive, UNCHANGED <<users, attempt, machines>>
  PROVE  machines' \subseteq Machines /\ MachinesSound' /\ MachinesKept
BY UsersSame, MachinesSame, MachinesStay DEF EnrollmentInductive, EnrollmentTypes, Settled, UsersKept, Known

\* Audits are records of these fields.
LEMMA AuditIs ==
  ASSUME EnrollmentInductive, NEW k \in DOMAIN audits
  PROVE  audits[k] \in Audits /\ audits \in [DOMAIN audits -> Audits] /\ AuditSound(k)
BY DEF EnrollmentInductive, EnrollmentTypes

\* An audit begins without an outcome, or ends refused.
LEMMA RevokeBeginKeeps ==
  ASSUME EnrollmentInductive, NEW s \in sessions, NEW k \in DOMAIN audits, RevokeBegin(k, s)
  PROVE  EnrollmentInductive'
<1>1. PICK m \in machines :
        \/ audits' = [audits EXCEPT ![k] =
             [audits[k] EXCEPT !.pc = "checked", !.token = m.token, !.user = s.user]]
        \/ audits' = [audits EXCEPT ![k] = [audits[k] EXCEPT !.pc = "done", !.row = "refused"]]
  BY AuditIs DEF RevokeBegin, Closed
<1>2. /\ s.user \in Identities /\ m.token \in Attempts \cup {0} /\ audits[k] \in Audits
      /\ audits \in [DOMAIN audits -> Audits] /\ AuditSound(k) /\ audits[k].pc = "none"
  BY AuditIs DEF EnrollmentInductive, EnrollmentTypes, Sessions, Machines, RevokeBegin
<1> DEFINE a == [audits[k] EXCEPT !.pc = "checked", !.token = m.token, !.user = s.user]
           r == [audits[k] EXCEPT !.pc = "done", !.row = "refused"]
<1>3. /\ a \in Audits /\ a.pc = "checked" /\ a.changed = audits[k].changed
      /\ a.row = audits[k].row /\ a.told = audits[k].told
  BY <1>2 DEF Audits, Outcomes
<1>4. /\ r \in Audits /\ r.pc = "done" /\ r.changed = audits[k].changed
      /\ r.row = "refused" /\ r.told = audits[k].told
  BY <1>2 DEF Audits, Outcomes
<1> HIDE DEF a, r
<1>5. PICK x \in {a, r} : audits' = [audits EXCEPT ![k] = x]
  BY <1>1 DEF a, r
<1>6. audits'[k] = x
  BY <1>2, <1>5
<1>7. AuditSound(k)'
  BY <1>2, <1>3, <1>4, <1>5, <1>6 DEF AuditSound
<1> QED
  BY <1>3, <1>4, <1>5, <1>7, MachinesHere, AuditMoves DEF RevokeBegin

\* The row says what the transaction did to the machine of its user.
LEMMA RevokeCommitKeeps ==
  ASSUME EnrollmentInductive, NEW k \in DOMAIN audits, RevokeCommit(k)
  PROVE  EnrollmentInductive'
<1> DEFINE mine == {m \in machines : m.token = audits[k].token /\ m.user = audits[k].user}
<1>1. PICK changed \in BOOLEAN : changed = (\E m \in mine : ~m.revoked)
  BY Zenon
<1>2. PICK row \in Outcomes :
        row = IF mine = {} THEN "notfound" ELSE IF changed THEN "ok" ELSE "already"
  BY DEF Outcomes
<1>3. PICK answered \in BOOLEAN :
        audits' = [audits EXCEPT ![k].changed = changed, ![k].row = row,
                     ![k].pc = IF answered THEN "done" ELSE "unsure",
                     ![k].told = IF answered THEN row ELSE "none"]
  BY <1>1, <1>2 DEF RevokeCommit
<1>4. /\ audits[k] \in Audits /\ audits \in [DOMAIN audits -> Audits] /\ AuditSound(k)
      /\ audits[k].pc = "checked"
  BY AuditIs DEF RevokeCommit
<1>5. PICK pc \in {"done", "unsure"} : pc = IF answered THEN "done" ELSE "unsure"
  OBVIOUS
<1>6. PICK told \in Outcomes : told = IF answered THEN row ELSE "none"
  BY DEF Outcomes
<1> DEFINE a == [audits[k] EXCEPT !.changed = changed, !.row = row, !.pc = pc, !.told = told]
<1>7. /\ a \in Audits /\ a.changed = changed /\ a.row = row /\ a.pc = pc /\ a.told = told
      /\ a.token = audits[k].token /\ a.user = audits[k].user
  BY <1>4 DEF Audits
<1>8. audits' = [audits EXCEPT ![k] = a] /\ audits'[k] = a
  BY <1>3, <1>4, <1>5, <1>6
<1> HIDE DEF a
<1>9. /\ machines' = (machines \ mine) \cup {[m EXCEPT !.revoked = TRUE] : m \in mine}
      /\ mine \in SUBSET machines
      /\ \A m \in mine : m.token = audits[k].token /\ m.user = audits[k].user
      /\ UNCHANGED <<today, site, users, devices, attempt, sessions, admitted>>
  BY DEF RevokeCommit
<1> HIDE DEF mine
<1>10. /\ machines' \subseteq Machines /\ MachinesSound' /\ MachinesKept
       /\ \A m \in mine : \E n \in machines' : n.token = m.token /\ n.user = m.user /\ n.revoked
  BY <1>9, RevokingKeeps
<1>11. ASSUME row = "ok"
       PROVE  \E n \in machines' : n.token = a.token /\ n.user = a.user /\ n.revoked
  <2>1. PICK m \in mine : TRUE
    BY <1>2, <1>11
  <2>2. PICK n \in machines' : n.token = m.token /\ n.user = m.user /\ n.revoked
    BY <1>10, <2>1
  <2>3. m.token = audits[k].token /\ m.user = audits[k].user
    BY <1>9, <2>1
  <2> QED
    BY <1>7, <2>2, <2>3
<1>12. (changed <=> row = "ok") /\ (mine = {} => ~changed)
  BY <1>1, <1>2
<1>13. AuditSound(k)'
  BY <1>5, <1>6, <1>7, <1>8, <1>11, <1>12 DEF AuditSound
<1> QED
  BY <1>7, <1>8, <1>9, <1>10, <1>13, AuditMoves

\* A failure is recorded without replacing an outcome that committed.
LEMMA RevokeEndsKeep ==
  ASSUME EnrollmentInductive, NEW k \in DOMAIN audits, RevokeFails(k) \/ RevokeAudit(k)
  PROVE  EnrollmentInductive'
<1>1. /\ audits[k] \in Audits /\ audits \in [DOMAIN audits -> Audits] /\ AuditSound(k)
      /\ UNCHANGED <<today, site, users, devices, attempt, sessions, machines, admitted>>
  BY AuditIs DEF RevokeFails, RevokeAudit
<1>2. machines' \subseteq Machines /\ MachinesSound' /\ MachinesKept
  BY <1>1, MachinesHere
<1>3. CASE RevokeFails(k)
  <2> DEFINE a == [audits[k] EXCEPT !.pc = "unsure"]
  <2>1. /\ a \in Audits /\ a.pc = "unsure" /\ a.changed = audits[k].changed
        /\ a.row = audits[k].row /\ a.told = audits[k].told
    BY <1>1 DEF Audits
  <2>2. audits' = [audits EXCEPT ![k] = a] /\ audits'[k] = a /\ audits[k].pc = "checked"
    BY <1>1, <1>3 DEF RevokeFails
  <2> HIDE DEF a
  <2>3. AuditSound(k)'
    BY <1>1, <2>1, <2>2 DEF AuditSound
  <2> QED
    BY <1>1, <1>2, <2>1, <2>2, <2>3, AuditMoves
<1>4. CASE RevokeAudit(k)
  <2>1. PICK row \in Outcomes : row = RowKept(audits[k].row)
    BY <1>1 DEF RowKept, Audits, Outcomes
  <2> DEFINE a == [audits[k] EXCEPT !.pc = "done", !.row = row]
  <2>2. /\ a \in Audits /\ a.pc = "done" /\ a.changed = audits[k].changed
        /\ a.row = row /\ a.told = audits[k].told
        /\ a.token = audits[k].token /\ a.user = audits[k].user
    BY <1>1 DEF Audits
  <2>3. audits' = [audits EXCEPT ![k] = a] /\ audits'[k] = a /\ audits[k].pc = "unsure"
    BY <1>1, <1>4, <2>1 DEF RevokeAudit, Closed
  <2> HIDE DEF a
  <2>4. AuditSound(k)'
    BY <1>1, <2>1, <2>2, <2>3 DEF AuditSound, RowKept
  <2> QED
    BY <1>1, <1>2, <2>2, <2>3, <2>4, AuditMoves
<1> QED
  BY <1>3, <1>4

---------------------------------------------------------------------------
(* What happens beside the sign-ins. *)

\* Machines, sessions and the clock move.
LEMMA AroundKeeps ==
  ASSUME EnrollmentInductive,
         \/ \E s \in sessions : SignOut(s)
         \/ \E m \in machines : RevokeByMachine(m)
         \/ Pass
  PROVE  EnrollmentInductive'
<1>1. UNCHANGED <<site, users, devices, attempt, audits, admitted>> /\ sessions' \subseteq sessions
  BY DEF SignOut, RevokeByMachine, Pass
<1>2. UsersSound' /\ UsersKept /\ AdmittedSound'
  BY <1>1, UsersSame, AdmittedSame
<1>3. machines' \subseteq Machines /\ MachinesSound' /\ MachinesKept
  <2>1. CASE machines' = machines
    BY <1>1, <2>1, MachinesHere
  <2>2. ASSUME NEW m \in machines, RevokeByMachine(m)
        PROVE  machines' \subseteq Machines /\ MachinesSound' /\ MachinesKept
    <3>1. PICK mine \in SUBSET machines : mine = {m}
      OBVIOUS
    <3>2. machines' = (machines \ mine) \cup {[x EXCEPT !.revoked = TRUE] : x \in mine}
      BY <2>2, <3>1 DEF RevokeByMachine
    <3> QED
      BY <1>1, <3>2, RevokingKeeps
  <2> QED
    BY <2>1, <2>2 DEF SignOut, Pass
<1>4. today' \in Int
  BY DEF SignOut, RevokeByMachine, Pass, EnrollmentInductive, EnrollmentTypes
<1>5. SessionsSound' /\ sessions' \subseteq Sessions
  BY <1>1, <1>2, SessionsSame
<1>6. ASSUME NEW c \in DeviceCodes PROVE DeviceSound(c)'
  BY <1>1, <1>3, DeviceStays
<1>7. ASSUME NEW x \in DOMAIN audits PROVE AuditSound(x)'
  BY <1>1, <1>3, AuditStays
<1>8. ASSUME NEW i \in Attempts PROVE SignInSound(i)'
  BY <1>1, <1>2, <1>3, SignInStays DEF Config
<1>9. EnrollmentTypes'
  BY <1>1, <1>3, <1>4, <1>5 DEF EnrollmentInductive, EnrollmentTypes
<1> QED
  BY <1>1, <1>2, <1>3, <1>5, <1>6, <1>7, <1>8, <1>9 DEF EnrollmentInductive

\* A user that is enabled or disabled stays known, with its email and its link.
LEMMA SetUserKeeps ==
  ASSUME Deployed, EnrollmentInductive, NEW u \in Identities, SetUser(u)
  PROVE  EnrollmentInductive'
<1>1. PICK on \in BOOLEAN : on = ~users[u].enabled
  OBVIOUS
<1> DEFINE k == [users[u] EXCEPT !.enabled = on]
<1>2. /\ users \in [Identities -> UserRows] /\ UsersSound /\ EnrollmentTypes
      /\ users[u] \in UserRows /\ EmailOf[u] # Nobody /\ users[u].email = EmailOf[u]
  BY KnownIs DEF EnrollmentInductive, EnrollmentTypes, SetUser
<1>3. /\ k \in UserRows /\ k.email = users[u].email /\ k.linked = users[u].linked
      /\ k # NoUser
  BY <1>2 DEF UserRows, NoUser
<1>4. users' = [users EXCEPT ![u] = k] /\ site' = [site EXCEPT !.changes = @ - 1]
      /\ UNCHANGED <<today, devices, attempt, sessions, machines, audits, admitted>>
  BY <1>1, <1>2 DEF SetUser
<1> HIDE DEF k
<1>5. /\ users' \in [Identities -> UserRows]
      /\ \A x \in Identities :
           /\ users'[x].email = users[x].email /\ users'[x].linked = users[x].linked
           /\ Known(x)' <=> Known(x)
  <2>1. /\ users' \in [Identities -> UserRows] /\ users'[u] = k
        /\ \A x \in Identities \ {u} : users'[x] = users[x]
    BY <1>2, <1>3, <1>4
  <2> QED
    BY <1>3, <2>1 DEF Known, SetUser
<1>6. /\ site' \in Sites /\ site'.company = site.company /\ site'.sites = site.sites
      /\ Config' = Config
  <2>1. site \in Sites /\ site.changes - 1 \in Int
    BY <1>2 DEF EnrollmentTypes, Site, Sites
  <2>2. site' \in Sites /\ site'.company = site.company /\ site'.sites = site.sites
    BY <1>4, <2>1 DEF Sites
  <2> QED
    BY <2>2 DEF Config
<1>7. Site(site)'
  BY <1>2, <1>6 DEF EnrollmentTypes, Site
<1>8. UsersSound'
  <2>1. site.company \subseteq Identities
    BY <1>2 DEF EnrollmentTypes, Site, Sites
  <2> QED
    BY <1>2, <1>5, <1>6, <2>1 DEF UsersSound, NoCompetingUser
<1>9. UsersKept /\ MachinesKept
  BY <1>4, <1>5 DEF UsersKept, MachinesKept
<1>10. AdmittedSound'
  <2>1. \A a \in admitted : EntrySound(a) /\ a.who \in Identities /\ a.user \in Identities
    BY DEF EnrollmentInductive, EnrollmentTypes, AdmittedSound, Admissions
  <2> QED
    BY <1>4, <1>5, <1>6, <2>1 DEF AdmittedSound, EntrySound
<1>11. MachinesSound' /\ SessionsSound'
  BY <1>4, <1>9, MachinesSame, SessionsSame DEF Settled
<1>12. ASSUME NEW c \in DeviceCodes PROVE DeviceSound(c)'
  BY <1>4, <1>9, DeviceStays
<1>13. ASSUME NEW x \in DOMAIN audits PROVE AuditSound(x)'
  BY <1>4, <1>9, AuditStays
<1>14. ASSUME NEW i \in Attempts PROVE SignInSound(i)'
  BY <1>4, <1>6, <1>9, SignInStays
<1>15. EnrollmentTypes'
  BY <1>4, <1>5, <1>7 DEF EnrollmentInductive, EnrollmentTypes
<1> QED
  BY <1>4, <1>8, <1>10, <1>11, <1>12, <1>13, <1>14, <1>15 DEF EnrollmentInductive

\* The configurations that are left.
LEMMA TailIs ==
  ASSUME NEW S, NEW s \in Seq(S), Len(s) > 1 PROVE Tail(s) \in Seq(S) /\ Tail(s) # <<>>
<1>1. s # <<>>
  OBVIOUS
<1>2. Tail(s) \in Seq(S) /\ Len(Tail(s)) = Len(s) - 1 /\ Len(s) \in Nat
  BY <1>1
<1>3. Len(Tail(s)) # 0 /\ Len(<<>>) = 0
  BY <1>2
<1>4. Tail(s) # <<>>
  BY <1>3, Zenon
<1> QED
  BY <1>2, <1>4

\* A restart ends every sign-in that has got an identity, and takes back what was granted.
LEMMA RestartKeeps ==
  ASSUME EnrollmentInductive, Restart PROVE EnrollmentInductive'
<1>1. /\ site' = [site EXCEPT !.sites = Tail(@)] /\ Len(site.sites) > 1
      /\ sessions' \subseteq sessions /\ UNCHANGED <<today, users, machines, admitted>>
  BY DEF Restart
<1>2. Site(site) /\ EnrollmentTypes
  BY DEF EnrollmentInductive, EnrollmentTypes
<1>3. site'.company = site.company /\ Site(site)'
  <2>1. /\ site.sites \in Seq(Configs) /\ site.sites \in Seq(OneIssuer(site.company))
        /\ site \in Sites
    BY <1>2 DEF Site, Sites
  <2>2. /\ Tail(site.sites) \in Seq(Configs) /\ Tail(site.sites) \in Seq(OneIssuer(site.company))
        /\ Tail(site.sites) # <<>>
    BY <1>1, <2>1, TailIs
  <2>3. site' \in Sites /\ site'.company = site.company /\ site'.sites = Tail(site.sites)
    BY <1>1, <2>1, <2>2 DEF Sites
  <2> QED
    BY <2>2, <2>3 DEF Site
<1>4. UsersSound' /\ UsersKept /\ AdmittedSound' /\ MachinesKept
  BY <1>1, <1>3, UsersSame, AdmittedSame, MachinesStay
<1>5. ASSUME NEW i \in Attempts
      PROVE  /\ attempt'[i] \in SignIns
             /\ \/ attempt'[i].pc \in {"none", "login", "failed"}
                \/ attempt'[i].pc = "done" /\ attempt[i].pc = "done"
             /\ Settled(i) => Settled(i)'
  <2>1. attempt[i] \in SignIns
    BY <1>2, SignInIs
  <2>2. \/ attempt[i].pc \in {"none", "done", "login"} /\ attempt'[i] = attempt[i]
        \/ attempt[i].pc \notin {"none", "done"} /\ attempt'[i] = [NoAttempt EXCEPT !.pc = "failed"]
    BY DEF Restart
  <2> QED
    BY <2>1, <2>2, FailedIs DEF Settled
<1>6. attempt' \in [Attempts -> SignIns]
  <2>1. attempt' = [i \in Attempts |-> attempt'[i]]
    BY DEF Restart
  <2> QED
    BY <1>5, <2>1
<1>7. ASSUME NEW i \in Attempts PROVE SignInSound(i)'
  BY <1>5 DEF SignInSound
<1>8. MachinesSound' /\ SessionsSound' /\ sessions' \subseteq Sessions
  BY <1>1, <1>4, <1>5, MachinesSame, SessionsSame
<1>9. ASSUME NEW c \in DeviceCodes PROVE devices'[c] \in Devices /\ DeviceSound(c)'
  <2>1. devices[c] \in Devices /\ DeviceSound(c)
    BY <1>2 DEF EnrollmentInductive, EnrollmentTypes
  <2>2. CASE devices'[c] = devices[c]
    BY <1>4, <2>1, <2>2, DeviceStays
  <2>3. CASE devices'[c] = [devices[c] EXCEPT !.phase = "gone", !.grant = 0]
    <3>1. /\ devices'[c] \in Devices /\ devices'[c].phase = "gone" /\ devices'[c].grant = 0
          /\ devices'[c].given = devices[c].given
      BY <2>1, <2>3 DEF Devices
    <3> QED
      BY <1>1, <2>1, <3>1 DEF DeviceSound, HasMachine
  <2> QED
    BY <2>2, <2>3 DEF Restart
<1>10. devices' \in [DeviceCodes -> Devices]
  <2>1. devices' = [c \in DeviceCodes |-> devices'[c]]
    BY DEF Restart
  <2> QED
    BY <1>9, <2>1
<1>11. DOMAIN audits' = DOMAIN audits /\ audits' = [k \in DOMAIN audits |-> audits'[k]]
  BY DEF Restart
<1>12. ASSUME NEW k \in DOMAIN audits PROVE audits'[k] \in Audits /\ AuditSound(k)'
  <2>1. audits[k] \in Audits /\ AuditSound(k)
    BY AuditIs
  <2>2. CASE audits'[k] = NoAudit
    BY <2>2 DEF NoAudit, Audits, Outcomes, AuditSound
  <2>3. CASE audits'[k] = [audits[k] EXCEPT !.pc = "done"]
    <3>1. /\ audits'[k] \in Audits /\ audits'[k].pc = "done"
          /\ audits'[k].changed = audits[k].changed /\ audits'[k].row = audits[k].row
          /\ audits'[k].told = audits[k].told /\ audits'[k].token = audits[k].token
          /\ audits'[k].user = audits[k].user
      BY <2>1, <2>3 DEF Audits
    <3> QED
      BY <1>1, <2>1, <3>1 DEF AuditSound
  <2> QED
    BY <2>2, <2>3 DEF Restart
<1>13. audits' \in [DOMAIN audits' -> Audits]
  BY <1>11, <1>12
<1>14. EnrollmentTypes'
  BY <1>1, <1>2, <1>3, <1>6, <1>8, <1>10, <1>13 DEF EnrollmentTypes
<1> QED
  BY <1>4, <1>7, <1>8, <1>9, <1>11, <1>12, <1>14 DEF EnrollmentInductive

---------------------------------------------------------------------------
\* It holds when the service starts, with the users that are stored.
LEMMA InitEnrollment == Deployed /\ EnrollmentInit => EnrollmentInductive
<1> SUFFICES ASSUME Deployed, EnrollmentInit PROVE EnrollmentInductive
  OBVIOUS
<1>1. /\ today = 0 /\ admitted = {} /\ sessions = {} /\ Site(site)
      /\ \A u, v \in site.stored \cap site.company : u # v => EmailOf[u] # EmailOf[v]
      /\ site.stored \subseteq Identities /\ site.company \subseteq Identities
  BY DEF EnrollmentInit, Deployed, Site, Sites
<1>2. ASSUME NEW u \in Identities
      PROVE  /\ EmailOf[u] # Nobody /\ users[u] \in UserRows /\ users[u].linked = Nobody
             /\ Known(u) <=> u \in site.stored
             /\ Known(u) => users[u].email = EmailOf[u]
  <2>1. EmailOf[u] \in Emails /\ EmailOf[u] # Nobody
    BY DEF Emails, Deployed
  <2>2. NewUser(u) \in UserRows /\ NoUser \in UserRows /\ NewUser(u) # NoUser
        /\ NewUser(u).linked = Nobody /\ NewUser(u).email = EmailOf[u] /\ NoUser.linked = Nobody
    BY <2>1 DEF NewUser, NoUser, UserRows
  <2>3. users[u] = IF u \in site.stored THEN NewUser(u) ELSE NoUser
    BY DEF EnrollmentInit
  <2> QED
    BY <2>1, <2>2, <2>3 DEF Known
<1>3. users \in [Identities -> UserRows]
  <2>1. users = [u \in Identities |-> users[u]]
    BY DEF EnrollmentInit
  <2> QED
    BY <1>2, <2>1
<1>4. UsersSound
  BY <1>1, <1>2 DEF UsersSound, NoCompetingUser, Deployed
<1>5. AdmittedSound /\ SessionsSound
  BY <1>1 DEF AdmittedSound, SessionsSound
<1>6. /\ attempt \in [Attempts -> SignIns]
      /\ \A i \in Attempts : attempt[i].pc = "none"
  BY DEF EnrollmentInit, NoAttempt, SignIns
<1>7. \A i \in Attempts : SignInSound(i)
  BY <1>6 DEF SignInSound
<1>8. machines \subseteq Machines /\ MachinesSound
  <2>1. ASSUME NEW m \in machines
        PROVE  m \in Machines /\ m.token = 0 /\ ~m.revoked /\ m.user \in site.stored
    <3>1. PICK u \in site.stored : m = [token |-> 0, user |-> u, revoked |-> FALSE]
      BY <2>1 DEF EnrollmentInit
    <3> QED
      BY <1>1, <3>1 DEF Machines
  <2>2. \A m, n \in machines : m.user = n.user => m = n
    BY <2>1 DEF Machines
  <2> QED
    BY <1>1, <1>2, <2>1, <2>2 DEF MachinesSound, Deployed
<1>9. /\ devices \in [DeviceCodes -> Devices]
      /\ \A c \in DeviceCodes : DeviceSound(c)
  BY DEF EnrollmentInit, Devices, DeviceSound
<1>10. NoAudit \in Audits
  BY DEF NoAudit, Audits, Outcomes
<1>11. audits \in [DOMAIN audits -> Audits] /\ \A k \in DOMAIN audits : audits[k] = NoAudit
  BY <1>10 DEF EnrollmentInit
<1>12. \A k \in DOMAIN audits : AuditSound(k)
  BY <1>11 DEF AuditSound, NoAudit
<1>13. EnrollmentTypes
  BY <1>1, <1>3, <1>6, <1>8, <1>9, <1>11 DEF EnrollmentTypes
<1> QED
  BY <1>4, <1>5, <1>7, <1>8, <1>9, <1>12, <1>13 DEF EnrollmentInductive

\* Every step keeps it.
LEMMA NextEnrollment ==
  Deployed /\ EnrollmentInductive /\ [EnrollmentNext]_enrollmentVars => EnrollmentInductive'
<1> SUFFICES ASSUME Deployed, EnrollmentInductive, [EnrollmentNext]_enrollmentVars
             PROVE  EnrollmentInductive'
  OBVIOUS
<1>1. CASE UNCHANGED enrollmentVars
  BY <1>1 DEF enrollmentVars, EnrollmentInductive, EnrollmentTypes, UsersSound, NoCompetingUser,
     Known, AdmittedSound, EntrySound, SignInSound, Config, HasMachine, MachinesSound, Settled,
     SessionsSound, DeviceSound, AuditSound
<1>2. ASSUME NEW c \in DeviceCodes, Start(c) \/ Poll(c) PROVE EnrollmentInductive'
  BY <1>2, StartKeeps, PollKeeps
<1>3. ASSUME NEW i \in Attempts,
             \/ Begin(i) \/ ResolveIdentity(i) \/ RecordUser(i) \/ OpenSession(i)
             \/ \E b \in Browsers, who \in Identities : Callback(i, b, who)
             \/ Ask(i) \/ Approve(i) \/ RecordMachine(i) \/ GrantDevice(i) \/ Abandon(i)
      PROVE  EnrollmentInductive'
  BY <1>3, BeginKeeps, IdentityKeeps, RecordUserKeeps, OpenSessionKeeps, CallbackKeeps, AskKeeps,
     ApproveKeeps, RecordMachineKeeps, GrantDeviceKeeps, AbandonKeeps
<1>4. ASSUME NEW k \in DOMAIN audits,
             \/ \E s \in sessions : RevokeBegin(k, s)
             \/ RevokeCommit(k) \/ RevokeFails(k) \/ RevokeAudit(k)
      PROVE  EnrollmentInductive'
  BY <1>4, RevokeBeginKeeps, RevokeCommitKeeps, RevokeEndsKeep
<1>5. ASSUME NEW u \in Identities, SetUser(u) PROVE EnrollmentInductive'
  BY <1>5, SetUserKeeps
<1> QED
  BY <1>1, <1>2, <1>3, <1>4, <1>5, AroundKeeps, RestartKeeps DEF EnrollmentNext

\* The inductive invariant holds in every reachable state.
THEOREM EnrollmentInvariant == ASSUME Deployed PROVE EnrollmentSpec => []EnrollmentInductive
<1>1. EnrollmentInit => EnrollmentInductive
  BY InitEnrollment
<1>2. EnrollmentInductive /\ [EnrollmentNext]_enrollmentVars => EnrollmentInductive'
  BY NextEnrollment
<1> QED
  BY <1>1, <1>2, PTL DEF EnrollmentSpec

\* An identity keeps its user and a user its identity, two identities of the company never
\* become two users of one email, a device code gives one token once, machines and sessions
\* are of known users, and an audit says what the revocation did (decide, grant_device,
\* revoke_machine, dashboard_audit).
THEOREM EnrollmentHolds == ASSUME Deployed PROVE EnrollmentSpec => []EnrollmentIInv
<1>1. EnrollmentInductive => EnrollmentIInv
  <2> SUFFICES ASSUME EnrollmentInductive PROVE EnrollmentIInv
    OBVIOUS
  <2>1. EnrollmentTypeOK
    BY DEF EnrollmentInductive, EnrollmentTypes, EnrollmentTypeOK, UserRows, SignIns, MachinesSound
  <2>2. OneIdentity
    <3>1. ASSUME NEW a \in admitted
          PROVE  EntrySound(a) /\ a.who \in Identities /\ a.user \in Identities
      BY DEF EnrollmentInductive, EnrollmentTypes, AdmittedSound, Admissions
    <3>2. ASSUME NEW a \in admitted, NEW b \in admitted, a.who = b.who PROVE a.user = b.user
      <4>1. a.who # Nobody
        BY <3>1 DEF Deployed
      <4>2. CASE a.user = a.who
        BY <3>1, <3>2, <4>1, <4>2 DEF EntrySound
      <4>3. CASE b.user = b.who
        BY <3>1, <3>2, <4>1, <4>3 DEF EntrySound
      <4>4. CASE a.user # a.who /\ b.user # b.who
        <5>1. users[a.user].linked = a.who /\ users[b.user].linked = a.who
          BY <3>1, <3>2, <4>1, <4>4 DEF EntrySound
        <5> QED
          BY <3>1, <5>1 DEF EnrollmentInductive, UsersSound
      <4> QED
        BY <4>2, <4>3, <4>4
    <3> QED
      BY <3>1, <3>2 DEF OneIdentity, EntrySound
  <2>3. NoCompetingUser /\ UsersKnown
    BY DEF EnrollmentInductive, UsersSound, MachinesSound, SessionsSound, UsersKnown
  <2>4. DeliveredOnce
    BY DEF EnrollmentInductive, DeliveredOnce, DeviceSound, HasMachine
  <2>5. AuditTruthful
    BY DEF EnrollmentInductive, AuditTruthful, AuditSound
  <2> QED
    BY <2>1, <2>2, <2>3, <2>4, <2>5 DEF EnrollmentIInv
<1>2. EnrollmentSpec => []EnrollmentInductive
  BY EnrollmentInvariant
<1> QED
  BY <1>1, <1>2, PTL

---------------------------------------------------------------------------
(* Loans. *)

USE MaxTimeAssumption, MirroredAssumption

\* A grant that was never made is empty, and the audit log follows its phase.
GrantOK(i) ==
  /\ grants[i].phase = "none" => grants[i] = NoGrant
  /\ audit[i]["granted"] = (IF grants[i].phase = "none" THEN 0 ELSE 1)
  /\ audit[i]["ended"] = (IF grants[i].phase = "ended" THEN 1 ELSE 0)

\* What request w may rely on: nobody else creates the id it planned, the grant
\* it read is still of that login, and its token is of the login it compared.
Knows(w) ==
  LET k == work[w]
  IN  /\ k.pc # "idle" => k.id \in Ids
      /\ k.pc = "planned" =>
           /\ grants[k.id].phase = "none" /\ k.grant.phase = "active"
           /\ \A v \in Workers : v # w /\ work[v].pc # "idle" => work[v].id # k.id
      /\ k.pc \notin {"idle", "planned"} => grants[k.id].phase # "none"
      /\ k.pc \in {"resolved", "prepared", "confirmed", "issuing"} =>
           k.grant.login = grants[k.id].login
      /\ k.pc \in {"prepared", "confirmed", "issuing"} => k.login \in Logins
      /\ k.pc \in {"confirmed", "issuing"} => k.login = k.grant.login
      /\ k.pc = "storing" => k.grant.phase = "ended" /\ k.grant.login = grants[k.id].login

\* A copy of a grant that has not ended is the grant, and so is a copy of an end.
CopyOK(m) ==
  /\ m.id \in Mirrored
  /\ m.kind = "granted" =>
       /\ m.grant.phase = "active" /\ grants[m.id].phase # "none"
       /\ grants[m.id].phase = "active" => m.grant = grants[m.id]
  /\ m.kind = "ended" => grants[m.id].phase = "ended" /\ m.grant = grants[m.id]

\* The mirror is behind the store, and never beside it.
FileOK(i) ==
  /\ file[i].phase = "none" => file[i] = NoGrant
  /\ file[i].phase = "active" =>
       /\ grants[i].phase # "none"
       /\ grants[i].phase = "active" => file[i] = grants[i]
  /\ file[i].phase = "ended" => file[i] = grants[i]

\* A copy of this kind is on its way, or the last one failed.
Awaited(i, k) == <<i, k>> \in missed \/ \E m \in mirrors : m.id = i /\ m.kind = k
Arrived(i) ==
  /\ grants[i].phase = "active" => file[i] = grants[i] \/ Awaited(i, "granted")
  /\ grants[i].phase = "ended" => file[i] = grants[i] \/ Awaited(i, "ended")
  /\ \A k \in Kinds : \/ fileAudit[i][k] = audit[i][k]
                      \/ fileAudit[i][k] = 0 /\ audit[i][k] = 1 /\ Awaited(i, k)

Rows == RemovedUnlent /\ \A i \in Ids : GrantOK(i)
Requests == \A w \in Workers : Knows(w)
Copies ==
  /\ \A m \in mirrors : CopyOK(m)
  /\ \A i \in Ids : FileOK(i)
  /\ \A i \in Mirrored : Arrived(i)
Inductive == TypeOK /\ Rows /\ Requests /\ Copies

---------------------------------------------------------------------------
\* No grant and the idle request are a grant and a request.
LEMMA EmptyTyped == NoGrant \in GrantRows /\ NoGrant.phase = "none"
  BY DEF NoGrant, GrantRows

\* Each row is a record of these fields.
LEMMA GrantTyped ==
  ASSUME TypeOK, NEW i \in Ids
  PROVE  grants[i] \in GrantRows /\ grants[i].phase \in {"none", "active", "ended"}
  BY DEF TypeOK, GrantRows

\* The end of a grant is a grant of its login.
LEMMA EndedIs ==
  ASSUME NEW g \in GrantRows, NEW at \in 0..MaxTime,
         NEW reason \in Reasons \cup {None}
  PROVE  /\ Ended(g, at, reason) \in GrantRows
         /\ Ended(g, at, reason).phase = "ended" /\ Ended(g, at, reason).login = g.login
  BY DEF Ended, GrantRows

\* One more event of a kind.
LEMMA CountIs ==
  ASSUME NEW a \in [Ids -> [Kinds -> 0..2]], NEW i \in Ids, NEW k \in Kinds, a[i][k] = 0
  PROVE  /\ Count(a, i, k) \in [Ids -> [Kinds -> 0..2]]
         /\ Count(a, i, k)[i][k] = 1
         /\ \A j \in Ids : j # i => Count(a, i, k)[j] = a[j]
         /\ \A l \in Kinds : l # k => Count(a, i, k)[i][l] = a[i][l]
<1> DEFINE c == Count(a, i, k)
<1>1. c = [a EXCEPT ![i] = [a[i] EXCEPT ![k] = 1]]
  BY DEF Count
<1>2. [a[i] EXCEPT ![k] = 1] \in [Kinds -> 0..2]
  OBVIOUS
<1> QED
  BY <1>1, <1>2

---------------------------------------------------------------------------
\* The first state: nothing is granted and nothing copied.
LEMMA InitHolds == Init => Inductive
<1> SUFFICES ASSUME Init PROVE Inductive
  OBVIOUS
<1>1. /\ \A i \in Ids : grants[i] = NoGrant /\ file[i] = NoGrant
      /\ \A i \in Ids, k \in Kinds : audit[i][k] = 0 /\ fileAudit[i][k] = 0
      /\ \A w \in Workers : work[w] = Idle
  BY DEF Init
<1>2. grants \in [Ids -> GrantRows] /\ file \in [Ids -> GrantRows]
  BY EmptyTyped DEF Init
<1>3. audit \in [Ids -> [Kinds -> 0..2]] /\ fileAudit \in [Ids -> [Kinds -> 0..2]]
  BY DEF Init
<1>4. work \in [Workers ->
       [pc : {"idle", "planned", "resolved", "prepared", "confirmed", "issuing",
              "ending", "storing"},
        id : Ids \cup {None}, grant : GrantRows, login : Logins \cup {None},
        reason : Reasons \cup {None}]]
  BY EmptyTyped DEF Init, Idle
<1>5. /\ now \in 0..MaxTime /\ account \in [active : BOOLEAN, login : Logins]
      /\ past \in SUBSET Logins /\ account.login \in past /\ enabled \in BOOLEAN
      /\ issued = {} /\ mirrors = {} /\ missed = {} /\ account.active
  BY DEF Init
<1>6. TypeOK
  BY <1>2, <1>3, <1>4, <1>5 DEF TypeOK
<1>7. Rows
  BY <1>1, <1>5, EmptyTyped DEF Rows, RemovedUnlent, GrantOK, Kinds
<1>8. Requests
  BY <1>1 DEF Requests, Knows, Idle
<1>9. Copies
  BY <1>1, <1>5, EmptyTyped DEF Copies, FileOK, Arrived
<1> QED
  BY <1>6, <1>7, <1>8, <1>9 DEF Inductive

---------------------------------------------------------------------------
(* Steps that leave the store and the mirror alone: a request moves on with *)
(* what it read, the clock, the account.                                    *)

RowsStay == UNCHANGED <<grants, audit>>
Unmirrored == UNCHANGED <<file, fileAudit, mirrors, missed>>

\* Nothing about copies changes with a request or the clock.
LEMMA CopiesStay == ASSUME Copies, RowsStay, Unmirrored PROVE Copies'
  BY DEF Copies, CopyOK, FileOK, Arrived, Awaited, RowsStay, Unmirrored

\* What the other requests know, when the grants they know of keep their login
\* and w takes no id that another one planned.
Others(w) == \A v \in Workers : v # w => work'[v] = work[v]
Lasts(j) == /\ grants'[j].phase = "none" <=> grants[j].phase = "none"
            /\ grants'[j].login = grants[j].login
LEMMA OthersKnow ==
  ASSUME Requests, NEW w \in Workers, Others(w),
         \A v \in Workers : v # w /\ work[v].pc # "idle" => Lasts(work[v].id),
         work'[w].pc # "idle" =>
           \/ work[w].pc # "idle" /\ work'[w].id = work[w].id
           \/ \A v \in Workers : work[v].pc = "planned" => work[v].id # work'[w].id
  PROVE  \A v \in Workers : v # w => Knows(v)'
<1> SUFFICES ASSUME NEW v \in Workers, v # w PROVE Knows(v)'
  OBVIOUS
<1>1. Knows(v) /\ work'[v] = work[v] /\ (work[v].pc # "idle" => Lasts(work[v].id))
  BY DEF Requests, Others
<1>2. ASSUME work[v].pc = "planned", NEW u \in Workers, u # v, work'[u].pc # "idle"
      PROVE  work'[u].id # work[v].id
  <2>1. CASE u = w
    BY <1>1, <1>2, <2>1 DEF Knows
  <2>2. CASE u # w
    BY <1>1, <1>2, <2>2 DEF Knows, Others
  <2> QED
    BY <2>1, <2>2
<1>3. /\ work[v].pc # "idle" => work[v].id \in Ids
      /\ work[v].pc = "planned" => work[v].grant.phase = "active"
      /\ work[v].pc \in {"prepared", "confirmed", "issuing"} => work[v].login \in Logins
      /\ work[v].pc \in {"confirmed", "issuing"} => work[v].login = work[v].grant.login
      /\ work[v].pc = "storing" => work[v].grant.phase = "ended"
  BY <1>1 DEF Knows
<1>4. work[v].pc = "planned" => grants'[work[v].id].phase = "none"
  BY <1>1 DEF Knows, Lasts
<1>5. work[v].pc \notin {"idle", "planned"} => grants'[work[v].id].phase # "none"
  BY <1>1 DEF Knows, Lasts
<1>6. work[v].pc \in {"resolved", "prepared", "confirmed", "issuing", "storing"} =>
        work[v].grant.login = grants'[work[v].id].login
  BY <1>1 DEF Knows, Lasts
<1> QED
  BY <1>1, <1>2, <1>3, <1>4, <1>5, <1>6 DEF Knows

\* The store stays, request w moves on or ends.
Phases == {"idle", "planned", "resolved", "prepared", "confirmed", "issuing", "ending", "storing"}
Works == [pc : Phases, id : Ids \cup {None}, grant : GrantRows, login : Logins \cup {None},
          reason : Reasons \cup {None}]
LEMMA WorkTyped == TypeOK => /\ work \in [Workers -> Works]
                             /\ Idle \in Works /\ Idle.pc = "idle"
  BY EmptyTyped DEF TypeOK, Works, Phases, Idle

LEMMA MovesKeep ==
  ASSUME Inductive, RowsStay, UNCHANGED <<now, account, past, enabled, issued>>, Unmirrored,
         NEW w \in Workers, NEW k \in Works, work' = [work EXCEPT ![w] = k], Knows(w)',
         k.pc # "idle" =>
           \/ work[w].pc # "idle" /\ k.id = work[w].id
           \/ \A v \in Workers : work[v].pc = "planned" => work[v].id # k.id
  PROVE  Inductive'
<1>1. work \in [Workers -> Works]
  BY WorkTyped DEF Inductive
<1>2. work' \in [Workers -> Works] /\ work'[w] = k /\ Others(w)
  BY <1>1 DEF Others
<1>3. TypeOK'
  BY <1>2 DEF Inductive, TypeOK, RowsStay, Unmirrored, Works, Phases
<1>4. Rows'
  BY DEF Inductive, Rows, RemovedUnlent, Unended, GrantOK, RowsStay
<1>5. \A v \in Workers : v # w => Knows(v)'
  <2>1. \A j : Lasts(j)
    BY DEF Lasts, RowsStay
  <2> QED
    BY <1>2, <2>1, OthersKnow DEF Inductive
<1>6. Copies'
  BY CopiesStay DEF Inductive
<1> QED
  BY <1>3, <1>4, <1>5, <1>6 DEF Inductive, Requests

\* A request that ends knows nothing.
LEMMA IdleKnows ==
  ASSUME TypeOK, NEW w \in Workers, work' = [work EXCEPT ![w] = Idle] PROVE Knows(w)'
<1>1. work'[w] = Idle
  BY WorkTyped
<1> QED
  BY <1>1, WorkTyped DEF Knows

\* A lend: the id it plans is nobody's.
LEMMA PlanKeeps ==
  ASSUME Inductive, NEW w \in Managers, NEW i \in Ids, NEW until \in 1..MaxTime, Plan(w, i, until)
  PROVE  Inductive'
<1>1. PICK l \in past :
        work' = [work EXCEPT ![w] = [Idle EXCEPT !.pc = "planned", !.id = i,
                  !.grant = [NoGrant EXCEPT !.phase = "active", !.login = l, !.ends = until]]]
  BY DEF Plan
<1> DEFINE g == [NoGrant EXCEPT !.phase = "active", !.login = l, !.ends = until]
           k == [Idle EXCEPT !.pc = "planned", !.id = i, !.grant = g]
<1>2. work' = [work EXCEPT ![w] = k]
  BY <1>1
<1>3. l \in Logins /\ w \in Workers
  BY DEF Inductive, TypeOK, Workers
<1>4. g \in GrantRows /\ g.phase = "active"
  <2>1. NoGrant \in GrantRows /\ l \in Logins /\ until \in 0..MaxTime
    BY <1>3, EmptyTyped
  <2> QED
    BY <2>1 DEF GrantRows
<1> HIDE DEF g
<1>5. k \in Works /\ k.pc = "planned" /\ k.id = i /\ k.grant.phase = "active"
  BY <1>4, WorkTyped DEF Inductive, Works, Phases
<1>6. grants[i].phase = "none" /\ \A v \in Workers : work[v].id # i
  BY EmptyTyped DEF Plan
<1>7. /\ RowsStay /\ Unmirrored /\ UNCHANGED <<now, account, past, enabled, issued>>
  BY DEF Plan, RowsStay, Unmirrored, store, mirror
<1> HIDE DEF k
<1>8. work'[w] = k /\ grants' = grants /\ \A v \in Workers : v # w => work'[v] = work[v]
  BY <1>2, <1>3, <1>7, WorkTyped DEF Inductive, RowsStay
<1>9. Knows(w)'
  BY <1>5, <1>6, <1>8 DEF Knows
<1> QED
  BY <1>2, <1>3, <1>5, <1>6, <1>7, <1>9, MovesKeep

\* A request that begins with a grant that was made meets no planned id.
LEMMA BeginsKeep ==
  ASSUME Inductive, NEW w \in Workers, NEW i \in Ids, NEW k \in Works, RowsStay, Unmirrored,
         UNCHANGED <<now, account, past, enabled, issued>>, work' = [work EXCEPT ![w] = k],
         grants[i].phase # "none", k.id = i,
         \/ k.pc = "ending"
         \/ k.pc = "resolved" /\ k.grant = grants[i]
  PROVE  Inductive'
<1>1. work'[w] = k /\ grants' = grants
  BY WorkTyped DEF Inductive, RowsStay
<1>2. Knows(w)'
  BY <1>1 DEF Knows
<1>3. \A v \in Workers : work[v].pc = "planned" => work[v].id # k.id
  BY DEF Inductive, Requests, Knows
<1> QED
  BY <1>2, <1>3, MovesKeep

LEMMA RequestEndKeeps ==
  ASSUME Inductive, NEW w \in Managers, NEW i \in Ids, NEW r \in Reasons, RequestEnd(w, i, r)
  PROVE  Inductive'
<1> DEFINE k == [Idle EXCEPT !.pc = "ending", !.id = i, !.reason = r]
<1>1. work' = [work EXCEPT ![w] = k] /\ w \in Workers
  BY DEF RequestEnd, Workers
<1>2. k \in Works /\ k.pc = "ending" /\ k.id = i
  BY WorkTyped DEF Inductive, Works, Phases
<1>3. /\ RowsStay /\ Unmirrored /\ UNCHANGED <<now, account, past, enabled, issued>>
      /\ grants[i].phase # "none"
  BY DEF RequestEnd, RowsStay, Unmirrored, store, mirror
<1> HIDE DEF k
<1> QED
  BY <1>1, <1>2, <1>3, BeginsKeep

LEMMA ResolveKeeps ==
  ASSUME Inductive, NEW w \in Borrowers, NEW i \in Ids, Resolve(w, i)
  PROVE  Inductive'
<1> DEFINE k == [Idle EXCEPT !.pc = "resolved", !.id = i, !.grant = grants[i]]
<1>1. work' = [work EXCEPT ![w] = k] /\ w \in Workers
  BY DEF Resolve, Workers
<1>2. k \in Works /\ k.pc = "resolved" /\ k.id = i /\ k.grant = grants[i]
  BY GrantTyped, WorkTyped DEF Inductive, Works, Phases
<1>3. /\ RowsStay /\ Unmirrored /\ UNCHANGED <<now, account, past, enabled, issued>>
      /\ grants[i].phase # "none"
  BY DEF Resolve, RowsStay, Unmirrored, store, mirror, Active, Unended
<1> HIDE DEF k
<1> QED
  BY <1>1, <1>2, <1>3, BeginsKeep

\* A borrower's request that goes on knows of its grant what it knew, and of its
\* token what it has compared.
LEMMA GoesOn ==
  ASSUME Inductive, NEW w \in Workers, NEW k \in Works, RowsStay, Unmirrored,
         UNCHANGED <<now, account, past, enabled, issued>>, work' = [work EXCEPT ![w] = k],
         work[w].pc \in {"resolved", "prepared", "confirmed"},
         k.id = work[w].id, k.grant = work[w].grant,
         \/ k.pc = "ending"
         \/ k.pc = "prepared" /\ k.login \in Logins
         \/ k.pc \in {"confirmed", "issuing"} /\ k.login \in Logins /\ k.login = k.grant.login
  PROVE  Inductive'
<1>1. work'[w] = k /\ grants' = grants
  BY WorkTyped DEF Inductive, RowsStay
<1>2. /\ work[w].id \in Ids /\ grants[work[w].id].phase # "none"
      /\ work[w].grant.login = grants[work[w].id].login
  BY DEF Inductive, Requests, Knows
<1>3. Knows(w)'
  BY <1>1, <1>2 DEF Knows
<1> QED
  BY <1>3, MovesKeep

\* A request that ends and writes nothing.
LEMMA EndsKeep ==
  ASSUME Inductive, NEW w \in Workers, Done(w), RowsStay, Unmirrored,
         UNCHANGED <<now, account, past, enabled, issued>>
  PROVE  Inductive'
<1>1. Idle \in Works /\ Idle.pc = "idle" /\ work' = [work EXCEPT ![w] = Idle]
  BY WorkTyped DEF Inductive, Done
<1> QED
  BY <1>1, IdleKnows, MovesKeep DEF Inductive

LEMMA BorrowerKeeps ==
  ASSUME Inductive, NEW w \in Borrowers,
         (\E l \in Logins : Prepare(w, l)) \/ ConfirmSubject(w) \/ ConfirmLender(w)
  PROVE  Inductive'
<1> DEFINE k == work[w]
<1>1. w \in Workers /\ k \in Works
  BY WorkTyped DEF Inductive, Workers
<1>2. /\ RowsStay /\ Unmirrored /\ UNCHANGED <<now, account, past, enabled, issued>>
      /\ k.pc \in {"resolved", "prepared", "confirmed"}
  BY DEF Prepare, ConfirmSubject, ConfirmLender, RowsStay, Unmirrored, store, mirror, At
<1>3. ASSUME NEW l \in Logins, Prepare(w, l) PROVE Inductive'
  <2> DEFINE n == [k EXCEPT !.pc = "prepared", !.login = l]
  <2>1. work' = [work EXCEPT ![w] = n]
    BY <1>1, <1>3, WorkTyped DEF Prepare, Inductive
  <2>2. n \in Works /\ n.pc = "prepared" /\ n.id = k.id /\ n.grant = k.grant /\ n.login = l
    BY <1>1 DEF Works, Phases
  <2> HIDE DEF n
  <2> QED
    BY <1>1, <1>2, <2>1, <2>2, GoesOn
<1>4. ASSUME NEW pc \in {"confirmed", "issuing"}, Go(w, pc), k.pc \in {"prepared", "confirmed"},
             k.login = k.grant.login
      PROVE  Inductive'
  <2> DEFINE n == [k EXCEPT !.pc = pc]
  <2>1. work' = [work EXCEPT ![w] = n]
    BY <1>1, <1>4, WorkTyped DEF Go, Inductive
  <2>2. n \in Works /\ n.pc = pc /\ n.id = k.id /\ n.grant = k.grant /\ n.login = k.login
    BY <1>1 DEF Works, Phases
  <2>3. k.login \in Logins
    BY <1>1, <1>4 DEF Inductive, Requests, Knows
  <2> HIDE DEF n
  <2> QED
    BY <1>1, <1>2, <1>4, <2>1, <2>2, <2>3, GoesOn
<1>5. ASSUME work' = [work EXCEPT ![w].pc = "ending", ![w].reason = "account_removed"]
      PROVE  Inductive'
  <2> DEFINE n == [k EXCEPT !.pc = "ending", !.reason = "account_removed"]
  <2>1. work' = [work EXCEPT ![w] = n]
    BY <1>1, <1>5, WorkTyped DEF Inductive
  <2>2. n \in Works /\ n.pc = "ending" /\ n.id = k.id /\ n.grant = k.grant
    BY <1>1 DEF Works, Phases, Reasons
  <2> HIDE DEF n
  <2> QED
    BY <1>1, <1>2, <2>1, <2>2, GoesOn
<1>6. ASSUME Done(w) PROVE Inductive'
  BY <1>1, <1>2, <1>6, EndsKeep
<1>7. ASSUME ConfirmSubject(w) PROVE Inductive'
  BY <1>4, <1>5, <1>6, <1>7 DEF ConfirmSubject, SameLogin, At
<1>8. ASSUME ConfirmLender(w) PROVE Inductive'
  <2>1. k.pc = "confirmed" /\ k.login = k.grant.login
    BY <1>1, <1>8 DEF ConfirmLender, At, Inductive, Requests, Knows
  <2> QED
    BY <1>4, <1>6, <1>8, <2>1 DEF ConfirmLender
<1> QED
  BY <1>3, <1>7, <1>8

---------------------------------------------------------------------------
(* Steps that write the store, and send copies of what they wrote.         *)

\* Copies of grants, in the types of the bag they join.
Sent(E) == {m \in {Copy(i, grants'[i], "ended") : i \in E} : m.id \in Mirrored}
LEMMA CopyIs ==
  ASSUME NEW i \in Ids, NEW g \in GrantRows, NEW k \in Kinds
  PROVE  /\ Copy(i, g, k) \in [id : Ids, grant : GrantRows, kind : Kinds]
         /\ Copy(i, g, k).id = i /\ Copy(i, g, k).grant = g /\ Copy(i, g, k).kind = k
  BY DEF Copy

\* The grants in E end, each once, with one event; the copies of their ends are
\* sent, and those of ends that were stored before (again) may be.
Ending(E, again) ==
  /\ E \subseteq Ids /\ again \subseteq Ids
  /\ grants' \in [Ids -> GrantRows] /\ audit' \in [Ids -> [Kinds -> 0..2]]
  /\ \A i \in E : /\ grants[i].phase = "active" /\ grants'[i].phase = "ended"
                  /\ grants'[i].login = grants[i].login
                  /\ audit'[i]["granted"] = audit[i]["granted"] /\ audit'[i]["ended"] = 1
  /\ \A i \in Ids \ E : grants'[i] = grants[i] /\ audit'[i] = audit[i]
  /\ \A i \in again : grants[i].phase = "ended"
  /\ mirrors' = mirrors \cup Sent(E \cup again)
  /\ UNCHANGED <<now, account, past, enabled, issued, file, fileAudit, missed>>

LEMMA EndingTyped ==
  ASSUME Inductive, NEW E, NEW again, Ending(E, again), work' \in [Workers -> Works]
  PROVE  TypeOK' /\ Rows' /\ \A j \in Ids : Lasts(j)
<1>1. \A j \in Ids : Lasts(j)
  BY DEF Ending, Lasts
<1>2. Sent(E \cup again) \subseteq [id : Ids, grant : GrantRows, kind : Kinds]
  BY CopyIs DEF Ending, Sent, Kinds
<1>3. mirrors' \in SUBSET [id : Ids, grant : GrantRows, kind : Kinds]
  BY <1>2 DEF Ending, Inductive, TypeOK
<1>4. TypeOK'
  BY <1>3 DEF Ending, Inductive, TypeOK, Works, Phases
<1>5. \A j \in Ids : GrantOK(j)'
  <2> SUFFICES ASSUME NEW j \in Ids PROVE GrantOK(j)'
    OBVIOUS
  <2>1. GrantOK(j)
    BY DEF Inductive, Rows
  <2>2. CASE j \in E
    BY <2>1, <2>2 DEF Ending, GrantOK
  <2>3. CASE j \notin E
    BY <2>1, <2>3 DEF Ending, GrantOK
  <2> QED
    BY <2>2, <2>3
<1>6. RemovedUnlent'
  BY DEF Ending, Inductive, Rows, RemovedUnlent, Unended
<1> QED
  BY <1>1, <1>4, <1>5, <1>6 DEF Rows

\* An end that the mirror follows is sent.
LEMMA SentFor ==
  ASSUME Inductive, NEW E, NEW again, Ending(E, again), NEW i \in Mirrored, i \in E
  PROVE  \E m \in mirrors' : m.id = i /\ m.kind = "ended"
<1>1. i \in Ids /\ grants'[i] \in GrantRows
  BY DEF Ending
<1>2. Copy(i, grants'[i], "ended") \in mirrors'
  BY <1>1, CopyIs DEF Ending, Sent, Kinds
<1> QED
  BY <1>1, <1>2, CopyIs DEF Kinds

\* A copy that is sent holds the end that is stored.
LEMMA SentIs ==
  ASSUME Inductive, NEW E, NEW again, Ending(E, again)
  PROVE  /\ \A m \in Sent(E \cup again) :
              /\ m.id \in Mirrored /\ m.kind = "ended"
              /\ m.grant = grants'[m.id] /\ grants'[m.id].phase = "ended"
         /\ \A m \in mirrors : m \in mirrors'
<1>1. \A i \in E \cup again : i \in Ids /\ grants'[i] \in GrantRows /\ grants'[i].phase = "ended"
  BY DEF Ending
<1>2. ASSUME NEW m \in Sent(E \cup again)
      PROVE  /\ m.id \in Mirrored /\ m.kind = "ended"
             /\ m.grant = grants'[m.id] /\ grants'[m.id].phase = "ended"
  <2>1. PICK i \in E \cup again : m = Copy(i, grants'[i], "ended") /\ m.id \in Mirrored
    BY <1>2 DEF Sent
  <2>2. m.id = i /\ m.kind = "ended" /\ m.grant = grants'[i]
    BY <1>1, <2>1, CopyIs DEF Kinds
  <2> QED
    BY <1>1, <2>1, <2>2
<1> QED
  BY <1>2 DEF Ending

LEMMA EndingCopied ==
  ASSUME Inductive, NEW E, NEW again, Ending(E, again)
  PROVE  Copies'
<1>1. ASSUME NEW m \in mirrors' PROVE CopyOK(m)'
  <2>1. CASE m \in mirrors
    <3>1. CopyOK(m) /\ m.id \in Ids
      BY <2>1 DEF Inductive, Copies, CopyOK
    <3> QED
      BY <3>1 DEF Ending, CopyOK
  <2>2. CASE m \in Sent(E \cup again)
    BY <2>2, SentIs DEF CopyOK
  <2> QED
    BY <2>1, <2>2 DEF Ending
<1>2. ASSUME NEW i \in Ids PROVE FileOK(i)'
  <2>1. FileOK(i)
    BY DEF Inductive, Copies
  <2>2. file' = file
    BY DEF Ending
  <2>3. CASE i \in E
    BY <2>1, <2>2, <2>3 DEF Ending, FileOK
  <2>4. CASE i \notin E
    BY <2>1, <2>2, <2>4 DEF Ending, FileOK
  <2> QED
    BY <2>3, <2>4
<1>3. ASSUME NEW i \in Mirrored PROVE Arrived(i)'
  <2>1. Arrived(i) /\ i \in Ids
    BY DEF Inductive, Copies
  <2>2. file' = file /\ fileAudit' = fileAudit /\ missed' = missed
    BY DEF Ending
  <2>3. \A k : Awaited(i, k) => Awaited(i, k)'
    BY <2>2, SentIs DEF Awaited
  <2>4. CASE i \in E
    <3>1. Awaited(i, "ended")'
      <4>1. \E m \in mirrors' : m.id = i /\ m.kind = "ended"
        BY <2>4, SentFor
      <4> QED
        BY <4>1 DEF Awaited
    <3>2. audit[i]["ended"] = 0
      BY <2>1, <2>4 DEF Ending, Inductive, Rows, GrantOK
    <3>3. grants'[i].phase = "ended"
      BY <2>4 DEF Ending
    <3>4. \/ fileAudit'[i]["granted"] = audit'[i]["granted"]
          \/ fileAudit'[i]["granted"] = 0 /\ audit'[i]["granted"] = 1 /\ Awaited(i, "granted")'
      BY <2>1, <2>2, <2>3, <2>4 DEF Ending, Arrived, Kinds
    <3>5. fileAudit'[i]["ended"] = 0 /\ audit'[i]["ended"] = 1
      BY <2>1, <2>2, <2>4, <3>2 DEF Ending, Arrived, Kinds
    <3> QED
      BY <3>1, <3>3, <3>4, <3>5 DEF Arrived, Kinds
  <2>5. CASE i \notin E
    <3>1. grants'[i] = grants[i] /\ audit'[i] = audit[i]
      BY <2>1, <2>5 DEF Ending
    <3> QED
      BY <2>1, <2>2, <2>3, <3>1 DEF Arrived
  <2> QED
    BY <2>4, <2>5
<1> QED
  BY <1>1, <1>2, <1>3 DEF Copies

\* Grants end and no request moves, or the one that ended them is done.
LEMMA EndingKeeps ==
  ASSUME Inductive, NEW E, NEW again, Ending(E, again),
         work' = work \/ \E w \in Workers : Done(w)
  PROVE  Inductive'
<1>1. work \in [Workers -> Works] /\ Idle \in Works /\ Idle.pc = "idle"
  BY WorkTyped DEF Inductive
<1>2. work' \in [Workers -> Works]
  BY <1>1 DEF Done
<1>3. TypeOK' /\ Rows' /\ \A j \in Ids : Lasts(j)
  BY <1>2, EndingTyped
<1>4. Requests'
  <2>1. CASE work' = work
    <3> SUFFICES ASSUME NEW w \in Workers PROVE Knows(w)'
      BY DEF Requests
    <3>1. Knows(w) /\ work' = work
      BY <2>1 DEF Inductive, Requests
    <3>2. work[w].pc # "idle" => Lasts(work[w].id)
      BY <1>3, <3>1 DEF Knows
    <3> QED
      BY <3>1, <3>2 DEF Knows, Lasts
  <2>2. ASSUME NEW w \in Workers, Done(w) PROVE Requests'
    <3>1. work'[w] = Idle /\ Others(w) /\ work' = [work EXCEPT ![w] = Idle]
      BY <1>1, <2>2 DEF Done, Others
    <3>2. \A v \in Workers : work[v].pc # "idle" => Lasts(work[v].id)
      BY <1>3 DEF Inductive, Requests, Knows
    <3>3. \A v \in Workers : v # w => Knows(v)'
      BY <1>1, <3>1, <3>2, OthersKnow DEF Inductive
    <3> QED
      BY <3>1, <3>3, IdleKnows DEF Inductive, Requests
  <2> QED
    BY <2>1, <2>2
<1> QED
  BY <1>3, <1>4, EndingCopied DEF Inductive

\* Every due grant ends at its own time.
LEMMA ExpireKeeps == ASSUME Inductive, Expire PROVE Inductive'
<1> DEFINE due == {i \in Ids : Due(i)}
           end(i) == Ended(grants[i], grants[i].ends, "expired")
<1>1. /\ grants' = [i \in Ids |-> IF i \in due THEN end(i) ELSE grants[i]]
      /\ audit' = [i \in Ids |-> IF i \in due THEN [audit[i] EXCEPT !["ended"] = @ + 1]
                                 ELSE audit[i]]
      /\ mirrors' = mirrors \cup {m \in {Copy(i, end(i), "ended") : i \in due} : m.id \in Mirrored}
      /\ UNCHANGED <<now, account, past, enabled, issued, file, fileAudit, missed, work>>
  BY DEF Expire, Send
<1>2. \A i \in due : grants[i].phase = "active" /\ grants[i].ends \in 0..MaxTime
  BY DEF Due, Unended, Inductive, TypeOK, GrantRows
<1>3. \A i \in due : end(i) \in GrantRows /\ end(i).phase = "ended" /\ end(i).login = grants[i].login
  <2> SUFFICES ASSUME NEW i \in due
               PROVE  end(i) \in GrantRows /\ end(i).phase = "ended" /\ end(i).login = grants[i].login
    OBVIOUS
  <2>1. grants[i] \in GrantRows /\ grants[i].ends \in 0..MaxTime
    BY <1>2, GrantTyped DEF Inductive
  <2>2. "expired" \in Reasons \cup {None}
    BY DEF Reasons
  <2> HIDE DEF due
  <2> QED
    BY <2>1, <2>2, EndedIs
<1>4. \A i \in due : grants'[i] = end(i)
  BY <1>1
<1>5. \A i \in Ids \ due : grants'[i] = grants[i] /\ audit'[i] = audit[i]
  BY <1>1
<1>6. \A i \in due : /\ audit[i] \in [Kinds -> 0..2] /\ audit[i]["ended"] = 0
                     /\ audit'[i] = [audit[i] EXCEPT !["ended"] = @ + 1]
  BY <1>1, <1>2 DEF Inductive, TypeOK, Rows, GrantOK
<1>7. \A i \in due : /\ audit'[i] \in [Kinds -> 0..2]
                     /\ audit'[i]["granted"] = audit[i]["granted"] /\ audit'[i]["ended"] = 1
  <2> SUFFICES ASSUME NEW i \in due
               PROVE  /\ audit'[i] \in [Kinds -> 0..2]
                      /\ audit'[i]["granted"] = audit[i]["granted"] /\ audit'[i]["ended"] = 1
    OBVIOUS
  <2>1. /\ audit[i] \in [Kinds -> 0..2] /\ audit[i]["ended"] = 0
        /\ audit'[i] = [audit[i] EXCEPT !["ended"] = @ + 1]
    BY <1>6
  <2>2. audit'[i] = [audit[i] EXCEPT !["ended"] = 1]
    BY <2>1
  <2> HIDE DEF due
  <2> QED
    BY <2>1, <2>2 DEF Kinds
<1>8. grants' \in [Ids -> GrantRows]
  BY <1>1, <1>3, GrantTyped DEF Inductive
<1>9. audit' \in [Ids -> [Kinds -> 0..2]]
  <2>1. \A i \in Ids : audit'[i] \in [Kinds -> 0..2]
    BY <1>5, <1>7 DEF Inductive, TypeOK
  <2> QED
    BY <1>1, <2>1
<1>10. mirrors' = mirrors \cup Sent(due \cup {})
  BY <1>1, <1>4 DEF Sent
<1>11. Ending(due, {})
  <2> HIDE DEF due, end
  <2> QED
    BY <1>1, <1>2, <1>3, <1>4, <1>5, <1>7, <1>8, <1>9, <1>10 DEF Ending, due
<1> QED
  BY <1>1, <1>11, EndingKeeps

\* A request that ends a grant reads it first.
LEMMA EndLoadKeeps == ASSUME Inductive, NEW w \in Workers, EndLoad(w) PROVE Inductive'
<1> DEFINE k == work[w]
           i == work[w].id
<1>1. k \in Works /\ work \in [Workers -> Works]
  BY WorkTyped DEF Inductive
<1>2. k.pc = "ending" /\ i \in Ids /\ grants[i].phase # "none" /\ grants[i] \in GrantRows
  BY GrantTyped DEF EndLoad, At, Inductive, Requests, Knows
<1>3. CASE grants[i].phase = "ended"
  <2>1. /\ Send({Copy(i, grants[i], "ended")}) /\ Done(w) /\ RowsStay
        /\ UNCHANGED <<now, account, past, enabled, issued, file, fileAudit, missed>>
    BY <1>3 DEF EndLoad, RowsStay, store
  <2>2. mirrors' = mirrors \cup Sent({} \cup {i})
    BY <2>1 DEF Send, Sent, RowsStay
  <2>3. Ending({}, {i})
    BY <1>2, <1>3, <2>1, <2>2 DEF Ending, RowsStay, Inductive, TypeOK
  <2> QED
    BY <2>1, <2>3, EndingKeeps
<1>4. CASE grants[i].phase # "ended"
  <2> DEFINE g == Ended(grants[i], now, k.reason)
             n == [k EXCEPT !.pc = "storing", !.grant = g]
  <2>1. /\ work' = [work EXCEPT ![w].pc = "storing", ![w].grant = g]
        /\ RowsStay /\ Unmirrored /\ UNCHANGED <<now, account, past, enabled, issued>>
    BY <1>4 DEF EndLoad, RowsStay, Unmirrored, store
  <2>2. work' = [work EXCEPT ![w] = n]
    BY <1>1, <2>1
  <2>3. g \in GrantRows /\ g.phase = "ended" /\ g.login = grants[i].login
    BY <1>2, EndedIs DEF Inductive, TypeOK
  <2> HIDE DEF g
  <2>4. n \in Works /\ n.pc = "storing" /\ n.id = i /\ n.grant = g
    BY <1>1, <2>3 DEF Works, Phases
  <2> HIDE DEF n
  <2>5. work'[w] = n /\ grants' = grants
    BY <1>1, <2>1, <2>2 DEF RowsStay
  <2>6. Knows(w)'
    BY <1>2, <2>3, <2>4, <2>5 DEF Knows
  <2> QED
    BY <1>2, <2>1, <2>2, <2>4, <2>6, MovesKeep
<1> QED
  BY <1>3, <1>4

\* The first end is stored, and the loser sends the winner's.
LEMMA EndStoreKeeps == ASSUME Inductive, NEW w \in Managers, EndStore(w) PROVE Inductive'
<1> DEFINE k == work[w]
           i == work[w].id
<1>1. w \in Workers /\ k \in Works
  BY WorkTyped DEF Inductive, Workers
<1>2. /\ k.pc = "storing" /\ i \in Ids /\ grants[i].phase # "none"
      /\ k.grant.phase = "ended" /\ k.grant.login = grants[i].login /\ k.grant \in GrantRows
  BY <1>1 DEF EndStore, At, Inductive, Requests, Knows, Works
<1>3. /\ Done(w) /\ Send({Copy(i, grants'[i], "ended")})
      /\ UNCHANGED <<now, account, past, enabled, issued, file, fileAudit, missed>>
  BY DEF EndStore
<1>4. mirrors' = mirrors \cup Sent({i})
  BY <1>3 DEF Send, Sent
<1>5. CASE Unended(i)
  <2>1. grants' = [grants EXCEPT ![i] = k.grant] /\ audit' = Count(audit, i, "ended")
    BY <1>5 DEF EndStore, Storable
  <2>2. grants[i].phase = "active" /\ audit[i]["ended"] = 0
    BY <1>2, <1>5 DEF Unended, Inductive, Rows, GrantOK
  <2>3. /\ audit' \in [Ids -> [Kinds -> 0..2]] /\ audit'[i]["ended"] = 1
        /\ audit'[i]["granted"] = audit[i]["granted"]
        /\ \A j \in Ids \ {i} : audit'[j] = audit[j]
    BY <1>2, <2>1, <2>2, CountIs DEF Inductive, TypeOK, Kinds
  <2>4. /\ grants' \in [Ids -> GrantRows] /\ grants'[i] = k.grant
        /\ \A j \in Ids \ {i} : grants'[j] = grants[j]
    BY <1>2, <2>1 DEF Inductive, TypeOK
  <2>5. Ending({i}, {})
    <3>1. {i} \cup {} = {i}
      OBVIOUS
    <3> QED
      BY <1>2, <1>3, <1>4, <2>2, <2>3, <2>4, <3>1 DEF Ending
  <2> QED
    BY <1>1, <1>3, <2>5, EndingKeeps
<1>6. CASE ~Unended(i)
  <2>1. grants' = grants /\ audit' = audit
    BY <1>6 DEF EndStore, Storable
  <2>2. grants[i].phase = "ended"
    BY <1>2, <1>6, GrantTyped DEF Unended, Inductive
  <2>3. Ending({}, {i})
    <3>1. {} \cup {i} = {i}
      OBVIOUS
    <3> QED
      BY <1>2, <1>3, <1>4, <2>1, <2>2, <3>1 DEF Ending, Inductive, TypeOK
  <2> QED
    BY <1>1, <1>3, <2>3, EndingKeeps
<1> QED
  BY <1>5, <1>6

\* A grant is inserted under an id that nobody had, and its copy is sent.
LEMMA CreateKeeps == ASSUME Inductive, NEW w \in Managers, Create(w) PROVE Inductive'
<1> DEFINE k == work[w]
           i == work[w].id
           g == work[w].grant
<1>1. w \in Workers /\ k \in Works /\ work \in [Workers -> Works]
  BY WorkTyped DEF Inductive, Workers
<1>2. /\ k.pc = "planned" /\ i \in Ids /\ grants[i].phase = "none"
      /\ g.phase = "active" /\ g \in GrantRows
      /\ \A v \in Workers : v # w /\ work[v].pc # "idle" => work[v].id # i
  BY <1>1 DEF Create, At, Inductive, Requests, Knows, Works
<1>3. Done(w) /\ UNCHANGED <<now, account, past, enabled, issued, file, fileAudit, missed>>
  BY DEF Create
<1>4. CASE ~Lendable
  <2>1. RowsStay /\ Unmirrored
    BY <1>3, <1>4 DEF Create, RowsStay, Unmirrored
  <2> QED
    BY <1>1, <1>3, <2>1, EndsKeep
<1>5. CASE Lendable
  <2>1. /\ grants' = [grants EXCEPT ![i] = g] /\ audit' = Count(audit, i, "granted")
        /\ Send({Copy(i, g, "granted")}) /\ account.active
    BY <1>5 DEF Create, Lendable
  <2>2. grants[i] = NoGrant /\ audit[i]["granted"] = 0 /\ audit[i]["ended"] = 0
    BY <1>2 DEF Inductive, Rows, GrantOK
  <2>3. /\ audit' \in [Ids -> [Kinds -> 0..2]] /\ audit'[i]["granted"] = 1
        /\ audit'[i]["ended"] = 0 /\ \A j \in Ids : j # i => audit'[j] = audit[j]
    BY <1>2, <2>1, <2>2, CountIs DEF Inductive, TypeOK, Kinds
  <2>4. /\ grants' \in [Ids -> GrantRows] /\ grants'[i] = g
        /\ \A j \in Ids : j # i => grants'[j] = grants[j]
    BY <1>2, <2>1 DEF Inductive, TypeOK
  <2> DEFINE c == Copy(i, g, "granted")
  <2>5. /\ c \in [id : Ids, grant : GrantRows, kind : Kinds]
        /\ c.id = i /\ c.grant = g /\ c.kind = "granted"
    BY <1>2, CopyIs DEF Kinds
  <2>6. mirrors' = mirrors \cup {m \in {c} : m.id \in Mirrored}
    BY <2>1 DEF Send
  <2> HIDE DEF c
  <2>7. /\ \A m \in mirrors' : m \in mirrors \/ (m = c /\ i \in Mirrored)
        /\ \A m \in mirrors : m \in mirrors'
        /\ i \in Mirrored => c \in mirrors'
    BY <2>5, <2>6
  <2>8. work' \in [Workers -> Works] /\ Others(w)
    BY <1>1, <1>3, WorkTyped DEF Done, Others, Inductive
  <2>9. TypeOK'
    <3>1. mirrors' \in SUBSET [id : Ids, grant : GrantRows, kind : Kinds]
      BY <2>5, <2>7 DEF Inductive, TypeOK
    <3> QED
      BY <1>3, <2>3, <2>4, <2>8, <3>1 DEF Inductive, TypeOK, Works, Phases
  <2>10. Rows'
    <3>1. \A j \in Ids : GrantOK(j)'
      <4> SUFFICES ASSUME NEW j \in Ids PROVE GrantOK(j)'
        OBVIOUS
      <4>1. CASE j = i
        BY <1>2, <2>3, <2>4, <4>1 DEF GrantOK
      <4>2. CASE j # i
        BY <2>3, <2>4, <4>2 DEF GrantOK, Inductive, Rows
      <4> QED
        BY <4>1, <4>2
    <3>2. RemovedUnlent'
      BY <1>3, <2>1 DEF RemovedUnlent
    <3> QED
      BY <3>1, <3>2 DEF Rows
  <2>11. Requests'
    <3>1. \A v \in Workers : v # w /\ work[v].pc # "idle" => Lasts(work[v].id)
      BY <1>2, <2>4 DEF Inductive, Requests, Knows, Lasts
    <3>2. work'[w].pc = "idle"
      BY <1>1, <1>3, WorkTyped DEF Done, Inductive
    <3>3. \A v \in Workers : v # w => Knows(v)'
      BY <1>1, <2>8, <3>1, <3>2, OthersKnow DEF Inductive
    <3> QED
      BY <1>1, <1>3, <3>3, IdleKnows DEF Inductive, Requests, Done
  <2>12. \A m \in mirrors : m.id # i
    BY <1>2 DEF Inductive, TypeOK, Copies, CopyOK, Kinds
  <2>13. file[i] = NoGrant /\ file[i].phase = "none"
    BY <1>2, <2>2, EmptyTyped DEF Inductive, TypeOK, Copies, FileOK, GrantRows
  <2>14. \A m \in mirrors' : CopyOK(m)'
    <3> SUFFICES ASSUME NEW m \in mirrors' PROVE CopyOK(m)'
      OBVIOUS
    <3>1. CASE m \in mirrors
      <4>1. CopyOK(m) /\ m.id \in Ids /\ m.id # i
        BY <2>12, <3>1 DEF Inductive, Copies, CopyOK
      <4> QED
        BY <2>4, <4>1 DEF CopyOK
    <3>2. CASE m = c /\ i \in Mirrored
      BY <1>2, <2>4, <2>5, <3>2 DEF CopyOK
    <3> QED
      BY <2>7, <3>1, <3>2
  <2>15. \A j \in Ids : FileOK(j)'
    <3> SUFFICES ASSUME NEW j \in Ids PROVE FileOK(j)'
      OBVIOUS
    <3>1. CASE j = i
      BY <1>3, <2>13, <3>1 DEF FileOK
    <3>2. CASE j # i
      BY <1>3, <2>4, <3>2 DEF FileOK, Inductive, Copies
    <3> QED
      BY <3>1, <3>2
  <2>16. \A j \in Mirrored : Arrived(j)'
    <3> SUFFICES ASSUME NEW j \in Mirrored PROVE Arrived(j)'
      OBVIOUS
    <3>1. Arrived(j) /\ j \in Ids
      BY DEF Inductive, Copies
    <3>2. \A l : Awaited(j, l) => Awaited(j, l)'
      BY <1>3, <2>7 DEF Awaited
    <3>3. CASE j = i
      <4>1. Awaited(j, "granted")'
        BY <2>5, <2>7, <3>3 DEF Awaited
      <4>2. fileAudit[i]["granted"] = 0 /\ fileAudit[i]["ended"] = 0
        BY <2>2, <3>1, <3>3 DEF Arrived, Kinds
      <4> QED
        BY <1>2, <1>3, <2>3, <2>4, <3>3, <4>1, <4>2 DEF Arrived, Kinds
    <3>4. CASE j # i
      <4>1. grants'[j] = grants[j] /\ audit'[j] = audit[j]
        BY <2>3, <2>4, <3>1, <3>4
      <4> QED
        BY <1>3, <3>1, <3>2, <4>1 DEF Arrived
    <3> QED
      BY <3>3, <3>4
  <2> QED
    BY <2>9, <2>10, <2>11, <2>14, <2>15, <2>16 DEF Inductive, Copies
<1> QED
  BY <1>4, <1>5

---------------------------------------------------------------------------
(* Tokens, copies, the clock and the account.                              *)

LEMMA IssueKeeps == ASSUME Inductive, NEW w \in Borrowers, Issue(w) PROVE Inductive'
<1>1. w \in Workers /\ work \in [Workers -> Works] /\ Idle \in Works /\ Idle.pc = "idle"
  BY WorkTyped DEF Inductive, Workers
<1>2. /\ Done(w) /\ RowsStay /\ Unmirrored /\ UNCHANGED <<now, account, past, enabled>>
  BY DEF Issue, RowsStay, Unmirrored, mirror
<1>3. work' \in [Workers -> Works] /\ Others(w) /\ work'[w].pc = "idle"
  BY <1>1, <1>2 DEF Done, Others
<1>4. issued' \in SUBSET [id : Ids, at : 0..MaxTime, login : Logins]
  <2>1. work[w].id \in Ids /\ work[w].login \in Logins
    BY <1>1 DEF Issue, At, Inductive, Requests, Knows
  <2>2. [id |-> work[w].id, at |-> now, login |-> work[w].login]
          \in [id : Ids, at : 0..MaxTime, login : Logins]
    BY <2>1 DEF Inductive, TypeOK
  <2> QED
    BY <2>2 DEF Issue, Inductive, TypeOK
<1>5. TypeOK'
  BY <1>2, <1>3, <1>4 DEF Inductive, TypeOK, RowsStay, Unmirrored, Works, Phases
<1>6. Rows'
  BY <1>2 DEF Inductive, Rows, RemovedUnlent, Unended, GrantOK, RowsStay
<1>7. Requests'
  <2>1. \A j : Lasts(j)
    BY <1>2 DEF Lasts, RowsStay
  <2>2. \A v \in Workers : v # w => Knows(v)'
    BY <1>1, <1>3, <2>1, OthersKnow DEF Inductive
  <2> QED
    BY <1>1, <1>2, <2>2, IdleKnows DEF Inductive, Requests, Done
<1>8. Copies'
  BY <1>2, CopiesStay DEF Inductive
<1> QED
  BY <1>5, <1>6, <1>7, <1>8 DEF Inductive

\* A step of the mirror leaves the store and the requests alone.
LEMMA RowsAndRequests ==
  ASSUME Inductive, RowsStay, UNCHANGED <<work, account>>
  PROVE  Rows' /\ Requests'
<1>1. Rows'
  BY DEF Inductive, Rows, RemovedUnlent, Unended, GrantOK, RowsStay
<1>2. ASSUME NEW w \in Workers PROVE Knows(w)'
  BY DEF Inductive, Requests, Knows, RowsStay
<1> QED
  BY <1>1, <1>2 DEF Requests

\* A copy arrives: what it replaces has not ended, and its event is added once.
LEMMA MirrorKeeps == ASSUME Inductive, NEW m \in mirrors, Mirror(m) PROVE Inductive'
<1>1. /\ m.id \in Ids /\ m.kind \in Kinds /\ m.grant \in GrantRows
      /\ m.id \in Mirrored /\ CopyOK(m)
  BY DEF Inductive, TypeOK, Copies, CopyOK
<1> DEFINE i == m.id
           k == m.kind
<1>2. /\ RowsStay /\ UNCHANGED <<now, account, past, enabled, issued, work>>
      /\ mirrors' = mirrors \ {m} /\ missed' = missed \ {<<i, k>>}
      /\ file' = IF Replaces(m) THEN [file EXCEPT ![i] = m.grant] ELSE file
      /\ fileAudit' = IF Missing(m) THEN Count(fileAudit, i, k) ELSE fileAudit
  BY DEF Mirror, RowsStay, store
<1>3. /\ file' \in [Ids -> GrantRows]
      /\ file'[i] = IF file[i].phase # "ended" THEN m.grant ELSE file[i]
      /\ \A j \in Ids : j # i => file'[j] = file[j]
  BY <1>1, <1>2 DEF Inductive, TypeOK, Replaces
<1>4. /\ fileAudit' \in [Ids -> [Kinds -> 0..2]]
      /\ fileAudit[i][k] = 0 => fileAudit'[i][k] = 1
      /\ fileAudit[i][k] # 0 => fileAudit'[i][k] = fileAudit[i][k]
      /\ \A l \in Kinds : l # k => fileAudit'[i][l] = fileAudit[i][l]
      /\ \A j \in Ids : j # i => fileAudit'[j] = fileAudit[j]
  <2>1. CASE Missing(m)
    <3>1. fileAudit[i][k] = 0 /\ fileAudit \in [Ids -> [Kinds -> 0..2]]
      BY <2>1 DEF Missing, Inductive, TypeOK
    <3>2. fileAudit' = Count(fileAudit, i, k)
      BY <1>2, <2>1
    <3> HIDE DEF i, k
    <3>3. /\ Count(fileAudit, i, k) \in [Ids -> [Kinds -> 0..2]]
          /\ Count(fileAudit, i, k)[i][k] = 1
          /\ \A j \in Ids : j # i => Count(fileAudit, i, k)[j] = fileAudit[j]
          /\ \A l \in Kinds : l # k => Count(fileAudit, i, k)[i][l] = fileAudit[i][l]
      <4>1. i \in Ids /\ k \in Kinds
        BY <1>1 DEF i, k
      <4> QED
        BY <3>1, <4>1, CountIs
    <3> QED
      BY <3>1, <3>2, <3>3
  <2>2. CASE ~Missing(m)
    BY <1>2, <2>2 DEF Missing, Inductive, TypeOK
  <2> QED
    BY <2>1, <2>2
<1>5. TypeOK'
  BY <1>2, <1>3, <1>4 DEF Inductive, TypeOK, RowsStay
<1>6. Rows' /\ Requests'
  BY <1>2, RowsAndRequests
<1>7. \A n \in mirrors' : CopyOK(n)'
  BY <1>2 DEF Inductive, Copies, CopyOK, RowsStay
<1>8. \A j \in Ids : FileOK(j)'
  <2> SUFFICES ASSUME NEW j \in Ids PROVE FileOK(j)'
    OBVIOUS
  <2>1. FileOK(j)
    BY DEF Inductive, Copies
  <2>2. CASE j = i /\ file[i].phase # "ended"
    <3>1. file'[j] = m.grant /\ grants' = grants
      BY <1>2, <1>3, <2>2 DEF RowsStay
    <3> QED
      BY <1>1, <2>2, <3>1 DEF CopyOK, FileOK, Kinds
  <2>3. CASE ~(j = i /\ file[i].phase # "ended")
    <3>1. file'[j] = file[j] /\ grants' = grants
      BY <1>2, <1>3, <2>3 DEF RowsStay
    <3> QED
      BY <2>1, <3>1 DEF FileOK
  <2> QED
    BY <2>2, <2>3
<1>9. \A j \in Mirrored : Arrived(j)'
  <2> SUFFICES ASSUME NEW j \in Mirrored PROVE Arrived(j)'
    OBVIOUS
  <2>1. Arrived(j) /\ FileOK(j) /\ j \in Ids
    BY DEF Inductive, Copies
  <2>2. grants' = grants /\ audit' = audit
    BY <1>2 DEF RowsStay
  <2>3. \A l : Awaited(j, l) /\ <<j, l>> # <<i, k>> => Awaited(j, l)'
    BY <1>2 DEF Awaited
  <2>4. CASE j # i
    <3>1. file'[j] = file[j] /\ fileAudit'[j] = fileAudit[j]
      BY <1>3, <1>4, <2>1, <2>4
    <3>2. \A l : Awaited(j, l) => Awaited(j, l)'
      BY <2>3, <2>4
    <3> QED
      BY <2>1, <2>2, <3>1, <3>2 DEF Arrived
  <2>5. CASE j = i
    <3>1. grants[j].phase = "active" => file'[j] = grants[j] \/ Awaited(j, "granted")'
      <4> SUFFICES ASSUME grants[j].phase = "active"
                   PROVE  file'[j] = grants[j] \/ Awaited(j, "granted")'
        OBVIOUS
      <4>1. k = "granted" /\ m.grant = grants[j]
        BY <1>1, <2>5 DEF CopyOK, Kinds
      <4>2. file[j].phase # "ended"
        BY <2>1 DEF FileOK
      <4> QED
        BY <1>3, <2>5, <4>1, <4>2
    <3>2. grants[j].phase = "ended" => file'[j] = grants[j] \/ Awaited(j, "ended")'
      <4> SUFFICES ASSUME grants[j].phase = "ended"
                   PROVE  file'[j] = grants[j] \/ Awaited(j, "ended")'
        OBVIOUS
      <4>1. CASE file[j].phase = "ended"
        BY <1>3, <2>1, <2>5, <4>1 DEF FileOK
      <4>2. CASE file[j].phase # "ended" /\ k = "ended"
        BY <1>1, <1>3, <2>5, <4>2 DEF CopyOK
      <4>3. CASE file[j].phase # "ended" /\ k # "ended"
        <5>1. file[j] # grants[j]
          BY <4>3
        <5>2. Awaited(j, "ended")
          BY <2>1, <5>1 DEF Arrived
        <5> QED
          BY <2>3, <4>3, <5>2
      <4> QED
        BY <4>1, <4>2, <4>3
    <3>3. ASSUME NEW l \in Kinds
          PROVE  \/ fileAudit'[j][l] = audit[j][l]
                 \/ fileAudit'[j][l] = 0 /\ audit[j][l] = 1 /\ Awaited(j, l)'
      <4>1. \/ fileAudit[j][l] = audit[j][l]
            \/ fileAudit[j][l] = 0 /\ audit[j][l] = 1 /\ Awaited(j, l)
        BY <2>1 DEF Arrived
      <4>2. CASE l # k
        BY <1>4, <2>3, <2>5, <4>1, <4>2
      <4>3. CASE l = k
        <5>1. audit[j][l] = 1
          BY <1>1, <2>1, <2>5, <4>3 DEF Inductive, Rows, GrantOK, CopyOK, Kinds
        <5> QED
          BY <1>4, <2>5, <4>1, <4>3, <5>1
      <4> QED
        BY <4>2, <4>3
    <3> QED
      BY <2>2, <3>1, <3>2, <3>3 DEF Arrived
  <2> QED
    BY <2>4, <2>5
<1> QED
  BY <1>5, <1>6, <1>7, <1>8, <1>9 DEF Inductive, Copies

\* A copy that fails is missed.
LEMMA MirrorFailsKeeps == ASSUME Inductive, NEW m \in mirrors, MirrorFails(m) PROVE Inductive'
<1>1. /\ RowsStay /\ UNCHANGED <<now, account, past, enabled, issued, work, file, fileAudit>>
      /\ mirrors' = mirrors \ {m} /\ missed' = missed \cup {<<m.id, m.kind>>}
  BY DEF MirrorFails, RowsStay, store
<1>2. m.id \in Ids /\ m.kind \in Kinds
  BY DEF Inductive, TypeOK
<1>3. TypeOK'
  BY <1>1, <1>2 DEF Inductive, TypeOK, RowsStay
<1>4. \A i, k : Awaited(i, k) => Awaited(i, k)'
  BY <1>1 DEF Awaited
<1>5. /\ \A n \in mirrors' : CopyOK(n)'
      /\ \A i \in Ids : FileOK(i)'
      /\ \A i \in Mirrored : Arrived(i)'
  BY <1>1, <1>4 DEF Inductive, Copies, CopyOK, FileOK, Arrived, RowsStay
<1> QED
  BY <1>1, <1>3, <1>5, RowsAndRequests DEF Inductive, Copies

\* The clock, a renewal, a removal, the lender's user.
LEMMA AccountKeeps ==
  ASSUME Inductive, Tick \/ (\E l \in Logins : Renew(l)) \/ RemoveAccount \/ DisableLender
  PROVE  Inductive'
<1>1. /\ RowsStay /\ Unmirrored /\ UNCHANGED <<work, issued>>
  BY DEF Tick, Renew, RemoveAccount, DisableLender, RowsStay, Unmirrored, store, mirror
<1>2. /\ now' \in 0..MaxTime /\ account' \in [active : BOOLEAN, login : Logins]
      /\ past' \in SUBSET Logins /\ account'.login \in past' /\ enabled' \in BOOLEAN
  <2>1. CASE Tick
    BY <2>1 DEF Tick, Inductive, TypeOK
  <2>2. ASSUME NEW l \in Logins, Renew(l)
        PROVE  /\ now' = now /\ enabled' = enabled /\ past' = past \cup {l}
               /\ account' \in [active : BOOLEAN, login : Logins] /\ account'.login = l
    BY <2>2 DEF Renew, Inductive, TypeOK
  <2>3. CASE RemoveAccount
    BY <2>3 DEF RemoveAccount, Inductive, TypeOK
  <2>4. CASE DisableLender
    BY <2>4 DEF DisableLender, Inductive, TypeOK
  <2> QED
    BY <2>1, <2>2, <2>3, <2>4 DEF Inductive, TypeOK
<1>3. TypeOK'
  BY <1>1, <1>2 DEF Inductive, TypeOK, RowsStay, Unmirrored
<1>4. RemovedUnlent'
  <2>1. CASE RemoveAccount
    BY <1>1, <2>1 DEF RemoveAccount, Removable, RemovedUnlent, Unended, RowsStay
  <2>2. CASE ~RemoveAccount
    <3>1. account'.active = account.active
      BY <2>2 DEF Tick, Renew, DisableLender, Inductive, TypeOK
    <3> QED
      BY <1>1, <3>1 DEF RemovedUnlent, Unended, RowsStay, Inductive, Rows
  <2> QED
    BY <2>1, <2>2
<1>5. \A i \in Ids : GrantOK(i)'
  BY <1>1 DEF Inductive, Rows, GrantOK, RowsStay
<1>6. \A w \in Workers : Knows(w)'
  BY <1>1 DEF Inductive, Requests, Knows, RowsStay
<1>7. Copies'
  BY <1>1, CopiesStay DEF Inductive
<1> QED
  BY <1>3, <1>4, <1>5, <1>6, <1>7 DEF Inductive, Rows, Requests

---------------------------------------------------------------------------
\* Every step of the loans keeps the invariant.
LEMMA NextKeeps == Inductive /\ [Next]_vars => Inductive'
<1> SUFFICES ASSUME Inductive, [Next]_vars PROVE Inductive'
  OBVIOUS
<1>1. CASE UNCHANGED vars
  <2>1. RowsStay /\ Unmirrored /\ UNCHANGED <<now, account, past, enabled, issued, work>>
    BY <1>1 DEF vars, store, mirror, RowsStay, Unmirrored
  <2>2. TypeOK'
    BY <2>1 DEF Inductive, TypeOK, RowsStay, Unmirrored
  <2> QED
    BY <2>1, <2>2, RowsAndRequests, CopiesStay DEF Inductive
<1>2. ASSUME NEW w \in Managers, NEW i \in Ids, NEW t \in 1..MaxTime, Plan(w, i, t) PROVE Inductive'
  BY <1>2, PlanKeeps
<1>3. ASSUME NEW w \in Managers, NEW i \in Ids, NEW r \in Reasons, RequestEnd(w, i, r)
      PROVE  Inductive'
  BY <1>3, RequestEndKeeps
<1>4. ASSUME NEW w \in Managers, Create(w) \/ EndStore(w) PROVE Inductive'
  BY <1>4, CreateKeeps, EndStoreKeeps
<1>5. ASSUME NEW w \in Workers, EndLoad(w) PROVE Inductive'
  BY <1>5, EndLoadKeeps
<1>6. ASSUME NEW w \in Borrowers, NEW i \in Ids, Resolve(w, i) PROVE Inductive'
  BY <1>6, ResolveKeeps
<1>7. ASSUME NEW w \in Borrowers,
             (\E l \in Logins : Prepare(w, l)) \/ ConfirmSubject(w) \/ ConfirmLender(w)
      PROVE  Inductive'
  BY <1>7, BorrowerKeeps
<1>8. ASSUME NEW w \in Borrowers, Issue(w) PROVE Inductive'
  BY <1>8, IssueKeeps
<1>9. ASSUME NEW m \in mirrors, Mirror(m) \/ MirrorFails(m) PROVE Inductive'
  BY <1>9, MirrorKeeps, MirrorFailsKeeps
<1>10. CASE Expire
  BY <1>10, ExpireKeeps
<1>11. CASE Tick \/ (\E l \in Logins : Renew(l)) \/ RemoveAccount \/ DisableLender
  BY <1>11, AccountKeeps
<1> QED
  BY <1>1, <1>2, <1>3, <1>4, <1>5, <1>6, <1>7, <1>8, <1>9, <1>10, <1>11 DEF Next

\* The inductive invariant holds in every reachable state.
THEOREM LoanInvariant == Spec => []Inductive
  BY InitHolds, NextKeeps, PTL DEF Spec

\* The audit log agrees with the grants, a removed account has no loan left to end
\* (remove_account against create_loan), and the mirror agrees with PostgreSQL
\* when the copies of a loan have arrived.
THEOREM LoansHold == Spec => []LoansIInv
<1>1. Inductive => LoansIInv
  <2> SUFFICES ASSUME Inductive PROVE LoansIInv
    OBVIOUS
  <2>1. AuditMatches
    BY DEF Inductive, Rows, AuditMatches, GrantOK
  <2>2. ASSUME NEW i \in Mirrored, \A m \in mirrors : m.id # i
        PROVE  /\ <<i, IF grants[i].phase = "ended" THEN "ended" ELSE "granted">> \notin missed
                    => file[i] = grants[i]
               /\ \A k \in Kinds : <<i, k>> \notin missed => fileAudit[i][k] = audit[i][k]
    <3>1. Arrived(i) /\ FileOK(i) /\ GrantOK(i) /\ i \in Ids
      BY DEF Inductive, Copies, Rows
    <3>2. \A k : Awaited(i, k) => <<i, k>> \in missed
      BY <2>2 DEF Awaited
    <3>3. \A k \in Kinds : <<i, k>> \notin missed => fileAudit[i][k] = audit[i][k]
      BY <3>1, <3>2 DEF Arrived
    <3>4. CASE grants[i].phase = "none"
      <4>1. grants[i] = NoGrant
        BY <3>1, <3>4 DEF GrantOK
      <4>2. file[i].phase \in {"none", "active", "ended"}
        BY <3>1 DEF Inductive, TypeOK, GrantRows
      <4>3. file[i] = grants[i]
        BY <3>1, <3>4, <4>1, <4>2 DEF FileOK
      <4> QED
        BY <3>3, <4>3
    <3>5. CASE grants[i].phase = "active"
      BY <3>1, <3>2, <3>3, <3>5 DEF Arrived
    <3>6. CASE grants[i].phase = "ended"
      BY <3>1, <3>2, <3>3, <3>6 DEF Arrived
    <3> QED
      BY <3>1, <3>4, <3>5, <3>6, GrantTyped DEF Inductive
  <2>3. MirrorConverges
    BY <2>2 DEF MirrorConverges
  <2> QED
    BY <2>1, <2>3 DEF Inductive, Rows, LoansIInv
<1> QED
  BY <1>1, LoanInvariant, PTL

\* An end is final in the store (store_end's WHERE ended_at IS NULL) and in the
\* mirror (mirror_loan), whoever else ends the loan or copies it late.
THEOREM EndsKept == Spec => [][EndKept]_vars
<1>1. Inductive /\ [Next]_vars => [EndKept]_vars
  <2> SUFFICES ASSUME Inductive, Next PROVE EndKept
    OBVIOUS
  <2> SUFFICES ASSUME NEW i \in Ids
               PROVE  /\ grants[i].phase = "ended" => grants'[i] = grants[i]
                      /\ file[i].phase = "ended" => file'[i] = file[i]
    BY DEF EndKept
  <2>1. ASSUME NEW w \in Managers, Create(w), grants[i].phase = "ended" PROVE grants'[i] = grants[i]
    <3>1. work[w].pc = "planned" /\ w \in Workers
      BY <2>1 DEF Create, At, Workers
    <3>2. grants[work[w].id].phase = "none"
      BY <3>1 DEF Inductive, Requests, Knows
    <3>3. \/ grants' = grants
          \/ grants' = [grants EXCEPT ![work[w].id] = work[w].grant]
      BY <2>1 DEF Create
    <3> QED
      BY <2>1, <3>2, <3>3 DEF Inductive, TypeOK
  <2>2. ASSUME NEW w \in Managers, EndStore(w), grants[i].phase = "ended" PROVE grants'[i] = grants[i]
    <3>1. \/ grants' = grants
          \/ /\ grants' = [grants EXCEPT ![work[w].id] = work[w].grant]
             /\ grants[work[w].id].phase = "active"
      BY <2>2 DEF EndStore, Storable, Unended
    <3> QED
      BY <2>2, <3>1 DEF Inductive, TypeOK
  <2>3. ASSUME Expire, grants[i].phase = "ended" PROVE grants'[i] = grants[i]
    BY <2>3 DEF Expire, Due, Unended
  <2>4. grants[i].phase = "ended" => grants'[i] = grants[i]
    <3>1. \/ grants' = grants
          \/ \E w \in Managers : Create(w) \/ EndStore(w)
          \/ Expire
      BY DEF Next, Plan, RequestEnd, EndLoad, Resolve, Prepare, ConfirmSubject, ConfirmLender,
         Issue, Mirror, MirrorFails, Renew, Tick, RemoveAccount, DisableLender, store
    <3> QED
      BY <2>1, <2>2, <2>3, <3>1
  <2>5. file[i].phase = "ended" => file'[i] = file[i]
    <3>1. file' = file \/ \E m \in mirrors : Mirror(m)
      BY DEF Next, Plan, RequestEnd, Create, EndLoad, EndStore, Resolve, Prepare, ConfirmSubject,
         ConfirmLender, Issue, MirrorFails, Renew, Expire, Tick, RemoveAccount, DisableLender, mirror
    <3>2. ASSUME NEW m \in mirrors, Mirror(m), file[i].phase = "ended" PROVE file'[i] = file[i]
      BY <3>2 DEF Mirror, Replaces, Inductive, TypeOK
    <3> QED
      BY <3>1, <3>2
  <2> QED
    BY <2>4, <2>5
<1> QED
  BY <1>1, LoanInvariant, PTL DEF Spec

\* What is delivered is lent at that moment: the loan has not ended, its time is not
\* over, and the token is of the login that was lent, whatever happened since the
\* request resolved its grant (issue_token, ADR 0004).
THEOREM DeliversLent == Spec => [][DeliveredLent]_vars
<1>1. Inductive /\ [Next]_vars => [DeliveredLent]_vars
  <2> SUFFICES ASSUME Inductive, Next PROVE DeliveredLent
    OBVIOUS
  <2>1. issued' = issued \/ \E w \in Borrowers : Issue(w)
    BY DEF Next, Plan, RequestEnd, Create, EndLoad, EndStore, Resolve, Prepare, ConfirmSubject,
       ConfirmLender, Mirror, MirrorFails, Renew, Expire, Tick, RemoveAccount, DisableLender, store
  <2>2. ASSUME NEW w \in Borrowers, Issue(w) PROVE DeliveredLent
    <3> DEFINE e == [id |-> work[w].id, at |-> now, login |-> work[w].login]
    <3>1. issued' = issued \/ (Issuable(w) /\ issued' = issued \cup {e})
      BY <2>2 DEF Issue
    <3>2. work[w].login = grants[work[w].id].login
      BY <2>2 DEF Issue, At, Workers, Inductive, Requests, Knows
    <3>3. Issuable(w) => /\ grants[e.id].phase = "active" /\ e.at < grants[e.id].ends
                         /\ e.login = grants[e.id].login
      BY <3>2 DEF Issuable, Active, Unended
    <3> HIDE DEF e
    <3> QED
      BY <3>1, <3>3 DEF DeliveredLent
  <2> QED
    BY <2>1, <2>2 DEF DeliveredLent
<1> QED
  BY <1>1, LoanInvariant, PTL DEF Spec

---------------------------------------------------------------------------
(* Capacity. *)

\* What a behaviour is bounded by, for any seconds of a window, a cooldown and an hour.
Budgets ==
  [streak : Nat, moves : Nat, where : SUBSET Accounts, on : Accounts, failed : Int,
   completed : Int, terminal : Int, late : Int, resumes : Int, deaths : Int]
Recoverable ==
  Window \in Nat /\ Cooldown \in Nat /\ Retention \in Nat /\ Bounds \subseteq Budgets

\* The records of the state.
Reported ==
  [kind : {"failed", "completed", "terminal"}, id : Nat, of : Accounts, at : Nat]
HistoryRows ==
  [completed : Int, done : SUBSET Reported, seen : SUBSET Reported,
   failures : SUBSET Reported, cooling : Int, terminal : SUBSET Reported]
MoveRows == [at : Nat, from : Accounts, to : Accounts, stop : Nat]
Planned == [histories : [Accounts -> HistoryRows], to : Accounts]
Backends ==
  [mode : {"file", "postgres"}, busy : BOOLEAN, write : Planned \cup {NoWrite}, deaths : Int]
Launchers == [on : Accounts, tried : SUBSET Accounts, stop : Nat \cup {Never}]

CapacityTypes ==
  /\ ticks \in Nat /\ reports \subseteq Reported /\ IsFiniteSet(reports)
  /\ \A e \in reports : e.id < Cardinality(reports)
  /\ histories \in [Accounts -> HistoryRows] /\ limits \in Budgets
  /\ backend \in Backends
  /\ session \in Launchers /\ session.on \in session.tried

\* A history is true of the failures that happened: what it counts are some of them, none
\* from before its success, and while it cools there were enough of them since.
FailedOf(a) == {e \in reports : e.kind = "failed" /\ e.of = a}
Since(failed, time) == {e \in failed : e.at >= time}
HistoryTrue(h, failed, time, streak) ==
  /\ h \in HistoryRows /\ h.failures \subseteq h.seen /\ h.seen \subseteq failed
  /\ \A f \in h.failures : f.at >= h.completed
  /\ h.cooling > time => Cardinality(Since(failed, h.completed)) >= streak
AllTrue(hs) == \A a \in Accounts : HistoryTrue(hs[a], FailedOf(a), ticks, Streak)

\* The moves charged (ms) and told (made) at some hour, to a launcher s that may ask about
\* the stop of a report, of which there are ids: a stop is charged once and told once; what
\* was told within the hour is charged; and every hour has its limit.
Within(m, all) == {n \in all : n.at <= m.at /\ m.at - n.at < Retention}
MovesSound(ms, made, s, hour, ids, limit) ==
  /\ ms \subseteq MoveRows /\ made \subseteq MoveRows
  /\ IsFiniteSet(ms) /\ IsFiniteSet(made)
  /\ \A m \in ms \cup made : m.at <= hour /\ m.stop < ids
  /\ \A m, n \in ms : /\ m.stop = n.stop => m = n
                      /\ m.stop < n.stop => n.to \notin {m.from, m.to}
  /\ \A m, n \in made : m.stop = n.stop => m = n
  /\ \A m \in made : hour - m.at < Retention => m \in ms
  /\ \A m \in ms \cup made : Cardinality(Within(m, ms \cup made)) <= limit
  /\ s.stop # Never =>
       /\ s.stop < ids
       /\ \A m \in ms : m.stop <= s.stop /\ (m.stop = s.stop => m.from = s.on)
       /\ \A m \in made : m.stop # s.stop

\* A write in progress has its move charged, and histories that are still true.
Pending ==
  backend.busy =>
    /\ backend.write \in Planned /\ AllTrue(backend.write.histories)
    /\ session.stop # Never /\ Move(backend.write.to) \in moves

CapacityInductive ==
  /\ CapacityTypes /\ AllTrue(histories) /\ Pending
  /\ MovesSound(moves, advised, session, ticks, Cardinality(reports), MoveLimit)

\* A history after an update of its fields.
LEMMA HistoryRow ==
  ASSUME NEW h \in HistoryRows, NEW completed \in Int, NEW cooling \in Int,
         NEW done \in SUBSET Reported, NEW seen \in SUBSET Reported,
         NEW failures \in SUBSET Reported, NEW terminal \in SUBSET Reported,
         NEW k, k = [h EXCEPT !.completed = completed, !.done = done, !.seen = seen,
                              !.failures = failures, !.cooling = cooling, !.terminal = terminal]
  PROVE  /\ k \in HistoryRows /\ k.completed = completed /\ k.done = done /\ k.seen = seen
         /\ k.failures = failures /\ k.cooling = cooling /\ k.terminal = terminal
  BY DEF HistoryRows

\* What happened since only confirms a history, and so does the time that passes.
LEMMA HistoryGrows ==
  ASSUME NEW h, NEW failed, NEW more \in SUBSET Reported, NEW time \in Nat, NEW later \in Nat,
         NEW streak \in Nat, HistoryTrue(h, failed, time, streak),
         failed \subseteq more, IsFiniteSet(more), time <= later
  PROVE  HistoryTrue(h, more, later, streak)
<1>1. h \in HistoryRows /\ h.cooling \in Int
  BY DEF HistoryTrue, HistoryRows
<1>2. ASSUME h.cooling > later PROVE Cardinality(Since(more, h.completed)) >= streak
  <2> DEFINE few == Since(failed, h.completed)
             many == Since(more, h.completed)
  <2>1. Cardinality(few) >= streak
    BY <1>1, <1>2 DEF HistoryTrue
  <2>2. many \in SUBSET more /\ few \in SUBSET many
    BY DEF Since
  <2> HIDE DEF few, many
  <2>3. IsFiniteSet(many)
    BY <2>2, FS_Subset
  <2>4. IsFiniteSet(few) /\ Cardinality(few) <= Cardinality(many)
    BY <2>2, <2>3, FS_Subset
  <2>5. Cardinality(few) \in Nat /\ Cardinality(many) \in Nat
    BY <2>3, <2>4, FS_CardinalityType
  <2>6. Cardinality(many) >= streak
    BY <2>1, <2>4, <2>5
  <2> QED
    BY <2>6 DEF many
<1> QED
  BY <1>1, <1>2 DEF HistoryTrue

\* A new history says nothing.
LEMMA NoHistoryTrue ==
  ASSUME NEW failed, NEW time \in Nat, NEW streak \in Nat
  PROVE  HistoryTrue(NoHistory, failed, time, streak)
<1>1. NoHistory \in HistoryRows
  BY DEF NoHistory, HistoryRows, Never
<1>2. NoHistory.failures = {} /\ NoHistory.seen = {} /\ NoHistory.cooling = 0
  BY DEF NoHistory
<1> QED
  BY <1>1, <1>2 DEF HistoryTrue

\* What expires is forgotten, and a cooldown is not.
LEMMA KeptTrue ==
  ASSUME Recoverable, NEW h, NEW failed, NEW time \in Nat, NEW streak \in Nat,
         HistoryTrue(h, failed, time, streak)
  PROVE  HistoryTrue(Kept(h, time), failed, time, streak)
<1> DEFINE p == Pruned(h, time)
<1>1. h \in HistoryRows
  BY DEF HistoryTrue
<1>2. /\ h.done \subseteq Reported /\ h.seen \subseteq Reported /\ h.failures \subseteq Reported
      /\ h.terminal \subseteq Reported
  BY <1>1 DEF HistoryRows
<1>3. /\ p \in HistoryRows /\ p.completed = h.completed /\ p.cooling = h.cooling
      /\ p.seen = Current(h.seen, time) /\ p.failures = Current(h.failures, time)
  <2> DEFINE seen == Current(h.seen, time)
             failures == Current(h.failures, time)
             done == Current(h.done, time)
             terminal == {t \in h.terminal : time - t.at < Cooldown}
  <2>1. /\ seen \in SUBSET Reported /\ failures \in SUBSET Reported
        /\ done \in SUBSET Reported /\ terminal \in SUBSET Reported
    BY <1>2 DEF Current
  <2>2. p = [h EXCEPT !.seen = seen, !.failures = failures, !.done = done, !.terminal = terminal]
    BY DEF Pruned
  <2> HIDE DEF seen, failures, done, terminal, p
  <2>3. /\ p \in HistoryRows /\ p.completed = h.completed /\ p.cooling = h.cooling
        /\ p.seen = seen /\ p.failures = failures
    BY <1>1, <2>1, <2>2 DEF HistoryRows
  <2> QED
    BY <2>3 DEF seen, failures
<1> HIDE DEF p
<1>4. /\ p.failures \subseteq p.seen /\ p.seen \subseteq failed
      /\ \A f \in p.failures : f.at >= p.completed
  BY <1>3 DEF HistoryTrue, Current
<1>5. HistoryTrue(p, failed, time, streak)
  BY <1>3, <1>4 DEF HistoryTrue
<1>6. Kept(h, time) \in {NoHistory, p}
  BY DEF Kept, p
<1> QED
  BY <1>5, <1>6, NoHistoryTrue

\* A success takes back what it followed; a cooldown it leaves has enough failures after it.
LEMMA CompletedTrue ==
  ASSUME NEW h, NEW failed \in SUBSET Reported, IsFiniteSet(failed), NEW time \in Nat,
         NEW streak \in Nat, Streak = streak, HistoryTrue(h, failed, time, streak),
         NEW e \in Reported
  PROVE  HistoryTrue(Completed(h, e), failed, time, streak)
<1>1. CASE e.at < h.completed \/ e \in h.done
  BY <1>1 DEF Completed
<1>2. CASE ~(e.at < h.completed \/ e \in h.done)
  <2>0. h \in HistoryRows
    BY DEF HistoryTrue
  <2> DEFINE fresh == {f \in h.failures : f.at > e.at}
             left == IF Cardinality(fresh) < streak THEN 0 ELSE h.cooling
             done == {d \in h.done : d.at >= e.at} \cup {e}
             terminal == {t \in h.terminal : t.at > e.at}
             k == Completed(h, e)
  <2>1. /\ fresh \in SUBSET h.failures /\ fresh \in SUBSET Reported
        /\ done \in SUBSET Reported /\ terminal \in SUBSET Reported /\ left \in Int
        /\ e.at \in Int
    BY <2>0 DEF HistoryRows, Reported
  <2>2. k = [h EXCEPT !.completed = e.at, !.done = done, !.failures = fresh, !.cooling = left,
                      !.terminal = terminal]
    BY <1>2 DEF Completed
  <2>3. \A f \in fresh : f.at > e.at
    OBVIOUS
  <2>4. left > time => ~(Cardinality(fresh) < streak)
    OBVIOUS
  <2> HIDE DEF fresh, left, done, terminal, k
  <2>5. /\ k \in HistoryRows /\ k.completed = e.at /\ k.seen = h.seen /\ k.failures = fresh
        /\ k.cooling = left
    BY <2>0, <2>1, <2>2 DEF HistoryRows
  <2>6. fresh \in SUBSET Since(failed, e.at)
    <3> SUFFICES ASSUME NEW f \in fresh PROVE f \in failed /\ f.at >= e.at
      BY DEF Since
    <3>1. f \in failed /\ f \in Reported
      BY <2>1 DEF HistoryTrue
    <3> QED
      BY <2>1, <2>3, <3>1 DEF Reported
  <2>7. ASSUME left > time PROVE Cardinality(Since(failed, e.at)) >= streak
    <3>1. Since(failed, e.at) \in SUBSET failed
      BY DEF Since
    <3>2. IsFiniteSet(Since(failed, e.at))
      BY <3>1, FS_Subset
    <3>3. IsFiniteSet(fresh) /\ Cardinality(fresh) <= Cardinality(Since(failed, e.at))
      BY <2>6, <3>2, FS_Subset
    <3>4. Cardinality(fresh) \in Nat /\ Cardinality(Since(failed, e.at)) \in Nat
      BY <3>2, <3>3, FS_CardinalityType
    <3> QED
      BY <2>4, <2>7, <3>3, <3>4
  <2>8. \A f \in fresh : f.at >= e.at
    BY <2>6 DEF Since
  <2>9. fresh \subseteq h.seen /\ h.seen \subseteq failed
    BY <2>1 DEF HistoryTrue
  <2>10. HistoryTrue(k, failed, time, streak)
    BY <2>5, <2>7, <2>8, <2>9 DEF HistoryTrue
  <2> QED
    BY <2>10 DEF k
<1> QED
  BY <1>1, <1>2

\* A proof of a stop counts for nothing else.
LEMMA TerminalTrue ==
  ASSUME NEW h, NEW failed, NEW time \in Nat, NEW streak \in Nat,
         HistoryTrue(h, failed, time, streak), NEW e \in Reported
  PROVE  HistoryTrue(Terminal(h, e), failed, time, streak)
<1> DEFINE k == Terminal(h, e)
<1>1. CASE e.at < h.completed
  BY <1>1 DEF Terminal
<1>2. CASE ~(e.at < h.completed)
  <2>1. k = [h EXCEPT !.terminal = {e}] /\ {e} \in SUBSET Reported /\ h \in HistoryRows
    BY <1>2 DEF Terminal, HistoryTrue
  <2> HIDE DEF k
  <2>2. /\ k \in HistoryRows /\ k.completed = h.completed /\ k.seen = h.seen
        /\ k.failures = h.failures /\ k.cooling = h.cooling
    BY <2>1 DEF HistoryRows
  <2>3. HistoryTrue(k, failed, time, streak)
    BY <2>2 DEF HistoryTrue
  <2> QED
    BY <2>3 DEF k
<1> QED
  BY <1>1, <1>2

\* A failure that is new counts, and cools the account down when it is the last of enough.
LEMMA OverloadedTrue ==
  ASSUME Recoverable, NEW h, NEW failed \in SUBSET Reported, IsFiniteSet(failed),
         NEW time \in Nat, NEW streak \in Nat, Streak = streak,
         HistoryTrue(h, failed, time, streak), NEW e \in failed
  PROVE  HistoryTrue(Overloaded(h, e, time), failed, time, streak)
<1>1. CASE e.at < h.completed \/ e \in h.seen
  BY <1>1 DEF Overloaded
<1>2. CASE ~(e.at < h.completed \/ e \in h.seen)
  <2>0. h \in HistoryRows /\ h.completed \in Int /\ e.at \in Nat
    BY DEF HistoryTrue, HistoryRows, Reported
  <2> DEFINE failures == h.failures \cup {e}
             seen == h.seen \cup {e}
             left == IF Cardinality(failures) >= streak /\ h.cooling <= time
                     THEN time + Cooldown ELSE h.cooling
             k == Overloaded(h, e, time)
  <2>1. /\ failures \in SUBSET Reported /\ seen \in SUBSET Reported /\ left \in Int
    BY <2>0 DEF HistoryRows, Recoverable
  <2>2. k = [h EXCEPT !.seen = seen, !.failures = failures, !.cooling = left]
    BY <1>2 DEF Overloaded
  <2>3. failures \subseteq seen /\ seen \subseteq failed /\ \A f \in failures : f.at >= h.completed
    BY <1>2, <2>0 DEF HistoryTrue
  <2>4. left > time => Cardinality(failures) >= streak \/ h.cooling > time
    BY <2>0 DEF HistoryRows
  <2> HIDE DEF failures, seen, left, k
  <2>5. /\ k \in HistoryRows /\ k.completed = h.completed /\ k.seen = seen
        /\ k.failures = failures /\ k.cooling = left
    BY <2>0, <2>1, <2>2 DEF HistoryRows
  <2>6. ASSUME left > time PROVE Cardinality(Since(failed, h.completed)) >= streak
    <3>1. CASE h.cooling > time
      BY <3>1 DEF HistoryTrue
    <3>2. CASE Cardinality(failures) >= streak
      <4>1. /\ Since(failed, h.completed) \in SUBSET failed
            /\ failures \in SUBSET Since(failed, h.completed)
        BY <2>3 DEF Since
      <4>2. IsFiniteSet(Since(failed, h.completed))
        BY <4>1, FS_Subset
      <4>3. /\ IsFiniteSet(failures)
            /\ Cardinality(failures) <= Cardinality(Since(failed, h.completed))
        BY <4>1, <4>2, FS_Subset
      <4>4. Cardinality(failures) \in Nat /\ Cardinality(Since(failed, h.completed)) \in Nat
        BY <4>2, <4>3, FS_CardinalityType
      <4> QED
        BY <3>2, <4>3, <4>4
    <3> QED
      BY <2>4, <2>6, <3>1, <3>2
  <2>7. HistoryTrue(k, failed, time, streak)
    BY <2>3, <2>5, <2>6 DEF HistoryTrue
  <2> QED
    BY <2>7 DEF k
<1> QED
  BY <1>1, <1>2

\* Forgetting moves leaves fewer to count.
LEMMA WithinFewer ==
  ASSUME NEW some, NEW all, some \subseteq all, IsFiniteSet(all), NEW m, NEW limit \in Nat,
         Cardinality(Within(m, all)) <= limit
  PROVE  Cardinality(Within(m, some)) <= limit
<1>1. Within(m, all) \in SUBSET all /\ Within(m, some) \in SUBSET Within(m, all)
  BY DEF Within
<1>2. IsFiniteSet(Within(m, all))
  BY <1>1, FS_Subset
<1>3. /\ IsFiniteSet(Within(m, some))
      /\ Cardinality(Within(m, some)) <= Cardinality(Within(m, all))
  BY <1>1, <1>2, FS_Subset
<1>4. Cardinality(Within(m, some)) \in Nat /\ Cardinality(Within(m, all)) \in Nat
  BY <1>2, <1>3, FS_CardinalityType
<1> QED
  BY <1>3, <1>4

\* A charge is dropped when its hour is over, and no earlier.
LEMMA MovesRetained ==
  ASSUME Recoverable, NEW ms, NEW made, NEW s, NEW hour \in Nat, NEW ids, NEW limit \in Nat,
         MovesSound(ms, made, s, hour, ids, limit)
  PROVE  MovesSound(Retained(ms, hour), made, s, hour, ids, limit)
<1> DEFINE few == Retained(ms, hour)
<1>1. few \in SUBSET ms /\ \A m \in ms : hour - m.at < Retention => m \in few
  BY DEF Retained
<1>2. IsFiniteSet(ms) /\ IsFiniteSet(made)
  BY DEF MovesSound
<1> HIDE DEF few
<1>3. IsFiniteSet(few) /\ IsFiniteSet(ms \cup made)
  BY <1>1, <1>2, FS_Subset, FS_Union
<1>4. \A m \in few \cup made : Cardinality(Within(m, few \cup made)) <= limit
  <2> SUFFICES ASSUME NEW m \in few \cup made
               PROVE  Cardinality(Within(m, few \cup made)) <= limit
    OBVIOUS
  <2>1. few \cup made \subseteq ms \cup made /\ m \in ms \cup made
    BY <1>1
  <2>2. Cardinality(Within(m, ms \cup made)) <= limit
    BY <2>1 DEF MovesSound
  <2> QED
    BY <1>3, <2>1, <2>2, WithinFewer
<1>5. \A m \in made : hour - m.at < Retention => m \in few
  BY <1>1 DEF MovesSound
<1>6. /\ few \subseteq MoveRows /\ \A m \in few \cup made : m.at <= hour /\ m.stop < ids
      /\ \A m, n \in few : /\ m.stop = n.stop => m = n
                           /\ m.stop < n.stop => n.to \notin {m.from, m.to}
  BY <1>1 DEF MovesSound
<1>7. s.stop # Never =>
        /\ s.stop < ids
        /\ \A m \in few : m.stop <= s.stop /\ (m.stop = s.stop => m.from = s.on)
        /\ \A m \in made : m.stop # s.stop
  BY <1>1 DEF MovesSound
<1>8. made \subseteq MoveRows /\ \A m, n \in made : m.stop = n.stop => m = n
  BY DEF MovesSound
<1>9. MovesSound(few, made, s, hour, ids, limit)
  BY <1>2, <1>3, <1>4, <1>5, <1>6, <1>7, <1>8 DEF MovesSound
<1> QED
  BY <1>9 DEF few

\* Time passes.
LEMMA MovesLater ==
  ASSUME Recoverable, NEW ms, NEW made, NEW s, NEW hour \in Nat, NEW ids, NEW limit,
         MovesSound(ms, made, s, hour, ids, limit)
  PROVE  MovesSound(ms, made, s, hour + 1, ids, limit)
<1>1. \A m \in ms \cup made : m.at \in Nat /\ m.at <= hour
  BY DEF MovesSound, MoveRows
<1>2. \A m \in ms \cup made : m.at <= hour + 1
  BY <1>1
<1>3. \A m \in made : (hour + 1) - m.at < Retention => hour - m.at < Retention
  BY <1>1 DEF Recoverable
<1> QED
  BY <1>2, <1>3 DEF MovesSound

\* Something is reported of.
LEMMA MovesReported ==
  ASSUME NEW ms, NEW made, NEW s, s.stop \in Nat \cup {Never}, NEW hour, NEW ids \in Nat,
         NEW limit, MovesSound(ms, made, s, hour, ids, limit)
  PROVE  MovesSound(ms, made, s, hour, ids + 1, limit)
<1>1. \A m \in ms \cup made : m.stop \in Nat /\ m.stop < ids
  BY DEF MovesSound, MoveRows
<1>2. \A m \in ms \cup made : m.stop < ids + 1
  BY <1>1
<1>3. s.stop # Never => s.stop < ids + 1
  BY DEF MovesSound
<1> QED
  BY <1>2, <1>3 DEF MovesSound

\* A launcher asks about nothing: it starts anew, or was answered.
LEMMA MovesUnasked ==
  ASSUME NEW ms, NEW made, NEW s, NEW hour, NEW ids, NEW limit,
         MovesSound(ms, made, s, hour, ids, limit), NEW t, t.stop = Never
  PROVE  MovesSound(ms, made, t, hour, ids, limit)
  BY DEF MovesSound

\* A launcher asks about a new stop.
LEMMA MovesAsked ==
  ASSUME NEW ms, NEW made, NEW s, NEW hour, NEW ids \in Nat, NEW limit,
         MovesSound(ms, made, s, hour, ids, limit), NEW t, t.stop = ids
  PROVE  MovesSound(ms, made, t, hour, ids + 1, limit)
<1>1. \A m \in ms \cup made : m.stop \in Nat /\ m.stop < ids
  BY DEF MovesSound, MoveRows
<1>2. \A m \in ms \cup made : m.stop < ids + 1
  BY <1>1
<1>3. /\ t.stop < ids + 1 /\ \A m \in ms : m.stop <= t.stop /\ m.stop # t.stop
      /\ \A m \in made : m.stop # t.stop
  BY <1>1
<1> QED
  BY <1>2, <1>3 DEF MovesSound

\* A charged move is told.
LEMMA MoveTold ==
  ASSUME NEW ms, NEW made, NEW s, NEW hour, NEW ids, NEW limit,
         MovesSound(ms, made, s, hour, ids, limit), s.stop # Never,
         NEW m \in ms, m.stop = s.stop, NEW t, t.stop = Never
  PROVE  MovesSound(ms, made \cup {m}, t, hour, ids, limit)
<1> DEFINE told == made \cup {m}
<1>1. ms \cup told = ms \cup made /\ \A n \in told : n \in made \/ n = m
  OBVIOUS
<1>2. IsFiniteSet(told)
  BY FS_AddElement DEF MovesSound
<1>3. told \subseteq MoveRows /\ \A n \in made : n.stop # m.stop
  BY DEF MovesSound
<1> HIDE DEF told
<1>4. \A x, y \in told : x.stop = y.stop => x = y
  BY <1>1, <1>3 DEF MovesSound
<1>5. \A n \in told : hour - n.at < Retention => n \in ms
  BY <1>1 DEF MovesSound
<1>6. MovesSound(ms, told, t, hour, ids, limit)
  BY <1>1, <1>2, <1>3, <1>4, <1>5 DEF MovesSound
<1> QED
  BY <1>6 DEF told

\* A move is charged: the only one of its stop, to an account none of the hour was on,
\* within the limit.  Those that count against it are the charged ones.
LEMMA MoveCharged ==
  ASSUME Recoverable, NEW ms, NEW made, NEW s, NEW hour \in Nat, NEW ids, NEW limit \in Nat,
         MovesSound(ms, made, s, hour, ids, limit), s.stop \in Nat,
         \A m \in ms : hour - m.at < Retention /\ m.stop # s.stop,
         Cardinality(ms) < limit,
         NEW w \in MoveRows, w.at = hour, w.from = s.on, w.stop = s.stop,
         \A m \in ms : w.to \notin {m.from, m.to}
  PROVE  MovesSound(ms \cup {w}, made, s, hour, ids, limit)
<1> DEFINE more == ms \cup {w}
<1>0. s.stop # Never
  BY DEF Never
<1>1. IsFiniteSet(more) /\ Cardinality(more) <= limit /\ Cardinality(more) \in Nat
  <2>1. IsFiniteSet(ms)
    BY DEF MovesSound
  <2>2. Cardinality(ms) \in Nat
    BY <2>1, FS_CardinalityType
  <2>3. Cardinality(more) \in {Cardinality(ms), Cardinality(ms) + 1} /\ IsFiniteSet(more)
    BY <2>1, FS_AddElement
  <2> QED
    BY <2>2, <2>3
<1>2. \A m \in ms \cup made : m.at \in Nat /\ m.at <= hour
  BY DEF MovesSound, MoveRows
<1>3. \A m \in made : hour - m.at < Retention => m \in ms
  BY DEF MovesSound
<1>4. ASSUME NEW m \in more \cup made PROVE Cardinality(Within(m, more \cup made)) <= limit
  <2>1. CASE m \in ms \cup made /\ m.at < hour
    <3>1. Within(m, more \cup made) = Within(m, ms \cup made)
      BY <1>2, <2>1 DEF Within
    <3> QED
      BY <2>1, <3>1 DEF MovesSound
  <2>2. CASE m.at = hour
    <3>1. Within(m, more \cup made) \in SUBSET more
      <4> SUFFICES ASSUME NEW n \in made, hour - n.at < Retention PROVE n \in ms
        BY <2>2 DEF Within
      <4> QED
        BY <1>3
    <3> HIDE DEF more
    <3>2. /\ IsFiniteSet(Within(m, more \cup made))
          /\ Cardinality(Within(m, more \cup made)) <= Cardinality(more)
      BY <1>1, <3>1, FS_Subset
    <3>3. Cardinality(Within(m, more \cup made)) \in Nat
      BY <3>2, FS_CardinalityType
    <3> QED
      BY <1>1, <3>2, <3>3
  <2> QED
    BY <1>2, <2>1, <2>2
<1>5. \A m \in more : m \in ms \/ m = w
  OBVIOUS
<1>6. \A m \in ms : m.stop \in Nat /\ m.stop < s.stop
  BY <1>0 DEF MovesSound, MoveRows
<1>7. more \subseteq MoveRows
  BY DEF MovesSound
<1>8. ms \subseteq more
  OBVIOUS
<1> HIDE DEF more
<1>9. \A m, n \in more : /\ m.stop = n.stop => m = n
                         /\ m.stop < n.stop => n.to \notin {m.from, m.to}
  <2> SUFFICES ASSUME NEW m \in more, NEW n \in more
               PROVE  /\ m.stop = n.stop => m = n
                      /\ m.stop < n.stop => n.to \notin {m.from, m.to}
    OBVIOUS
  <2>1. CASE m \in ms /\ n \in ms
    BY <2>1 DEF MovesSound
  <2>2. CASE m \in ms /\ n = w
    BY <1>6, <2>2
  <2>3. CASE m = w /\ n \in ms
    <3>1. n.stop < m.stop /\ n.stop \in Nat /\ m.stop \in Nat
      BY <1>6, <2>3
    <3>2. ~(m.stop < n.stop) /\ m.stop # n.stop
      BY <3>1
    <3> QED
      BY <3>2
  <2>4. CASE m = w /\ n = w
    <3>1. m.stop \in Nat
      BY <2>4
    <3>2. ~(m.stop < n.stop)
      BY <2>4, <3>1
    <3> QED
      BY <2>4, <3>2
  <2> QED
    BY <1>5, <2>1, <2>2, <2>3, <2>4
<1>10. \A m \in more \cup made : m.at <= hour /\ m.stop < ids
  BY <1>0, <1>5 DEF MovesSound
<1>11. /\ s.stop < ids /\ \A m \in made : m.stop # s.stop
       /\ \A m \in more : m.stop <= s.stop /\ (m.stop = s.stop => m.from = s.on)
  BY <1>0, <1>5 DEF MovesSound
<1>12. /\ made \subseteq MoveRows /\ IsFiniteSet(made)
       /\ \A m, n \in made : m.stop = n.stop => m = n
       /\ \A m \in made : hour - m.at < Retention => m \in more
  BY <1>8 DEF MovesSound
<1>13. MovesSound(more, made, s, hour, ids, limit)
  BY <1>1, <1>4, <1>7, <1>9, <1>10, <1>11, <1>12 DEF MovesSound
<1> QED
  BY <1>13 DEF more

\* What the invariant says of the values a step uses.
LEMMA CapacityIs ==
  ASSUME CapacityInductive
  PROVE  /\ ticks \in Nat /\ Cardinality(reports) \in Nat /\ Streak \in Nat /\ MoveLimit \in Nat
         /\ session.on \in Accounts /\ session.tried \in SUBSET Accounts
         /\ session.stop \in Nat \cup {Never} /\ session.on \in session.tried
         /\ moves \in SUBSET MoveRows
         /\ \A a : FailedOf(a) \in SUBSET Reported /\ IsFiniteSet(FailedOf(a))
<1>1. Cardinality(reports) \in Nat
  BY FS_CardinalityType DEF CapacityInductive, CapacityTypes
<1>2. ASSUME NEW a PROVE FailedOf(a) \in SUBSET Reported /\ IsFiniteSet(FailedOf(a))
  <2>1. FailedOf(a) \in SUBSET reports
    BY DEF FailedOf
  <2>2. reports \subseteq Reported /\ IsFiniteSet(reports)
    BY DEF CapacityInductive, CapacityTypes
  <2> QED
    BY <2>1, <2>2, FS_Subset
<1>3. ticks \in Nat /\ Streak \in Nat /\ MoveLimit \in Nat
  BY DEF CapacityInductive, CapacityTypes, Budgets, Streak, MoveLimit
<1>4. /\ session.on \in Accounts /\ session.tried \in SUBSET Accounts
      /\ session.stop \in Nat \cup {Never} /\ session.on \in session.tried
  BY DEF CapacityInductive, CapacityTypes, Launchers
<1>5. moves \in SUBSET MoveRows
  BY DEF CapacityInductive, MovesSound
<1> QED
  BY <1>1, <1>2, <1>3, <1>4, <1>5

\* The histories stay true while more is reported and time passes.
LEMMA HistoriesLater ==
  ASSUME CapacityInductive, reports' \subseteq Reported, IsFiniteSet(reports'),
         reports \subseteq reports', ticks' \in Nat, ticks <= ticks', Streak' = Streak,
         NEW hs, AllTrue(hs)
  PROVE  \A a \in Accounts : HistoryTrue(hs[a], FailedOf(a)', ticks', Streak')
<1> SUFFICES ASSUME NEW a \in Accounts
             PROVE  HistoryTrue(hs[a], FailedOf(a)', ticks', Streak')
  OBVIOUS
<1>1. FailedOf(a) \subseteq FailedOf(a)' /\ FailedOf(a)' \in SUBSET reports'
  BY DEF FailedOf
<1>2. IsFiniteSet(FailedOf(a)') /\ FailedOf(a)' \in SUBSET Reported
  BY <1>1, FS_Subset
<1>3. HistoryTrue(hs[a], FailedOf(a), ticks, Streak) /\ ticks \in Nat /\ Streak \in Nat
  BY CapacityIs DEF AllTrue
<1>4. PICK few, more, time, later, streak :
        /\ few = FailedOf(a) /\ more = FailedOf(a)' /\ time = ticks /\ later = ticks'
        /\ streak = Streak
  OBVIOUS
<1>5. /\ few \subseteq more /\ more \in SUBSET Reported /\ IsFiniteSet(more) /\ time \in Nat
      /\ later \in Nat /\ streak \in Nat /\ time <= later
      /\ HistoryTrue(hs[a], few, time, streak)
  BY <1>1, <1>2, <1>3, <1>4
<1>6. HistoryTrue(hs[a], more, later, streak)
  BY <1>5, HistoryGrows
<1> QED
  BY <1>4, <1>6

\* Every operation reads the histories without what expired.
LEMMA AllKept ==
  ASSUME Recoverable, CapacityInductive
  PROVE  AllTrue(Histories(ticks)) /\ Histories(ticks) \in [Accounts -> HistoryRows]
<1>1. ASSUME NEW a \in Accounts
      PROVE  /\ HistoryTrue(Kept(histories[a], ticks), FailedOf(a), ticks, Streak)
             /\ Kept(histories[a], ticks) \in HistoryRows
  <2>1. HistoryTrue(histories[a], FailedOf(a), ticks, Streak)
    BY DEF CapacityInductive, AllTrue
  <2>2. HistoryTrue(Kept(histories[a], ticks), FailedOf(a), ticks, Streak)
    BY <2>1, CapacityIs, KeptTrue
  <2> QED
    BY <2>2 DEF HistoryTrue
<1>2. \A a \in Accounts : Histories(ticks)[a] = Kept(histories[a], ticks)
  BY DEF Histories
<1>3. Histories(ticks) \in [Accounts -> HistoryRows]
  BY <1>1 DEF Histories
<1> QED
  BY <1>1, <1>2, <1>3 DEF AllTrue

\* A client fails, completes or gives up.
LEMMA HappensKeeps ==
  ASSUME CapacityInductive, Happens PROVE CapacityInductive'
<1>1. PICK kind \in {"failed", "completed", "terminal"}, a \in Accounts :
        /\ reports' = reports \cup {[kind |-> kind, id |-> Cardinality(reports), of |-> a,
                                     at |-> ticks]}
        /\ kind = "terminal" =>
             session.stop = Never /\ session' = [session EXCEPT !.stop = Cardinality(reports)]
        /\ kind # "terminal" => session' = session
        /\ UNCHANGED <<ticks, histories, moves, backend, advised, limits>>
  BY DEF Happens
<1>2. PICK e : e = [kind |-> kind, id |-> Cardinality(reports), of |-> a, at |-> ticks]
  OBVIOUS
<1>3. e \in Reported /\ e.id = Cardinality(reports)
  BY <1>2, CapacityIs DEF Reported
<1>4. /\ reports \subseteq Reported /\ IsFiniteSet(reports)
      /\ \A x \in reports : x.id < Cardinality(reports)
  BY DEF CapacityInductive, CapacityTypes
<1>5. e \notin reports
  BY <1>3, <1>4, CapacityIs
<1>6. reports' = reports \cup {e}
  BY <1>1, <1>2
<1>7. IsFiniteSet(reports') /\ Cardinality(reports') = Cardinality(reports) + 1
  BY <1>4, <1>5, <1>6, FS_AddElement
<1>8. /\ reports' \subseteq Reported /\ reports \subseteq reports'
      /\ \A x \in reports' : x.id < Cardinality(reports')
  <2>1. \A x \in reports : x.id \in Nat
    BY <1>4 DEF Reported
  <2> QED
    BY <1>3, <1>4, <1>6, <1>7, <2>1, CapacityIs
<1>9. /\ session' \in Launchers /\ session'.on = session.on /\ session'.tried = session.tried
      /\ \/ session' = session
         \/ session.stop = Never /\ session'.stop = Cardinality(reports)
  <2>1. session \in Launchers
    BY DEF CapacityInductive, CapacityTypes
  <2>2. CASE kind = "terminal"
    BY <1>1, <2>1, <2>2, CapacityIs DEF Launchers
  <2>3. CASE kind # "terminal"
    BY <1>1, <2>1, <2>3
  <2> QED
    BY <2>2, <2>3
<1>10. UNCHANGED <<ticks, histories, moves, backend, advised, limits>>
  BY <1>1
<1>11. CapacityTypes'
  BY <1>7, <1>8, <1>9, <1>10, CapacityIs DEF CapacityInductive, CapacityTypes
<1>12. Streak' = Streak /\ MoveLimit' = MoveLimit /\ ticks <= ticks' /\ ticks' \in Nat
  BY <1>10, CapacityIs DEF Streak, MoveLimit
<1>13. AllTrue(histories)'
  BY <1>7, <1>8, <1>10, <1>12, HistoriesLater DEF CapacityInductive, AllTrue
<1>14. Pending'
  <2> SUFFICES ASSUME backend.busy
               PROVE  /\ backend'.write \in Planned /\ AllTrue(backend.write.histories)'
                      /\ session'.stop # Never /\ Move(backend.write.to)' \in moves'
    BY <1>10 DEF Pending
  <2>1. /\ backend.write \in Planned /\ AllTrue(backend.write.histories)
        /\ session.stop # Never /\ Move(backend.write.to) \in moves
    BY DEF CapacityInductive, Pending
  <2>2. session' = session
    BY <1>9, <2>1
  <2>3. Move(backend.write.to)' = Move(backend.write.to)
    BY <1>10, <2>2 DEF Move
  <2>4. AllTrue(backend.write.histories)'
    BY <1>7, <1>8, <1>10, <1>12, <2>1, HistoriesLater DEF AllTrue
  <2> QED
    BY <1>10, <2>1, <2>2, <2>3, <2>4
<1>15. MovesSound(moves, advised, session, ticks, Cardinality(reports), MoveLimit)
  BY DEF CapacityInductive
<1>16. MovesSound(moves, advised, session', ticks, Cardinality(reports) + 1, MoveLimit)
  <2>1. CASE session' = session
    BY <1>15, <2>1, CapacityIs, MovesReported
  <2>2. CASE session'.stop = Cardinality(reports)
    BY <1>15, <2>2, CapacityIs, MovesAsked
  <2> QED
    BY <1>9, <2>1, <2>2
<1>17. MovesSound(moves, advised, session, ticks, Cardinality(reports), MoveLimit)'
  BY <1>7, <1>10, <1>12, <1>16
<1> QED
  BY <1>11, <1>13, <1>14, <1>17 DEF CapacityInductive

\* A report arrives, for the first time or again.
LEMMA ReportKeeps ==
  ASSUME Recoverable, CapacityInductive, NEW e \in reports, Report(e) PROVE CapacityInductive'
<1>1. /\ ~backend.busy
      /\ histories' = [Histories(ticks) EXCEPT ![e.of] = Observed(@, e, ticks)]
      /\ UNCHANGED <<ticks, reports, moves, backend, session, advised, limits>>
  BY DEF Report, Free
<1>2. e \in Reported /\ e.of \in Accounts
  BY DEF CapacityInductive, CapacityTypes, Reported
<1>3. PICK hs : hs = Histories(ticks)
  OBVIOUS
<1>4. AllTrue(hs) /\ hs \in [Accounts -> HistoryRows]
  BY <1>3, AllKept
<1>5. PICK k : k = Observed(hs[e.of], e, ticks)
  OBVIOUS
<1>6. PICK failed, time, streak, h :
        failed = FailedOf(e.of) /\ time = ticks /\ streak = Streak /\ h = hs[e.of]
  OBVIOUS
<1>7. /\ failed \in SUBSET Reported /\ IsFiniteSet(failed) /\ time \in Nat /\ streak \in Nat
      /\ HistoryTrue(h, failed, time, streak) /\ Streak = streak
  BY <1>2, <1>4, <1>6, CapacityIs DEF AllTrue
<1>8. HistoryTrue(k, failed, time, streak)
  <2>1. CASE e.kind = "completed"
    <3>1. k = Completed(h, e)
      BY <1>5, <1>6, <2>1 DEF Observed
    <3> QED
      BY <1>2, <1>7, <3>1, CompletedTrue
  <2>2. CASE e.kind = "terminal"
    <3>1. k = Terminal(h, e)
      BY <1>5, <1>6, <2>2 DEF Observed
    <3> QED
      BY <1>2, <1>7, <3>1, TerminalTrue
  <2>3. CASE e.kind = "failed"
    <3>1. k = Overloaded(h, e, time)
      BY <1>5, <1>6, <2>3 DEF Observed
    <3>2. e \in failed
      BY <1>6, <2>3 DEF FailedOf
    <3> QED
      BY <1>2, <1>7, <3>1, <3>2, OverloadedTrue
  <2> QED
    BY <1>2, <2>1, <2>2, <2>3 DEF Reported
<1>9. histories' = [hs EXCEPT ![e.of] = k]
  BY <1>1, <1>3, <1>5
<1>10. k \in HistoryRows
  BY <1>8 DEF HistoryTrue
<1>11. histories' \in [Accounts -> HistoryRows]
  BY <1>4, <1>9, <1>10
<1>12. AllTrue(histories)'
  <2> SUFFICES ASSUME NEW a \in Accounts
               PROVE  HistoryTrue(histories'[a], FailedOf(a)', ticks', Streak')
    BY DEF AllTrue
  <2>1. FailedOf(a)' = FailedOf(a) /\ ticks' = ticks /\ Streak' = Streak
    BY <1>1 DEF FailedOf, Streak
  <2>2. CASE a = e.of
    BY <1>2, <1>4, <1>6, <1>8, <1>9, <2>1, <2>2
  <2>3. CASE a # e.of
    BY <1>4, <1>9, <2>1, <2>3 DEF AllTrue
  <2> QED
    BY <2>2, <2>3
<1>13. CapacityTypes'
  BY <1>1, <1>11 DEF CapacityInductive, CapacityTypes
<1>14. Pending'
  BY <1>1 DEF Pending
<1>15. MovesSound(moves, advised, session, ticks, Cardinality(reports), MoveLimit)'
  BY <1>1 DEF CapacityInductive, MoveLimit
<1> QED
  BY <1>12, <1>13, <1>14, <1>15 DEF CapacityInductive

\* A move that is charged is told, or the answer is lost.
LEMMA AnswerKeeps ==
  ASSUME CapacityInductive, NEW ms \in SUBSET MoveRows, NEW m \in ms,
         MovesSound(ms, advised, session, ticks, Cardinality(reports), MoveLimit),
         session.stop # Never, m.stop = session.stop, Answer(m) \/ NoAnswer
  PROVE  /\ session' \in Launchers /\ session'.on \in session'.tried
         /\ MovesSound(ms, advised', session', ticks, Cardinality(reports), MoveLimit)
<1>1. CASE NoAnswer
  BY <1>1 DEF NoAnswer, CapacityInductive, CapacityTypes
<1>2. CASE Answer(m)
  <2>1. m.to \in Accounts
    BY DEF MoveRows
  <2>2. /\ advised' = advised \cup {m}
        /\ session' = [on |-> m.to, tried |-> session.tried \cup {m.to}, stop |-> Never]
    BY <1>2 DEF Answer
  <2>3. session' \in Launchers /\ session'.on \in session'.tried /\ session'.stop = Never
    BY <2>1, <2>2, CapacityIs DEF Launchers
  <2>4. MovesSound(ms, advised \cup {m}, session', ticks, Cardinality(reports), MoveLimit)
    BY <2>3, MoveTold
  <2> QED
    BY <2>2, <2>3, <2>4
<1> QED
  BY <1>1, <1>2

\* The charged moves an operation starts from.
LEMMA MovesNow ==
  ASSUME Recoverable, CapacityInductive
  PROVE  /\ Retained(moves, ticks) \in SUBSET MoveRows
         /\ \A m \in Retained(moves, ticks) : ticks - m.at < Retention
         /\ MovesSound(Retained(moves, ticks), advised, session, ticks, Cardinality(reports),
                       MoveLimit)
<1>1. MovesSound(moves, advised, session, ticks, Cardinality(reports), MoveLimit)
  BY DEF CapacityInductive
<1>2. /\ Retained(moves, ticks) \in SUBSET MoveRows
      /\ \A m \in Retained(moves, ticks) : ticks - m.at < Retention
  BY CapacityIs DEF Retained
<1> QED
  BY <1>1, <1>2, CapacityIs, MovesRetained

\* A step that reports nothing, with histories that are true.
LEMMA StillTrue ==
  ASSUME NEW hs, AllTrue(hs), UNCHANGED <<ticks, reports>>, Streak' = Streak
  PROVE  \A a \in Accounts : HistoryTrue(hs[a], FailedOf(a)', ticks', Streak')
  BY DEF AllTrue, FailedOf

\* A launcher asks again about a stop that is charged.
LEMMA PlanAgainKeeps ==
  ASSUME Recoverable, CapacityInductive, PlanAgain PROVE CapacityInductive'
<1>1. PICK ms : ms = Retained(moves, ticks)
  OBVIOUS
<1>2. PICK m \in ms : m.stop = session.stop /\ (Answer(m) \/ NoAnswer)
  BY <1>1 DEF PlanAgain, Charged
<1>3. /\ ~backend.busy /\ session.stop # Never /\ histories' = Histories(ticks) /\ moves' = ms
      /\ UNCHANGED <<ticks, reports, backend, limits>>
  BY <1>1 DEF PlanAgain, Free
<1>4. /\ ms \in SUBSET MoveRows
      /\ MovesSound(ms, advised, session, ticks, Cardinality(reports), MoveLimit)
  BY <1>1, MovesNow
<1>5. /\ session' \in Launchers /\ session'.on \in session'.tried
      /\ MovesSound(ms, advised', session', ticks, Cardinality(reports), MoveLimit)
  BY <1>2, <1>3, <1>4, AnswerKeeps
<1>6. Streak' = Streak /\ MoveLimit' = MoveLimit
  BY <1>3 DEF Streak, MoveLimit
<1>7. CapacityTypes'
  BY <1>3, <1>5, AllKept DEF CapacityInductive, CapacityTypes
<1>8. AllTrue(histories)'
  BY <1>3, <1>6, AllKept, StillTrue DEF AllTrue
<1>9. Pending'
  BY <1>3 DEF Pending
<1>10. MovesSound(moves, advised, session, ticks, Cardinality(reports), MoveLimit)'
  BY <1>3, <1>5, <1>6
<1> QED
  BY <1>7, <1>8, <1>9, <1>10 DEF CapacityInductive

\* What a plan charges: a stop without a charge, within the limit, to a candidate.
LEMMA PlanCharged ==
  ASSUME Recoverable, CapacityInductive, session.stop # Never, Charged = {},
         BudgetLeft(Retained(moves, ticks)), NEW a \in Accounts, a \notin Excluded
  PROVE  /\ Move(a) \in MoveRows /\ Move(a).stop = session.stop
         /\ MovesSound(Retained(moves, ticks) \cup {Move(a)}, advised, session, ticks,
                       Cardinality(reports), MoveLimit)
<1>1. PICK ms, w : ms = Retained(moves, ticks) /\ w = Move(a)
  OBVIOUS
<1>2. /\ w \in MoveRows /\ w.at = ticks /\ w.from = session.on /\ w.stop = session.stop
      /\ w.to = a
  BY <1>1, CapacityIs DEF Move, MoveRows
<1>3. /\ MovesSound(ms, advised, session, ticks, Cardinality(reports), MoveLimit)
      /\ \A m \in ms : ticks - m.at < Retention
  BY <1>1, MovesNow
<1>4. \A m \in ms : m.stop # session.stop
  BY <1>1, <1>3 DEF MovesSound, Charged
<1>5. \A m \in ms : a \notin {m.from, m.to}
  BY <1>1 DEF Excluded
<1>6. Cardinality(ms) < MoveLimit
  BY <1>1 DEF BudgetLeft
<1>7. session.stop \in Nat
  BY CapacityIs
<1>8. MovesSound(ms \cup {w}, advised, session, ticks, Cardinality(reports), MoveLimit)
  BY <1>2, <1>3, <1>4, <1>5, <1>6, <1>7, CapacityIs, MoveCharged
<1> QED
  BY <1>1, <1>2, <1>8

\* A plan charges a move and writes it: at once, or the budget before the histories.
LEMMA PlanMoveKeeps ==
  ASSUME Recoverable, CapacityInductive, PlanMove PROVE CapacityInductive'
<1>1. PICK hs, ms : hs = Histories(ticks) /\ ms = Retained(moves, ticks)
  OBVIOUS
<1>2. PICK a \in Accounts :
        /\ a \notin Excluded /\ moves' = ms \cup {Move(a)}
        /\ \/ /\ backend' = [backend EXCEPT !.busy = TRUE,
                                            !.write = [histories |-> hs, to |-> a]]
              /\ UNCHANGED histories /\ NoAnswer
           \/ histories' = hs /\ UNCHANGED backend /\ (Answer(Move(a)) \/ NoAnswer)
  BY <1>1 DEF PlanMove, Candidates
<1>3. /\ ~backend.busy /\ session.stop # Never /\ Charged = {} /\ BudgetLeft(ms)
      /\ UNCHANGED <<ticks, reports, limits>>
  BY <1>1 DEF PlanMove, Free
<1>4. PICK w : w = Move(a)
  OBVIOUS
<1>5. PICK more : more = ms \cup {w}
  OBVIOUS
<1>6. /\ w \in MoveRows /\ w.stop = session.stop /\ w \in more /\ moves' = more
      /\ MovesSound(more, advised, session, ticks, Cardinality(reports), MoveLimit)
  BY <1>1, <1>2, <1>3, <1>4, <1>5, PlanCharged
<1>7. more \in SUBSET MoveRows
  BY <1>6 DEF MovesSound
<1>8. AllTrue(hs) /\ hs \in [Accounts -> HistoryRows]
  BY <1>1, AllKept
<1>9. Streak' = Streak /\ MoveLimit' = MoveLimit
  BY <1>3 DEF Streak, MoveLimit
<1>10. \A a1 \in Accounts : HistoryTrue(hs[a1], FailedOf(a1)', ticks', Streak')
  BY <1>3, <1>8, <1>9, StillTrue
<1>11. CASE /\ backend' = [backend EXCEPT !.busy = TRUE, !.write = [histories |-> hs, to |-> a]]
            /\ UNCHANGED histories /\ NoAnswer
  <2>1. PICK write : write = [histories |-> hs, to |-> a]
    OBVIOUS
  <2>2. write \in Planned /\ write.histories = hs /\ write.to = a
    BY <1>8, <2>1 DEF Planned
  <2>3. backend' = [backend EXCEPT !.busy = TRUE, !.write = write]
    BY <1>11, <2>1
  <2>4. backend' \in Backends /\ backend'.write = write
    BY <2>2, <2>3 DEF CapacityInductive, CapacityTypes, Backends
  <2>5. UNCHANGED <<histories, advised, session>>
    BY <1>11 DEF NoAnswer
  <2>6. CapacityTypes'
    BY <1>3, <2>4, <2>5 DEF CapacityInductive, CapacityTypes
  <2>7. AllTrue(histories)'
    BY <1>3, <1>9, <2>5, StillTrue DEF AllTrue, CapacityInductive
  <2>8. Move(backend.write.to)' = w
    BY <1>3, <1>4, <2>2, <2>4, <2>5 DEF Move
  <2>9. AllTrue(backend.write.histories)'
    BY <1>10, <2>2, <2>4 DEF AllTrue
  <2>10. Pending'
    BY <1>3, <1>6, <2>2, <2>4, <2>5, <2>8, <2>9 DEF Pending
  <2>11. MovesSound(moves, advised, session, ticks, Cardinality(reports), MoveLimit)'
    BY <1>3, <1>6, <1>9, <2>5
  <2> QED
    BY <2>6, <2>7, <2>10, <2>11 DEF CapacityInductive
<1>12. CASE histories' = hs /\ UNCHANGED backend /\ (Answer(Move(a)) \/ NoAnswer)
  <2>1. /\ session' \in Launchers /\ session'.on \in session'.tried
        /\ MovesSound(more, advised', session', ticks, Cardinality(reports), MoveLimit)
    BY <1>3, <1>4, <1>6, <1>7, <1>12, AnswerKeeps
  <2>2. CapacityTypes'
    BY <1>3, <1>8, <1>12, <2>1 DEF CapacityInductive, CapacityTypes
  <2>3. AllTrue(histories)'
    BY <1>10, <1>12 DEF AllTrue
  <2>4. Pending'
    BY <1>3, <1>12 DEF Pending
  <2>5. MovesSound(moves, advised, session, ticks, Cardinality(reports), MoveLimit)'
    BY <1>3, <1>6, <1>9, <2>1
  <2> QED
    BY <2>2, <2>3, <2>4, <2>5 DEF CapacityInductive
<1> QED
  BY <1>2, <1>11, <1>12

\* The histories are written after the budget.
LEMMA FinishWriteKeeps ==
  ASSUME CapacityInductive, FinishWrite PROVE CapacityInductive'
<1>1. /\ backend.busy /\ histories' = backend.write.histories
      /\ backend' = [backend EXCEPT !.busy = FALSE, !.write = NoWrite]
      /\ UNCHANGED <<ticks, reports, moves, limits>>
  BY DEF FinishWrite
<1>2. /\ backend.write \in Planned /\ AllTrue(backend.write.histories)
      /\ session.stop # Never /\ Move(backend.write.to) \in moves
  BY <1>1 DEF CapacityInductive, Pending
<1>3. PICK w, hs : w = Move(backend.write.to) /\ hs = backend.write.histories
  OBVIOUS
<1>4. w \in moves /\ w.stop = session.stop /\ (Answer(w) \/ NoAnswer)
  <2>1. Answer(w) \/ NoAnswer
    BY <1>3 DEF FinishWrite
  <2> QED
    BY <1>2, <1>3, <2>1 DEF Move
<1>5. /\ session' \in Launchers /\ session'.on \in session'.tried
      /\ MovesSound(moves, advised', session', ticks, Cardinality(reports), MoveLimit)
  <2>1. PICK ms : ms = moves
    OBVIOUS
  <2>2. MovesSound(ms, advised, session, ticks, Cardinality(reports), MoveLimit)
    BY <2>1 DEF CapacityInductive
  <2>3. /\ session' \in Launchers /\ session'.on \in session'.tried
        /\ MovesSound(ms, advised', session', ticks, Cardinality(reports), MoveLimit)
    BY <1>2, <1>4, <2>1, <2>2, CapacityIs, AnswerKeeps
  <2> QED
    BY <2>1, <2>3
<1>6. Streak' = Streak /\ MoveLimit' = MoveLimit
  BY <1>1 DEF Streak, MoveLimit
<1>7. backend' \in Backends /\ ~backend'.busy
  BY <1>1 DEF CapacityInductive, CapacityTypes, Backends
<1>8. hs \in [Accounts -> HistoryRows] /\ histories' = hs /\ AllTrue(hs)
  BY <1>1, <1>2, <1>3 DEF Planned
<1>9. CapacityTypes'
  BY <1>1, <1>5, <1>7, <1>8 DEF CapacityInductive, CapacityTypes
<1>10. AllTrue(histories)'
  BY <1>1, <1>6, <1>8, StillTrue DEF AllTrue
<1>11. Pending'
  BY <1>7 DEF Pending
<1>12. MovesSound(moves, advised, session, ticks, Cardinality(reports), MoveLimit)'
  BY <1>1, <1>5, <1>6
<1> QED
  BY <1>9, <1>10, <1>11, <1>12 DEF CapacityInductive

\* The server dies, a launcher starts anew, or time passes.
LEMMA RestKeeps ==
  ASSUME Recoverable, CapacityInductive, Die \/ Resume \/ Advance PROVE CapacityInductive'
<1>1. CASE Die
  <2>1. /\ backend' = [backend EXCEPT !.busy = FALSE, !.write = NoWrite, !.deaths = @ - 1]
        /\ UNCHANGED <<ticks, reports, histories, moves, session, advised, limits>>
    BY <1>1 DEF Die
  <2>2. backend' \in Backends /\ ~backend'.busy
    <3>1. PICK left, write : left = backend.deaths - 1 /\ write = NoWrite
      OBVIOUS
    <3>2. backend \in Backends
      BY DEF CapacityInductive, CapacityTypes
    <3>3. left \in Int /\ write \in Planned \cup {NoWrite}
      BY <3>1, <3>2 DEF Backends
    <3>4. backend' = [backend EXCEPT !.busy = FALSE, !.write = write, !.deaths = left]
      BY <2>1, <3>1
    <3> QED
      BY <3>2, <3>3, <3>4 DEF Backends
  <2>3. Streak' = Streak /\ MoveLimit' = MoveLimit
    BY <2>1 DEF Streak, MoveLimit
  <2>4. CapacityTypes'
    BY <2>1, <2>2 DEF CapacityInductive, CapacityTypes
  <2>5. AllTrue(histories)'
    BY <2>1, <2>3, StillTrue DEF CapacityInductive, AllTrue
  <2>6. Pending'
    BY <2>2 DEF Pending
  <2>7. MovesSound(moves, advised, session, ticks, Cardinality(reports), MoveLimit)'
    BY <2>1, <2>3 DEF CapacityInductive
  <2> QED
    BY <2>4, <2>5, <2>6, <2>7 DEF CapacityInductive
<1>2. CASE Resume
  <2>1. PICK a \in Accounts : session' = [on |-> a, tried |-> {a}, stop |-> Never]
    BY <1>2 DEF Resume
  <2>2. /\ ~backend.busy /\ limits' = [limits EXCEPT !.resumes = @ - 1]
        /\ UNCHANGED <<ticks, reports, histories, moves, backend, advised>>
    BY <1>2 DEF Resume, Free
  <2>3. session' \in Launchers /\ session'.on \in session'.tried /\ session'.stop = Never
    BY <2>1 DEF Launchers
  <2>4. limits' \in Budgets /\ Streak' = Streak /\ MoveLimit' = MoveLimit
    BY <2>2 DEF CapacityInductive, CapacityTypes, Budgets, Streak, MoveLimit
  <2>5. CapacityTypes'
    BY <2>2, <2>3, <2>4 DEF CapacityInductive, CapacityTypes
  <2>6. AllTrue(histories)'
    BY <2>2, <2>4, StillTrue DEF CapacityInductive, AllTrue
  <2>7. Pending'
    BY <2>2 DEF Pending
  <2>8. MovesSound(moves, advised, session', ticks, Cardinality(reports), MoveLimit)
    BY <2>3, MovesUnasked DEF CapacityInductive
  <2>9. MovesSound(moves, advised, session, ticks, Cardinality(reports), MoveLimit)'
    BY <2>2, <2>4, <2>8
  <2> QED
    BY <2>5, <2>6, <2>7, <2>9 DEF CapacityInductive
<1>3. CASE Advance
  <2>1. /\ ~backend.busy /\ ticks' = ticks + 1
        /\ UNCHANGED <<reports, histories, moves, backend, session, advised, limits>>
    BY <1>3 DEF Advance, Free
  <2>2. ticks' \in Nat /\ ticks <= ticks' /\ Streak' = Streak /\ MoveLimit' = MoveLimit
    BY <2>1, CapacityIs DEF Streak, MoveLimit
  <2>3. CapacityTypes'
    BY <2>1, <2>2 DEF CapacityInductive, CapacityTypes
  <2>4. reports' \subseteq Reported /\ IsFiniteSet(reports') /\ reports \subseteq reports'
    BY <2>1 DEF CapacityInductive, CapacityTypes
  <2>5. AllTrue(histories)'
    BY <2>1, <2>2, <2>4, HistoriesLater DEF CapacityInductive, AllTrue
  <2>6. Pending'
    BY <2>1 DEF Pending
  <2>7. MovesSound(moves, advised, session, ticks + 1, Cardinality(reports), MoveLimit)
    BY CapacityIs, MovesLater DEF CapacityInductive
  <2>8. MovesSound(moves, advised, session, ticks, Cardinality(reports), MoveLimit)'
    BY <2>1, <2>2, <2>7
  <2> QED
    BY <2>3, <2>5, <2>6, <2>8 DEF CapacityInductive
<1> QED
  BY <1>1, <1>2, <1>3

LEMMA CapacityInitHolds ==
  ASSUME Recoverable, CapacityInit PROVE CapacityInductive
<1>1. /\ ticks = 1 /\ reports = {} /\ moves = {} /\ advised = {} /\ limits \in Budgets
      /\ histories = [a \in Accounts |-> NoHistory]
      /\ session = [on |-> limits.on, tried |-> {limits.on}, stop |-> Never]
  BY DEF CapacityInit, Recoverable
<1>2. Streak \in Nat /\ MoveLimit \in Nat /\ limits.on \in Accounts
  BY <1>1 DEF Budgets, Streak, MoveLimit
<1>3. backend \in Backends /\ ~backend.busy
  <2>1. PICK mode \in {"file", "postgres"} :
          backend = [mode |-> mode, busy |-> FALSE, write |-> NoWrite, deaths |-> limits.deaths]
    BY DEF CapacityInit
  <2>2. limits.deaths \in Int
    BY <1>1 DEF Budgets
  <2> QED
    BY <2>1, <2>2 DEF Backends
<1>4. AllTrue(histories)
  <2> SUFFICES ASSUME NEW a \in Accounts
               PROVE  HistoryTrue(NoHistory, FailedOf(a), ticks, Streak)
    BY <1>1 DEF AllTrue
  <2> QED
    BY <1>1, <1>2, NoHistoryTrue
<1>5. session \in Launchers /\ session.on \in session.tried /\ session.stop = Never
  BY <1>1, <1>2 DEF Launchers
<1>6. histories \in [Accounts -> HistoryRows]
  <2>1. NoHistory \in HistoryRows
    BY DEF NoHistory, HistoryRows, Never
  <2> QED
    BY <1>1, <2>1
<1>7. IsFiniteSet({})
  BY FS_EmptySet
<1>8. CapacityTypes
  BY <1>1, <1>3, <1>5, <1>6, <1>7 DEF CapacityTypes
<1>9. MovesSound(moves, advised, session, ticks, Cardinality(reports), MoveLimit)
  BY <1>1, <1>5, <1>7 DEF MovesSound
<1> QED
  BY <1>3, <1>4, <1>8, <1>9 DEF CapacityInductive, Pending

LEMMA CapacityNextKeeps ==
  ASSUME Recoverable, CapacityInductive, [CapacityNext]_capacityVars PROVE CapacityInductive'
<1>1. CASE UNCHANGED capacityVars
  <2>1. UNCHANGED <<ticks, reports, histories, moves, backend, session, advised, limits>>
    BY <1>1 DEF capacityVars
  <2>2. Streak' = Streak /\ MoveLimit' = MoveLimit
    BY <2>1 DEF Streak, MoveLimit
  <2>3. CapacityTypes'
    BY <2>1 DEF CapacityInductive, CapacityTypes
  <2>4. AllTrue(histories)'
    BY <2>1, <2>2, StillTrue DEF CapacityInductive, AllTrue
  <2>5. MovesSound(moves, advised, session, ticks, Cardinality(reports), MoveLimit)'
    BY <2>1, <2>2 DEF CapacityInductive
  <2>6. Pending'
    <3> SUFFICES ASSUME backend.busy PROVE Pending'
      BY <2>1 DEF Pending
    <3>1. /\ backend.write \in Planned /\ AllTrue(backend.write.histories)
          /\ session.stop # Never /\ Move(backend.write.to) \in moves
      BY DEF CapacityInductive, Pending
    <3>2. Move(backend.write.to)' = Move(backend.write.to)
      BY <2>1 DEF Move
    <3>3. AllTrue(backend.write.histories)'
      BY <2>1, <2>2, <3>1, StillTrue DEF AllTrue
    <3> QED
      BY <2>1, <3>1, <3>2, <3>3 DEF Pending
  <2> QED
    BY <2>3, <2>4, <2>5, <2>6 DEF CapacityInductive
<1>2. CASE CapacityNext
  BY <1>2, HappensKeeps, ReportKeeps, PlanAgainKeeps, PlanMoveKeeps, FinishWriteKeeps, RestKeeps
     DEF CapacityNext
<1> QED
  BY <1>1, <1>2

LEMMA CapacityImplies ==
  ASSUME Recoverable, CapacityInductive PROVE CapacityIInv
<1>1. MovesSound(moves, advised, session, ticks, Cardinality(reports), MoveLimit)
  BY DEF CapacityInductive
<1>2. CapacityTypeOK
  <2>1. \A a \in Accounts : HistoryTrue(histories[a], FailedOf(a), ticks, Streak)
    BY DEF CapacityInductive, AllTrue
  <2>2. \A a \in Accounts : FailedOf(a) = {e \in Of("failed") : e.of = a}
    BY DEF FailedOf, Of
  <2>3. \A a \in Accounts : histories[a].failures \subseteq histories[a].seen
                            /\ histories[a].seen \subseteq {e \in Of("failed") : e.of = a}
    BY <2>1, <2>2 DEF HistoryTrue
  <2>4. \A m \in advised : m.from \in Accounts /\ m.to \in Accounts
    BY <1>1 DEF MovesSound, MoveRows
  <2> QED
    BY <2>3, <2>4, CapacityIs DEF CapacityTypeOK
<1>3. MovesBounded
  <2> SUFFICES ASSUME NEW m \in advised PROVE Cardinality(Within(m, advised)) <= MoveLimit
    BY DEF MovesBounded, Within
  <2>1. Cardinality(Within(m, moves \cup advised)) <= MoveLimit
    BY <1>1 DEF MovesSound
  <2>2. IsFiniteSet(moves \cup advised) /\ advised \subseteq moves \cup advised
    BY <1>1, FS_Union DEF MovesSound
  <2> QED
    BY <2>1, <2>2, CapacityIs, WithinFewer
<1>4. MovesCharged
  BY <1>1 DEF MovesSound, MovesCharged
<1>5. OneAnswer /\ NoReturn
  BY <1>1 DEF MovesSound, OneAnswer, NoReturn
<1>6. CoolingJustified
  <2> SUFFICES ASSUME NEW a \in Accounts, histories[a].cooling > ticks
               PROVE  Cardinality({e \in Of("failed") :
                                     e.of = a /\ e.at >= histories[a].completed}) >= Streak
    BY DEF CoolingJustified
  <2>1. Cardinality(Since(FailedOf(a), histories[a].completed)) >= Streak
    BY DEF CapacityInductive, AllTrue, HistoryTrue
  <2>2. Since(FailedOf(a), histories[a].completed) =
          {e \in Of("failed") : e.of = a /\ e.at >= histories[a].completed}
    BY DEF Since, FailedOf, Of
  <2> QED
    BY <2>1, <2>2
<1> QED
  BY <1>2, <1>3, <1>4, <1>5, <1>6 DEF CapacityIInv

\* A session moves at most so often in an hour, each stop is answered once and its answer
\* stays charged, the session does not come back to what it left, and an account cools down
\* only for enough failures after its last success: whatever is reported late or twice,
\* whatever answers are lost, and wherever the server dies (capacity.rs, storage/capacity.rs).
THEOREM CapacityInvariant == ASSUME Recoverable PROVE CapacitySpec => []CapacityIInv
<1>1. CapacityInit => CapacityInductive
  BY CapacityInitHolds
<1>2. CapacityInductive /\ [CapacityNext]_capacityVars => CapacityInductive'
  BY CapacityNextKeeps
<1>3. CapacityInductive => CapacityIInv
  BY CapacityImplies
<1> QED
  BY <1>1, <1>2, <1>3, PTL DEF CapacitySpec
=============================================================================
