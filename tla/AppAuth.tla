------------------------------ MODULE AppAuth ------------------------------
(***************************************************************************)
(* The desktop app's login pinned to a server account                      *)
(* (src/src/central/native/app_auth.rs): auth.json is written from the     *)
(* server's tokens, and a journal of digests tells app-auth's own file     *)
(* from a login.  The login it replaces is kept aside and put back.        *)
(*                                                                         *)
(* Codex and the app write auth.json without any lock.  A command may die  *)
(* between any two writes, and a write may fail before or after it took    *)
(* effect.  A digest stands for the content: its stamp makes every file of *)
(* app-auth a new one.                                                     *)
(***************************************************************************)
EXTENDS Naturals, FiniteSets

CONSTANTS
  Accounts,   \* server accounts
  Logins,     \* logins of the app
  HeldLogins, \* those in a workspace the server also holds
  Commands, None,
  AppPlans    \* a behaviour: [of: [Commands -> sets of roles], crashes, faults,
              \* moves: writes of the app, changes: of the server] (bounds)

VARIABLES
  file,     \* auth.json
  journal,  \* state.json: [account, written, pending, approved, origin]
  backup, kept,
  agent,    \* whether the refresh agent is installed
  provider, \* whether the server provider is active
  service,  \* the server's token of each account: its login, revision, billing
  locks,    \* app-auth.lock, native.lock and the store's lock
  at, my,   \* the commands: [token, journal, allow, raced]
  plan,
  past      \* history: [replaced, consent, pinned, unconfirmed]

appVars == <<file, journal, backup, kept, agent, provider, service, locks, at, my, plan, past>>

Roles == {"enable", "refresh", "disable", "use", "switch"}
Stamps == 0..3
NoFile == [by |-> "nobody"]
Login(id, n) == [by |-> "login", id |-> id, n |-> n]
Ours(account, token, stamp) ==
  [by |-> "app-auth", account |-> account, token |-> token, stamp |-> stamp]
AtRest == [token |-> None, journal |-> None, allow |-> FALSE, raced |-> FALSE]

AppInit ==
  /\ file \in {NoFile} \cup {Login(id, 0) : id \in Logins}
  /\ journal = None /\ backup = NoFile /\ kept = {} /\ agent = FALSE /\ provider = FALSE
  /\ service \in [Accounts -> {[login |-> 1, rev |-> 0, bills |-> b] : b \in BOOLEAN}]
  /\ locks = [app |-> None, native |-> None, store |-> None]
  /\ at = [c \in Commands |-> "start"] /\ my = [c \in Commands |-> AtRest]
  /\ plan \in AppPlans
  /\ past = [replaced |-> {}, consent |-> {}, pinned |-> None, unconfirmed |-> FALSE]

---------------------------------------------------------------------------
Goto(c, place) == at' = [at EXCEPT ![c] = place]
Release(c) == [x \in DOMAIN locks |-> IF locks[x] = c THEN None ELSE locks[x]]
Over(c) == Goto(c, "start") /\ my' = [my EXCEPT ![c] = AtRest] /\ locks' = Release(c)
Disk == <<file, journal, backup, kept, agent, provider>>
Quits(c) == Over(c) /\ UNCHANGED <<Disk, service, plan, past>>

Begin(c, role) ==
  /\ at[c] = "start" /\ role \in plan.of[c]
  /\ plan' = [plan EXCEPT !.of[c] = @ \ {role}]
  /\ IF role \in {"enable", "refresh", "disable"}
     THEN locks.app = None /\ locks' = [locks EXCEPT !.app = c]
     ELSE UNCHANGED locks
  /\ Goto(c, role)
  /\ UNCHANGED <<Disk, service, my, past>>

\* file_state, of a journal on disk or in memory.
FileState(j) ==
  CASE file = NoFile -> "missing"
    [] file.by = "app-auth" /\ file \in {j.written, j.pending} -> "ours"
    [] OTHER -> "foreign"
Preconditions == ~provider /\ (journal # None => FileState(journal) # "foreign")

\* server_token
Usable(token, approved) == token.bills => approved

EnableFetch(c) ==
  /\ at[c] = "enable"
  /\ \E a \in Accounts, allow \in BOOLEAN :
       IF Preconditions /\ Usable(service[a], allow)
       THEN /\ my' = [my EXCEPT ![c].token = service[a], ![c].allow = allow,
                                ![c].journal = [account |-> a]]
            /\ Goto(c, "locks")
            /\ past' = [past EXCEPT !.consent = @ \cup {x \in {a} : allow}]
            /\ UNCHANGED locks
       ELSE Over(c) /\ UNCHANGED past
  /\ UNCHANGED <<Disk, service, plan>>

EnableNative(c) ==
  /\ at[c] = "locks" /\ locks.native = None
  /\ locks' = [locks EXCEPT !.native = c] /\ Goto(c, "check")
  /\ UNCHANGED <<Disk, service, my, plan, past>>

\* Mutated form: the journal's own digest is carried over, whatever is on disk.
CarriedWritten == journal.written
\* previous_written: the digest that names the file on disk.
Carried == IF FileState(journal) = "ours" THEN file ELSE journal.written

Journal(c, written, origin) ==
  [account |-> my[c].journal.account, written |-> written, pending |-> None,
   approved |-> my[c].allow /\ my[c].token.bills, origin |-> origin]

\* The preconditions again under the locks that every other writer takes.
EnableCheck(c) ==
  /\ at[c] = "check"
  /\ IF locks.store # None \/ ~Preconditions THEN Over(c)
     ELSE /\ locks' = [locks EXCEPT !.store = c]
          /\ IF journal # None
             THEN /\ my' = [my EXCEPT ![c].journal = Journal(c, Carried, journal.origin)]
                  /\ Goto(c, "journal")
             ELSE UNCHANGED my /\ Goto(c, IF file = NoFile THEN "backed up"
                                          ELSE IF backup = NoFile THEN "back up" ELSE "set aside")
  /\ UNCHANGED <<Disk, service, plan, past>>

\* back_up_login: an earlier backup gets a name of its own.
SetAside(c) ==
  /\ at[c] = "set aside"
  /\ kept' = kept \cup {backup} /\ backup' = NoFile
  /\ Goto(c, "back up")
  /\ UNCHANGED <<file, journal, agent, provider, service, locks, my, plan, past>>
BackUp(c) ==
  /\ at[c] = "back up"
  /\ backup' = file /\ Goto(c, "backed up")
  /\ my' = [my EXCEPT ![c].raced = FALSE]
  /\ UNCHANGED <<file, journal, kept, agent, provider, service, locks, plan, past>>
BackedUp(c) ==
  /\ at[c] = "backed up"
  /\ my' = [my EXCEPT ![c].journal =
              Journal(c, None, IF backup.by = "login" THEN backup.id ELSE None)]
  /\ Goto(c, "journal")
  /\ UNCHANGED <<Disk, service, locks, plan, past>>

---------------------------------------------------------------------------
RefreshFetch(c) ==
  /\ at[c] = "refresh"
  /\ IF journal # None /\ FileState(journal) = "ours"
        /\ Usable(service[journal.account], journal.approved)
     THEN /\ my' = [my EXCEPT ![c].token = service[journal.account], ![c].journal = journal]
          /\ Goto(c, "compare") /\ UNCHANGED locks
     ELSE Over(c)
  /\ UNCHANGED <<Disk, service, plan, past>>
\* The same login by what both tokens state, and still app-auth's file.
SameLogin(token) == token.login = file.token.login
RefreshCompare(c) ==
  /\ at[c] = "compare"
  /\ IF FileState(journal) = "ours" /\ file.token # my[c].token /\ SameLogin(my[c].token)
     THEN Goto(c, "journal") /\ my' = [my EXCEPT ![c].raced = FALSE] /\ UNCHANGED locks
     ELSE Over(c)
  /\ UNCHANGED <<Disk, service, plan, past>>

---------------------------------------------------------------------------
(* write_auth: the digest goes to the journal before the file is written.  *)

Faults(n) == plan.faults >= n /\ plan' = [plan EXCEPT !.faults = @ - n]
NewStamp(j) ==
  CHOOSE n \in Stamps : \A x \in {file, j.written, j.pending} \ {None} :
    x.by = "app-auth" => x.stamp # n
Pending(c) ==
  LET j == my[c].journal
  IN  [j EXCEPT !.pending = Ours(j.account, my[c].token, NewStamp(j))]
Written(j) == [j EXCEPT !.written = j.pending, !.pending = None]

\* A refresh that failed records the journal it has in memory once more.
Fails(c) == IF locks.store = c THEN Over(c) ELSE Goto(c, "record") /\ UNCHANGED <<my, locks>>

WriteJournal(c) ==
  /\ at[c] = "journal"
  /\ LET j == Pending(c)
     IN  /\ \/ /\ journal' = j /\ UNCHANGED plan
               /\ Goto(c, "write") /\ my' = [my EXCEPT ![c].journal = j] /\ UNCHANGED locks
            \/ /\ Faults(1) /\ journal' \in {journal, j}
               /\ IF locks.store = c THEN Over(c)
                  ELSE Goto(c, "record") /\ my' = [my EXCEPT ![c].journal = j] /\ UNCHANGED locks
         /\ past' = [past EXCEPT !.unconfirmed =
                       @ \/ (locks.store # c /\ file # j.written)]
  /\ UNCHANGED <<file, backup, kept, agent, provider, service>>

WriteFile(c) ==
  /\ at[c] = "write"
  /\ LET new == my[c].journal.pending
     IN  /\ \/ file' = new /\ Goto(c, "confirm") /\ UNCHANGED <<plan, my, locks>>
            \/ Faults(1) /\ file' \in {file, new} /\ Fails(c)
         /\ past' = IF file' = file THEN past
                    ELSE [past EXCEPT !.pinned = <<new.account, new.token.login>>,
                            !.replaced = @ \cup {x \in {file} : x.by = "login" /\ ~my[c].raced}]
  /\ UNCHANGED <<journal, backup, kept, agent, provider, service>>

Confirm(c) ==
  /\ at[c] = "confirm"
  /\ LET j == Written(my[c].journal)
     IN  \/ /\ journal' = j /\ UNCHANGED plan
            /\ IF locks.store = c THEN Goto(c, "agent") /\ UNCHANGED <<my, locks>> ELSE Over(c)
         \/ /\ Faults(1) /\ journal' \in {journal, j}
            /\ IF locks.store = c THEN Over(c)
               ELSE Goto(c, "record") /\ my' = [my EXCEPT ![c].journal = j] /\ UNCHANGED locks
  /\ UNCHANGED <<file, backup, kept, agent, provider, service, past>>

Record(c) ==
  /\ at[c] = "record"
  /\ \/ journal' = my[c].journal /\ UNCHANGED plan
     \/ Faults(1) /\ journal' \in {journal, my[c].journal}
  /\ Over(c)
  /\ UNCHANGED <<file, backup, kept, agent, provider, service, past>>

\* install_agent; a failure takes the agent's file back and is recorded.
InstallAgent(c) ==
  /\ at[c] = "agent"
  /\ agent' \in {agent, TRUE}
  /\ Over(c)
  /\ UNCHANGED <<file, journal, backup, kept, provider, service, plan, past>>

---------------------------------------------------------------------------
Disable(c) ==
  /\ at[c] = "disable"
  /\ IF journal = None THEN Over(c) /\ UNCHANGED agent
     ELSE Goto(c, "remove") /\ agent' = FALSE /\ UNCHANGED <<my, locks>>
  /\ UNCHANGED <<file, journal, backup, kept, provider, service, plan, past>>
RemoveOurs(c) ==
  /\ at[c] = "remove"
  /\ file' = IF FileState(journal) = "ours" THEN NoFile ELSE file
  /\ Goto(c, "restore")
  /\ UNCHANGED <<journal, backup, kept, agent, provider, service, locks, my, plan, past>>
\* A login the server may hold comes back only when the operator asks.
Held == journal.origin = None \/ journal.origin \in HeldLogins
Restore(c) ==
  /\ at[c] = "restore"
  /\ \E asked \in BOOLEAN :
       IF backup # NoFile /\ file = NoFile /\ (asked \/ ~Held)
       THEN /\ file' = backup /\ Goto(c, "restored")
            /\ past' = [past EXCEPT !.replaced = @ \ {backup}]
       ELSE Goto(c, "forget") /\ UNCHANGED <<file, past>>
  /\ UNCHANGED <<journal, backup, kept, agent, provider, service, locks, my, plan>>
Restored(c) ==
  /\ at[c] = "restored"
  /\ backup' = NoFile /\ Goto(c, "forget")
  /\ UNCHANGED <<file, journal, kept, agent, provider, service, locks, my, plan, past>>
Forget(c) ==
  /\ at[c] = "forget"
  /\ journal' = None /\ Over(c)
  /\ UNCHANGED <<file, backup, kept, agent, provider, service, plan, past>>

---------------------------------------------------------------------------
\* activate: the refusal and the switch to the server provider, under both
\* locks; a local switch or login, under the store's.
UseProvider(c) ==
  /\ at[c] = "use" /\ locks.native = None /\ locks.store = None
  /\ provider' = (provider \/ journal = None)
  /\ Over(c)
  /\ UNCHANGED <<file, journal, backup, kept, agent, service, plan, past>>
SwitchCheck(c) ==
  /\ at[c] = "switch" /\ locks.store = None
  /\ IF journal # None THEN Over(c)
     ELSE locks' = [locks EXCEPT !.store = c] /\ Goto(c, "switching") /\ UNCHANGED my
  /\ UNCHANGED <<Disk, service, plan, past>>
SwitchLogin(c) ==
  /\ at[c] = "switching"
  /\ \E id \in Logins : file' = Login(id, 0)
  /\ Over(c)
  /\ UNCHANGED <<journal, backup, kept, agent, provider, service, plan, past>>

\* A command dies, and a write of its own is not under way.
Die(c) ==
  /\ at[c] # "start" /\ plan.crashes > 0
  /\ plan' = [plan EXCEPT !.crashes = @ - 1]
  /\ Over(c)
  /\ UNCHANGED <<Disk, service, past>>

\* Codex rotates a login in place, or the user signs out, or in with another.
AppWrites ==
  /\ plan.moves > 0 /\ plan' = [plan EXCEPT !.moves = @ - 1]
  /\ \/ file.by = "login" /\ file' = [file EXCEPT !.n = @ + 1]
     \/ file # NoFile /\ file' = NoFile
     \/ \E id \in Logins : file' = Login(id, 0) /\ file' # file
  /\ my' = [c \in Commands |-> [my[c] EXCEPT !.raced = at[c] # "start"]]
  /\ UNCHANGED <<journal, backup, kept, agent, provider, service, locks, at, past>>

\* The server renews a token, gets another login for the account, or bills it.
ServiceChanges(a) ==
  /\ plan.changes > 0 /\ plan' = [plan EXCEPT !.changes = @ - 1]
  /\ \E login \in 1..2, bills \in BOOLEAN :
       service' = [service EXCEPT ![a] = [login |-> login, bills |-> bills, rev |-> @.rev + 1]]
  /\ UNCHANGED <<Disk, locks, at, my, past>>

AppNext ==
  \/ AppWrites
  \/ \E a \in Accounts : ServiceChanges(a)
  \/ \E c \in Commands :
       \/ \E role \in Roles : Begin(c, role)
       \/ EnableFetch(c) \/ EnableNative(c) \/ EnableCheck(c) \/ SetAside(c) \/ BackUp(c)
       \/ BackedUp(c) \/ RefreshFetch(c) \/ RefreshCompare(c) \/ WriteJournal(c) \/ WriteFile(c)
       \/ Confirm(c) \/ Record(c) \/ InstallAgent(c) \/ Disable(c) \/ RemoveOurs(c)
       \/ Restore(c) \/ Restored(c) \/ Forget(c) \/ UseProvider(c) \/ SwitchCheck(c)
       \/ SwitchLogin(c) \/ Die(c)

AppSpec == AppInit /\ [][AppNext]_appVars

---------------------------------------------------------------------------
AppTypeOK ==
  /\ file.by \in {"nobody", "login", "app-auth"} /\ backup.by \in {"nobody", "login", "app-auth"}
  /\ agent \in BOOLEAN /\ provider \in BOOLEAN
  /\ journal # None => journal.account \in Accounts /\ journal.approved \in BOOLEAN

\* A login that app-auth wrote over is in the backup or beside it until it is
\* put back, through every crash, failed write and repeated enable, unless the
\* app wrote it after app-auth had looked.
ReplacedKept == past.replaced \subseteq {backup} \cup kept

\* The digest of a file of app-auth is in its journal, so that it is never
\* taken for a login.
OursKnown ==
  file.by = "app-auth" =>
    \/ journal # None /\ file \in {journal.written, journal.pending}
    \/ past.unconfirmed

\* What app_auth.rs says of its journal: a crash on either side of the write
\* leaves a file it recognizes.
EitherFileKnown ==
  file.by = "app-auth" /\ locks.app = None =>
    journal # None /\ file \in {journal.written, journal.pending}

\* The app's file and the server provider never pin ~/.codex at once.
PinnedOnce == journal # None => ~provider

\* The app's file holds the login of the last enable, and a billed token only
\* of an account that may be billed.
PinnedLogin ==
  file.by = "app-auth" =>
    /\ <<file.account, file.token.login>> = past.pinned
    /\ file.token.bills => file.account \in past.consent

AppIInv == AppTypeOK /\ ReplacedKept /\ OursKnown /\ PinnedOnce /\ PinnedLogin
=============================================================================
