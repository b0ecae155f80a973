----------------------------- MODULE AliasRename -----------------------------
(***************************************************************************)
(* Renaming an account in file mode (src/src/central/rename.rs), with the  *)
(* operations that compete for an alias: imports and server-managed new    *)
(* logins.  All of them hold the imports lock, so one runs at a time; a    *)
(* rename is several file-system writes under an intent file, and the      *)
(* process may crash between any two of them.  Token requests take only    *)
(* the owner lock, after an unlocked lookup of the alias.                  *)
(***************************************************************************)
EXTENDS AliasNames, Integers, FiniteSets

CONSTANTS
  Spellings,  \* bound: the sets of aliases, one of which a behaviour uses
  Clients,    \* rename commands, each sent again until answered
  Failures,   \* where a step may fail
  MaxFaults,  \* bound: failures
  MaxCrashes, \* bound: crashes
  MaxTroubles \* bound: failures and crashes together

Places == {"stop", "snapshot", "intent", "intent_sync", "save", "move", "tombstone",
           "clear", "reload", "index", "launch"}
ASSUME FailuresAssumption == Failures \subseteq Places
ASSUME SpellingsAssumption == Spellings \subseteq SUBSET Aliases
ASSUME BoundsAssumption == MaxFaults \in Nat /\ MaxCrashes \in Nat /\ MaxTroubles \in Nat

VARIABLES
  spelled,  \* the aliases that requests use
  disk,    \* accounts/<key>: the vault's account and alias, and rename.json
  tombs,   \* renames.json
  adds,    \* account-logins/<key>: the alias of an unfinished new-account login
  up, unresolved,  \* the process runs; broker.ownership_unresolved
  index,   \* broker.owners: the alias and the owner under each key
  held,    \* each owner: its vault's alias, its directory, whether it serves
  op,      \* the holder of the imports lock
  calls,   \* what each client asked and what it was told
  token,   \* one token request
  faults, crashes

durable == <<disk, tombs, adds>>
memory == <<up, unresolved, index, held>>
vars == <<spelled, durable, memory, op, calls, token, faults, crashes>>

Intents == [from : Aliases, to : Aliases]
Directories == [account : Accounts, alias : Aliases, intent : Intents \cup {None}]
Entries == [alias : Aliases, account : Accounts]
Owners == [alias : Aliases, dir : Keys, available : BOOLEAN]
ASSUME ApartAssumption ==
  /\ None \notin Keys \cup Accounts \cup Clients \cup {"refused"}
  /\ None \notin Intents \cup Directories \cup Entries \cup Owners
Idle == [pc |-> "idle", client |-> None, key |-> None, account |-> None, dir |-> None]
NoCall == [pc |-> "idle", alias |-> None, to |-> None, expected |-> None, answer |-> None]
NoToken == [pc |-> "idle", alias |-> None, account |-> None]

TypeOK ==
  /\ spelled \in Spellings
  /\ disk \in [Keys -> Directories \cup {None}]
  /\ tombs \in [Keys -> Aliases \cup {None}] /\ adds \in [Keys -> Aliases \cup {None}]
  /\ up \in BOOLEAN /\ unresolved \in BOOLEAN
  /\ index \in [Keys -> Entries \cup {None}]
  /\ \A k \in Keys : index[k] # None => KeyOf[index[k].alias] = k
  /\ held \in [Accounts -> Owners \cup {None}]
  /\ op \in [pc : {"idle", "scan", "stop", "intent", "save", "move", "tombstone", "clear",
                   "reload", "index", "launch"},
             client : Clients \cup {None}, key : Keys \cup {None},
             account : Accounts \cup {None}, dir : Keys \cup {None}]
  /\ calls \in [Clients -> [pc : {"idle", "sent", "lost", "answered"},
                            alias : Aliases \cup {None}, to : Aliases \cup {None},
                            expected : Accounts \cup {None},
                            answer : Accounts \cup {None, "refused"}]]
  /\ token \in [pc : {"idle", "wait", "served"}, alias : Aliases \cup {None},
                account : Accounts \cup {None}]
  /\ faults \in 0..MaxFaults /\ crashes \in 0..MaxCrashes

Init ==
  /\ spelled \in Spellings
  /\ disk = [k \in Keys |-> None] /\ tombs = disk /\ adds = disk /\ index = disk
  /\ up = TRUE /\ unresolved = FALSE
  /\ held = [x \in Accounts |-> None]
  /\ op = Idle /\ calls = [c \in Clients |-> NoCall] /\ token = NoToken
  /\ faults = 0 /\ crashes = 0

Spared == faults + crashes < MaxTroubles
Fault(place) == place \in Failures /\ faults < MaxFaults /\ Spared /\ faults' = faults + 1

-----------------------------------------------------------------------------
(* Lookups.                                                                *)

\* The one index entry that carries the alias.
Resolve(a) ==
  LET keys == {k \in Keys : index[k] # None /\ KeyOf[index[k].alias] = KeyOf[a]}
  IN  IF Cardinality(keys) = 1 THEN CHOOSE k \in keys : TRUE ELSE None

\* The end of the chain of tombstones that starts at the alias.
RenamedTo(a) ==
  LET hop[n \in 0..Cardinality(Keys)] ==
        IF n = 0 THEN a
        ELSE LET b == hop[n - 1] IN IF tombs[KeyOf[b]] = None THEN b ELSE tombs[KeyOf[b]]
  IN  IF tombs[KeyOf[a]] = None THEN None ELSE hop[Cardinality(Keys)]

Locked == up /\ op.pc = "idle"
\* Mutated form: changes go on although ownership is unresolved.
WritableUnresolved == Locked
Writable == Locked /\ ~unresolved
Tombed(a) == tombs[KeyOf[a]] # None
New(a) == Resolve(a) = None /\ ~Tombed(a)

-----------------------------------------------------------------------------
(* Accounts enter: a local credential is imported, or a server-managed     *)
(* login ends with a grant that is handed to the same import.              *)

Admissible(x, a) ==
  /\ New(a) /\ disk[KeyOf[a]] = None
  /\ \A k \in Keys : disk[k] # None => disk[k].account # x

Admit(x, a) ==
  \E available \in BOOLEAN :
    /\ disk' = [disk EXCEPT ![KeyOf[a]] = [account |-> x, alias |-> a, intent |-> None]]
    /\ index' = [index EXCEPT ![KeyOf[a]] = [alias |-> a, account |-> x]]
    /\ held' = [held EXCEPT ![x] = [alias |-> a, dir |-> KeyOf[a], available |-> available]]

Import(x, a) ==
  /\ Writable /\ Admissible(x, a)
  /\ Admit(x, a)
  /\ UNCHANGED <<tombs, adds, up, unresolved, op, calls, token, faults, crashes>>

AddStart(a) ==
  /\ Writable /\ New(a) /\ adds[KeyOf[a]] = None
  /\ adds' = [adds EXCEPT ![KeyOf[a]] = a]
  /\ UNCHANGED <<disk, tombs, memory, op, calls, token, faults, crashes>>

\* The login fails, is canceled, or lands on the alias that holds the identity.
AddDrop(k) ==
  /\ Locked /\ adds[k] # None
  /\ adds' = [adds EXCEPT ![k] = None]
  /\ UNCHANGED <<disk, tombs, memory, op, calls, token, faults, crashes>>

AddAdmit(k, x) ==
  /\ Writable /\ adds[k] # None /\ Admissible(x, adds[k])
  /\ Admit(x, adds[k])
  /\ adds' = [adds EXCEPT ![k] = None]
  /\ UNCHANGED <<tombs, up, unresolved, op, calls, token, faults, crashes>>

-----------------------------------------------------------------------------
(* One rename request, from the check of the alias to its answer.          *)

\* The client may name the account it lists under the alias.
Ask(c, a, b, x) ==
  /\ up /\ calls[c].pc = "idle" /\ a # b
  /\ x # None => Resolve(a) # None /\ index[Resolve(a)].account = x
  /\ calls' = [calls EXCEPT ![c] =
       [pc |-> "sent", alias |-> a, to |-> b, expected |-> x, answer |-> None]]
  /\ UNCHANGED <<durable, memory, op, token, faults, crashes>>

Answer(c, answer) ==
  calls' = [calls EXCEPT ![c].pc = "answered", ![c].answer = answer]

Expects(c, x) == calls[c].expected \in {None, x}

\* Mutated form: a retry without an expected account does not count.
CommittedAsExpected(c) ==
  LET current == RenamedTo(calls[c].alias)
  IN  /\ current # None /\ KeyOf[current] = KeyOf[calls[c].to]
      /\ Resolve(current) # None /\ calls[c].expected = index[Resolve(current)].account

\* No account has the alias: either this rename committed before, or it is refused.
Committed(c) ==
  LET current == RenamedTo(calls[c].alias)
  IN  /\ current # None /\ KeyOf[current] = KeyOf[calls[c].to]
      /\ Resolve(current) # None /\ Expects(c, index[Resolve(current)].account)

RenameRetried(c) ==
  /\ Writable /\ calls[c].pc = "sent" /\ Resolve(calls[c].alias) = None
  /\ Answer(c, IF Committed(c) THEN index[Resolve(RenamedTo(calls[c].alias))].account
               ELSE "refused")
  /\ UNCHANGED <<durable, memory, op, token, faults, crashes>>

\* A loan, an unfinished renewal or import of the account, ownership_unresolved,
\* and every condition of RenameStart that does not hold.
RenameRefused(c) ==
  /\ Locked /\ calls[c].pc = "sent"
  /\ unresolved \/ Resolve(calls[c].alias) # None
  /\ Answer(c, "refused")
  /\ UNCHANGED <<durable, memory, op, token, faults, crashes>>

Renamable(c, k) ==
  LET a == calls[c].alias b == calls[c].to
  IN  /\ KeyOf[a] = KeyOf[b] \/ New(b)
      /\ Expects(c, index[k].account)
      /\ adds[KeyOf[a]] = None /\ adds[KeyOf[b]] = None
      /\ KeyOf[b] = k \/ disk[KeyOf[b]] = None

RenameStart(c) ==
  LET k == Resolve(calls[c].alias)
  IN  /\ Writable /\ calls[c].pc = "sent" /\ k # None /\ Renamable(c, k)
      /\ op' = [pc |-> "stop", client |-> c, key |-> k, account |-> index[k].account,
                dir |-> held[index[k].account].dir]
      /\ UNCHANGED <<durable, memory, calls, token, faults, crashes>>

\* The refresh process has stopped; fence the owner and save what it knew.
StopOwner ==
  /\ op.pc = "stop"
  /\ held' = [held EXCEPT ![op.account].available = FALSE]
  /\ \/ disk[op.dir] # None
        /\ op' = [op EXCEPT !.pc = "intent"] /\ UNCHANGED <<calls, faults>>
     \/ Fault("snapshot") /\ Answer(op.client, "refused") /\ op' = Idle
     \/ disk[op.dir] = None
        /\ Answer(op.client, "refused") /\ op' = Idle /\ UNCHANGED faults
  /\ UNCHANGED <<durable, up, unresolved, index, token, crashes>>

StopFails ==
  /\ op.pc = "stop" /\ Fault("stop")
  /\ Answer(op.client, "refused") /\ op' = Idle
  /\ UNCHANGED <<durable, memory, token, crashes>>

Intent == [from |-> held[op.account].alias, to |-> calls[op.client].to]

WriteIntent ==
  /\ op.pc = "intent"
  /\ disk' = [disk EXCEPT ![op.dir].intent = Intent]
  /\ op' = [op EXCEPT !.pc = "save"]
  /\ UNCHANGED <<tombs, adds, memory, calls, token, faults, crashes>>

\* The write fails; or the file is in place and only the sync of its directory
\* fails, which the code cannot tell apart.
IntentFails ==
  /\ op.pc = "intent"
  /\ \/ Fault("intent") /\ UNCHANGED disk
     \/ Fault("intent_sync") /\ disk' = [disk EXCEPT ![op.dir].intent = Intent]
  /\ Answer(op.client, "refused") /\ op' = Idle
  /\ UNCHANGED <<tombs, adds, memory, token, crashes>>

-----------------------------------------------------------------------------
(* finish: the same steps for a request and for recovery at startup, which *)
(* has no client.  Each tolerates that an earlier attempt did it.          *)

Owed == disk[op.dir].intent
Target == KeyOf[Owed.to]

Matches(d) == KeyOf[d.alias] = KeyOf[d.intent.from] \/ d.alias = d.intent.to

FinishSave ==
  /\ op.pc = "save" /\ Matches(disk[op.dir])
  /\ disk' = [disk EXCEPT ![op.dir].alias = Owed.to]
  /\ op' = [op EXCEPT !.pc = "move"]
  /\ UNCHANGED <<tombs, adds, memory, calls, token, faults, crashes>>

MoveBlocked == Target # op.dir /\ disk[Target] # None

FinishMove ==
  /\ op.pc = "move" /\ ~MoveBlocked
  /\ disk' = [k \in Keys |-> IF k = Target THEN disk[op.dir]
                             ELSE IF k = op.dir THEN None ELSE disk[k]]
  /\ op' = [op EXCEPT !.pc = "tombstone", !.dir = Target]
  /\ UNCHANGED <<tombs, adds, memory, calls, token, faults, crashes>>

\* Mutated form: a change of case retires the alias as well.
TombstonesOfAnyCase(i) == [tombs EXCEPT ![KeyOf[i.from]] = i.to]

\* A change of case alone leaves no tombstone.
Tombstones(i) ==
  [tombs EXCEPT ![KeyOf[i.from]] = IF KeyOf[i.from] = KeyOf[i.to] THEN None ELSE i.to]

FinishTombstone ==
  /\ op.pc = "tombstone"
  /\ tombs' = Tombstones(Owed)
  /\ op' = [op EXCEPT !.pc = "clear"]
  /\ UNCHANGED <<disk, adds, memory, calls, token, faults, crashes>>

\* Mutated form: the intent file stays.
FinishClearKeeping ==
  /\ op.pc = "clear"
  /\ op' = IF op.client = None THEN [Idle EXCEPT !.pc = "scan"] ELSE [op EXCEPT !.pc = "reload"]
  /\ UNCHANGED <<disk, tombs, adds, memory, calls, token, faults, crashes>>

FinishClear ==
  /\ op.pc = "clear"
  /\ disk' = [disk EXCEPT ![op.dir].intent = None]
  /\ op' = IF op.client = None THEN [Idle EXCEPT !.pc = "scan"] ELSE [op EXCEPT !.pc = "reload"]
  /\ UNCHANGED <<tombs, adds, memory, calls, token, faults, crashes>>

\* A request then answers and blocks every later change until a restart;
\* recovery abandons the scan with the same mark.
FinishFails ==
  /\ op.pc \in {"save", "move", "tombstone", "clear"}
  /\ \/ Fault(op.pc)
     \/ op.pc = "save" /\ ~Matches(disk[op.dir]) /\ UNCHANGED faults
     \/ op.pc = "move" /\ MoveBlocked /\ UNCHANGED faults
  /\ unresolved' = TRUE
  /\ IF op.client = None THEN /\ op' = [Idle EXCEPT !.pc = "scan"] /\ UNCHANGED calls
                         ELSE /\ op' = Idle /\ Answer(op.client, "refused")
  /\ UNCHANGED <<durable, up, index, held, token, crashes>>

\* The owner takes the moved vault.
Reload ==
  /\ op.pc = "reload"
  /\ \/ /\ held' = [held EXCEPT ![op.account] =
               [alias |-> disk[op.dir].alias, dir |-> op.dir, available |-> FALSE]]
        /\ op' = [op EXCEPT !.pc = "index"]
        /\ UNCHANGED <<calls, faults>>
     \/ /\ Fault("reload") /\ Answer(op.client, "refused") /\ op' = Idle
        /\ UNCHANGED held
  /\ UNCHANGED <<durable, up, unresolved, index, token, crashes>>

Reindex ==
  /\ op.pc = "index"
  /\ LET b == calls[op.client].to
     IN  index' = [k \in Keys |-> IF k = KeyOf[b] THEN [alias |-> b, account |-> op.account]
                                  ELSE IF k = op.key THEN None ELSE index[k]]
  /\ op' = [op EXCEPT !.pc = "launch"]
  /\ UNCHANGED <<durable, up, unresolved, held, calls, token, faults, crashes>>

\* The refresh process starts, or its failure is only recorded.
Launch ==
  /\ op.pc = "launch"
  /\ \E available \in BOOLEAN : held' = [held EXCEPT ![op.account].available = available]
  /\ Answer(op.client, op.account) /\ op' = Idle
  /\ UNCHANGED <<durable, up, unresolved, index, token, faults, crashes>>

-----------------------------------------------------------------------------
(* The client, the connection and the process.                             *)

\* The connection closes while the handler awaits: the server drops it there.
Disconnect ==
  /\ op.pc \in {"index", "launch"} /\ Fault(op.pc)
  /\ calls' = [calls EXCEPT ![op.client].pc = "lost"] /\ op' = Idle
  /\ UNCHANGED <<durable, memory, token, crashes>>

LoseAnswer(c) ==
  /\ calls[c].pc = "answered"
  /\ calls' = [calls EXCEPT ![c].pc = "lost", ![c].answer = None]
  /\ UNCHANGED <<durable, memory, op, token, faults, crashes>>

AskAgain(c) ==
  /\ calls[c].pc = "lost"
  /\ calls' = [calls EXCEPT ![c].pc = "sent"]
  /\ UNCHANGED <<durable, memory, op, token, faults, crashes>>

AnswerRead(c) ==
  /\ calls[c].pc = "answered"
  /\ calls' = [calls EXCEPT ![c] = NoCall]
  /\ UNCHANGED <<durable, memory, op, token, faults, crashes>>

Crash ==
  /\ up /\ crashes < MaxCrashes /\ Spared /\ crashes' = crashes + 1
  /\ up' = FALSE /\ unresolved' = FALSE
  /\ index' = [k \in Keys |-> None] /\ held' = [x \in Accounts |-> None]
  /\ op' = Idle /\ token' = NoToken
  /\ calls' = [c \in Clients |->
       IF calls[c].pc = "sent" THEN [calls[c] EXCEPT !.pc = "lost"] ELSE calls[c]]
  /\ UNCHANGED <<durable, faults>>

Restart ==
  /\ ~up /\ up' = TRUE /\ op' = [Idle EXCEPT !.pc = "scan"]
  /\ UNCHANGED <<durable, unresolved, index, held, calls, token, faults, crashes>>

Interrupted == {k \in Keys : disk[k] # None /\ disk[k].intent # None}

RecoverNext ==
  /\ op.pc = "scan" /\ ~unresolved
  /\ \E k \in Interrupted : op' = [Idle EXCEPT !.pc = "save", !.dir = k]
  /\ UNCHANGED <<durable, memory, calls, token, faults, crashes>>

\* serve builds its owners from the directories whose name their vault agrees with.
Named(k) == disk[k] # None /\ KeyOf[disk[k].alias] = k

Serve ==
  /\ op.pc = "scan" /\ (unresolved \/ Interrupted = {})
  /\ index' = [k \in Keys |->
       IF Named(k) THEN [alias |-> disk[k].alias, account |-> disk[k].account] ELSE None]
  /\ \E ready \in SUBSET Accounts :
       held' = [x \in Accounts |->
         IF \E k \in Keys : Named(k) /\ disk[k].account = x
         THEN LET k == CHOOSE j \in Keys : Named(j) /\ disk[j].account = x
              IN  [alias |-> disk[k].alias, dir |-> k, available |-> x \in ready]
         ELSE None]
  /\ unresolved' = (unresolved \/ \E k \in Keys : disk[k] # None /\ ~Named(k))
  /\ op' = Idle
  /\ UNCHANGED <<durable, up, calls, token, faults, crashes>>

\* A token request finds the owner of its alias, then waits for the owner lock,
\* which a rename holds until it answers.
TokenFind(a) ==
  /\ token.pc = "idle" /\ up /\ Resolve(a) # None
  /\ token' = [pc |-> "wait", alias |-> a, account |-> index[Resolve(a)].account]
  /\ UNCHANGED <<durable, memory, op, calls, faults, crashes>>

\* Mutated form: the alias is not checked again under the owner lock.
ServesAnyAlias(x, a) == held[x].available

Serves(x, a) == KeyOf[held[x].alias] = KeyOf[a] /\ held[x].available

TokenServe ==
  /\ up /\ token.pc = "wait" /\ op.account # token.account
  /\ token' = IF Serves(token.account, token.alias) THEN [token EXCEPT !.pc = "served"]
              ELSE NoToken
  /\ UNCHANGED <<durable, memory, op, calls, faults, crashes>>

TokenRead ==
  /\ token.pc = "served" /\ token' = NoToken
  /\ UNCHANGED <<durable, memory, op, calls, faults, crashes>>

-----------------------------------------------------------------------------
Recover ==
  Restart \/ RecoverNext \/ FinishSave \/ FinishMove \/ FinishTombstone \/ FinishClear
  \/ FinishFails \/ Serve

Entrance ==
  \/ \E x \in Accounts, a \in spelled : Import(x, a)
  \/ \E a \in spelled : AddStart(a)
  \/ \E k \in Keys : AddDrop(k) \/ (\E x \in Accounts : AddAdmit(k, x))

Call(c) ==
  \/ /\ calls[c].pc = "idle"
     /\ \E a, b \in spelled, x \in Accounts \cup {None} : Ask(c, a, b, x)
  \/ /\ calls[c].pc = "sent"
     /\ RenameRetried(c) \/ RenameRefused(c) \/ RenameStart(c)
  \/ LoseAnswer(c) \/ AskAgain(c) \/ AnswerRead(c)

Rename ==
  \/ StopOwner \/ StopFails \/ WriteIntent \/ IntentFails \/ Reload \/ Reindex \/ Launch
  \/ Disconnect

Step ==
  \/ Locked /\ Entrance
  \/ \E c \in Clients : Call(c)
  \/ Rename \/ Recover \/ Crash
  \/ (\E a \in spelled : TokenFind(a)) \/ TokenServe \/ TokenRead

Next == Step /\ UNCHANGED spelled

Spec == Init /\ [][Next]_vars

\* The container platform restarts the process, which then runs its startup.
FairSpec == Spec /\ WF_vars(Recover /\ UNCHANGED spelled)

-----------------------------------------------------------------------------
(* Properties.                                                             *)

\* An interrupted rename can always be finished: nothing takes its new name
\* while the intent waits, whatever crashes and failures come between.
IntentFinishable ==
  \A k \in Interrupted :
    /\ Matches(disk[k])
    /\ KeyOf[disk[k].intent.to] \in {k} \cup {j \in Keys : disk[j] = None}

\* A directory whose intent waits, before and after it moved.
Free(k) == disk[k] = None /\ tombs[k] = None
Unmoved(k) ==
  LET i == disk[k].intent
  IN  /\ KeyOf[i.from] = k /\ Matches(disk[k])
      /\ KeyOf[i.to] # k => Free(KeyOf[i.to])
Moved(k) ==
  LET i == disk[k].intent
  IN  /\ KeyOf[i.to] = k /\ disk[k].alias = i.to
      /\ KeyOf[i.from] # k => disk[KeyOf[i.from]] = None /\ tombs[KeyOf[i.from]] \in {None, i.to}

\* An account has one directory, under the key of its alias or with an intent; nobody has a
\* retired key; and one rename waits at most.
Directory(k) ==
  /\ tombs[k] = None
  /\ IF disk[k].intent = None THEN KeyOf[disk[k].alias] = k ELSE Unmoved(k) \/ Moved(k)
DirectoriesNamed ==
  /\ \A k \in Keys : disk[k] # None => Directory(k)
  /\ \A j, k \in Keys : disk[j] # None /\ disk[k] # None =>
       \/ j = k
       \/ disk[j].account # disk[k].account /\ (disk[j].intent = None \/ disk[k].intent = None)

\* A rename waits only while it is finished, or until the restart that finishes it.
Finishing == {"save", "move", "tombstone", "clear"}
IntentsWait ==
  Interrupted # {} => unresolved \/ ~up \/ op.pc \in Finishing \cup {"scan"}

\* Nothing is served, or known, before the recovery is over.
Recovering == ~up \/ (op.pc # "idle" /\ op.client = None)
Quiet ==
  Recovering => /\ \A k \in Keys : index[k] = None
                /\ \A x \in Accounts : held[x] = None
                /\ token.pc = "idle"

\* What is known at each step of a rename; To is the alias it was asked for.
To == calls[op.client].to
Renaming ==
  /\ op.account \in Accounts /\ op.key \in Keys /\ op.dir \in Keys
  /\ ~unresolved /\ calls[op.client].pc = "sent"
  /\ held[op.account] # None
  /\ op.pc # "launch" => index[op.key] # None /\ index[op.key].account = op.account
  /\ op.pc # "stop" => /\ ~held[op.account].available
                       /\ disk[op.dir] # None /\ disk[op.dir].account = op.account
  /\ op.pc \in {"stop", "intent"} =>
       /\ op.dir = op.key
       /\ KeyOf[To] # op.key => Free(KeyOf[To])
  /\ op.pc \in Finishing => Owed.to = To /\ KeyOf[Owed.from] = op.key
  /\ op.pc \in {"reload", "index"} =>
       /\ disk[op.dir].alias = To /\ KeyOf[To] = op.dir
       /\ op.key # op.dir => disk[op.key] = None
  /\ op.pc \in {"index", "launch"} =>
       held[op.account].dir = op.dir /\ KeyOf[held[op.account].alias] = op.dir
OpPlaced ==
  /\ op.pc # "idle" => up
  /\ op.pc = "idle" => op = Idle
  /\ op.client # None => op.pc \notin {"idle", "scan"} /\ Renaming
  /\ op.client = None => op.pc \in Finishing \cup {"idle", "scan"}
  /\ op.pc \in Finishing => op.dir \in Interrupted /\ ~unresolved
  /\ op.pc = "move" => disk[op.dir].alias = Owed.to
  /\ op.pc \in {"tombstone", "clear"} => Moved(op.dir)
  /\ op.pc = "clear" /\ KeyOf[Owed.from] # op.dir => tombs[KeyOf[Owed.from]] = Owed.to

\* The index names an owner where it is; where its directory has left, the alias is retired.
Owned(k) ==
  LET x == index[k].account
  IN  /\ \/ op.pc = "index" /\ k = op.key
         \/ held[x].dir = k /\ KeyOf[held[x].alias] = k
      /\ disk[k] # None => disk[k].account = x
      /\ disk[k] = None =>
           /\ tombs[k] # None \/ (op.pc = "tombstone" /\ k = op.key)
           /\ \E j \in Keys : disk[j] # None /\ disk[j].account = x
Memory ==
  \A k \in Keys : index[k] # None =>
    held[index[k].account] # None /\ (~unresolved => Owned(k))

\* Unless the owner could not take its moved vault, the index has every directory.
Indexed ==
  "reload" \notin Failures /\ ~unresolved /\ ~Recovering =>
    \A k \in Keys :
      \/ disk[k] = None <=> index[k] = None
      \/ op.pc \in Finishing \cup {"reload", "index"} /\ k \in {op.key, KeyOf[To]}

\* An owner that serves has the directory and the alias of its account.
Serving ==
  \A x \in Accounts : held[x] # None /\ held[x].available =>
    LET k == held[x].dir
    IN  /\ disk[k] # None /\ disk[k].account = x
        /\ KeyOf[disk[k].alias] = k /\ KeyOf[held[x].alias] = k

\* Requests have their names.
Asked ==
  /\ \A c \in Clients : calls[c].pc # "idle" => calls[c].alias \in Aliases /\ calls[c].to \in Aliases
  /\ token.pc # "idle" => token.account \in Accounts /\ token.alias \in Aliases
  /\ token.pc = "wait" => held[token.account] # None

\* The types; that no crash or failure leaves a rename that cannot finish; and how the
\* files, the owners in memory and the rename in progress agree.
IInv ==
  /\ TypeOK /\ IntentFinishable /\ DirectoriesNamed /\ IntentsWait /\ Quiet /\ OpPlaced
  /\ Memory /\ Indexed /\ Serving /\ Asked

\* "The old alias must never be served once the rename committed" (token): no
\* request for a retired alias is served, although it may have found the owner
\* before the rename, and what is served is the account that has the alias.
StaleNeverServed ==
  [][token.pc = "wait" /\ token'.pc = "served" =>
       /\ ~Tombed(token.alias)
       /\ \E k \in Keys : /\ disk[k] # None /\ disk[k].account = token.account
                          /\ KeyOf[disk[k].alias] = KeyOf[token.alias]]_vars

\* "A retried rename after a lost response returns the renamed account"
\* (docs/central-server.md): once the tombstone names the requested alias, a
\* request that finds the lock free is not refused.
RetryReturns ==
  [][\A c \in Clients :
       /\ calls[c].pc = "sent" /\ calls'[c].pc = "answered" /\ op.pc = "idle" /\ ~unresolved
       /\ RenamedTo(calls[c].alias) # None
       /\ KeyOf[RenamedTo(calls[c].alias)] = KeyOf[calls[c].to]
       /\ \E k \in Keys : /\ disk[k] # None /\ k = KeyOf[calls[c].to]
                          /\ Expects(c, disk[k].account)
       => calls'[c].answer = disk[KeyOf[calls[c].to]].account]_vars

\* The vault's alias moves before its directory; the rename of an account takes
\* effect with the directory, or with the vault when only the case changes.
NameIn(k) ==
  LET d == disk[k] i == disk[k].intent
  IN  IF i = None \/ KeyOf[i.from] = KeyOf[i.to] THEN d.alias
      ELSE IF k = KeyOf[i.to] THEN i.to ELSE i.from
NameOf(x) ==
  LET dirs == {k \in Keys : disk[k] # None /\ disk[k].account = x}
  IN  IF dirs = {} THEN None ELSE NameIn(CHOOSE k \in dirs : TRUE)
\* A moved directory whose intent waits retires its old alias like a tombstone.
Retired(k) ==
  LET moved == {j \in Interrupted : LET i == disk[j].intent
                                    IN  k = KeyOf[i.from] /\ k # j /\ j = KeyOf[i.to]}
  IN  IF moved = {} THEN tombs[k] ELSE disk[CHOOSE j \in moved : TRUE].intent.to

\* Renaming, with its crashes and failures, implements the book of aliases.
Book == INSTANCE AliasBook WITH
  name <- [x \in Accounts |-> NameOf(x)], retired <- [k \in Keys |-> Retired(k)]
ImplementsBook == Book!Spec

\* "An interrupted rename finishes when the server restarts", unless a step of
\* the recovery fails as well, which blocks every change of an alias.
RestartFinishes == (~up /\ Interrupted # {}) ~> (up /\ (unresolved \/ Interrupted = {}))
=============================================================================
