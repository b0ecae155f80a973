------------------------- MODULE AliasRenameProofs -------------------------
(***************************************************************************)
(* Theorems about AliasRename, for every set of accounts, aliases and      *)
(* clients and any number of failures and crashes: the invariant IInv, and *)
(* from it that no retired alias is served, that a retried rename returns  *)
(* its account, and that renaming implements AliasBook.  The proof takes   *)
(* the steps by kind: those beside a rename, the entry of an account, the  *)
(* request, the work on the files, and the recovery.                       *)
(***************************************************************************)
EXTENDS AliasRename, FiniteSetTheorems, TLAPS

USE KeyOfAssumption, NoneAssumption, SpellingsAssumption, ApartAssumption, BoundsAssumption

---------------------------------------------------------------------------
(* The operators. *)

\* A lookup without case finds the entry under the key.
LEMMA ResolveIs ==
  ASSUME TypeOK, NEW a
  PROVE  Resolve(a) = IF KeyOf[a] \in Keys /\ index[KeyOf[a]] # None THEN KeyOf[a] ELSE None
<1> DEFINE keys == {k \in Keys : index[k] # None /\ KeyOf[index[k].alias] = KeyOf[a]}
<1>1. keys = {k \in Keys : index[k] # None /\ k = KeyOf[a]}
  BY DEF TypeOK
<1>2. CASE KeyOf[a] \in Keys /\ index[KeyOf[a]] # None
  <2>1. keys = {KeyOf[a]}
    BY <1>1, <1>2
  <2>2. Cardinality(keys) = 1
    BY <2>1, FS_Singleton
  <2> HIDE DEF keys
  <2>3. (CHOOSE k \in keys : TRUE) = KeyOf[a]
    BY <2>1
  <2> QED
    BY <1>2, <2>2, <2>3 DEF keys, Resolve
<1>3. CASE ~(KeyOf[a] \in Keys /\ index[KeyOf[a]] # None)
  <2>1. keys = {}
    BY <1>1, <1>3
  <2>2. Cardinality(keys) # 1
    <3>1. Cardinality({}) = 0
      BY FS_EmptySet
    <3> HIDE DEF keys
    <3> QED
      BY <2>1, <3>1
  <2> QED
    BY <1>3, <2>2 DEF Resolve
<1> QED
  BY <1>2, <1>3

\* What an alias resolves to is indexed under its key.
LEMMA ResolvedIs ==
  ASSUME TypeOK, NEW a, Resolve(a) # None
  PROVE  /\ Resolve(a) \in Keys /\ Resolve(a) = KeyOf[a]
         /\ index[Resolve(a)] # None /\ index[Resolve(a)] \in Entries
         /\ index[Resolve(a)].account \in Accounts
<1>1. KeyOf[a] \in Keys /\ index[KeyOf[a]] # None /\ Resolve(a) = KeyOf[a]
  BY ResolveIs
<1>2. index[KeyOf[a]] \in Entries
  BY <1>1 DEF TypeOK
<1> QED
  BY <1>1, <1>2 DEF Entries

\* A directory, and the intent of one that is to be renamed.
LEMMA DirectoryTyped ==
  ASSUME TypeOK, NEW k \in Keys, disk[k] # None
  PROVE  /\ disk[k] \in Directories /\ disk[k].account \in Accounts /\ disk[k].alias \in Aliases
         /\ disk[k].intent \in Intents \cup {None}
  BY DEF TypeOK, Directories
LEMMA IntentTyped ==
  ASSUME TypeOK, NEW k \in Interrupted
  PROVE  /\ k \in Keys /\ disk[k] # None /\ disk[k].intent # None /\ disk[k].intent \in Intents
         /\ disk[k].intent.from \in Aliases /\ disk[k].intent.to \in Aliases
         /\ KeyOf[disk[k].intent.from] \in Keys /\ KeyOf[disk[k].intent.to] \in Keys
  BY DirectoryTyped DEF Interrupted, Intents

\* An entry and an owner.
LEMMA EntryTyped ==
  ASSUME TypeOK, NEW k \in Keys, index[k] # None
  PROVE  index[k] \in Entries /\ index[k].account \in Accounts /\ index[k].alias \in Aliases
  BY DEF TypeOK, Entries
LEMMA OwnerTyped ==
  ASSUME TypeOK, NEW x \in Accounts, held[x] # None
  PROVE  /\ held[x] \in Owners /\ held[x].alias \in Aliases /\ held[x].dir \in Keys
         /\ held[x].available \in BOOLEAN
  BY DEF TypeOK, Owners

---------------------------------------------------------------------------
(* Types. *)

Ops == [pc : {"idle", "scan"} \cup Finishing \cup {"stop", "intent", "reload", "index", "launch"},
        client : Clients \cup {None}, key : Keys \cup {None},
        account : Accounts \cup {None}, dir : Keys \cup {None}]
Calls == [pc : {"idle", "sent", "lost", "answered"}, alias : Aliases \cup {None},
          to : Aliases \cup {None}, expected : Accounts \cup {None},
          answer : Accounts \cup {None, "refused"}]
Tokens == [pc : {"idle", "wait", "served"}, alias : Aliases \cup {None},
           account : Accounts \cup {None}]

\* The types, by variable.
TypedDisk == disk \in [Keys -> Directories \cup {None}]
TypedTombs == tombs \in [Keys -> Aliases \cup {None}]
TypedIndex ==
  /\ index \in [Keys -> Entries \cup {None}]
  /\ \A k \in Keys : index[k] # None => KeyOf[index[k].alias] = k
TypedHeld == held \in [Accounts -> Owners \cup {None}]
LEMMA TypeOKIs ==
  TypeOK <=> /\ spelled \in Spellings
             /\ TypedDisk /\ TypedTombs /\ adds \in [Keys -> Aliases \cup {None}]
             /\ up \in BOOLEAN /\ unresolved \in BOOLEAN
             /\ TypedIndex /\ TypedHeld
             /\ op \in Ops /\ calls \in [Clients -> Calls] /\ token \in Tokens
             /\ faults \in 0..MaxFaults /\ crashes \in 0..MaxCrashes
<1>1. {"idle", "scan"} \cup Finishing \cup {"stop", "intent", "reload", "index", "launch"} =
      {"idle", "scan", "stop", "intent", "save", "move", "tombstone", "clear",
       "reload", "index", "launch"}
  BY DEF Finishing
<1> QED
  BY <1>1 DEF TypeOK, Ops, Calls, Tokens, TypedDisk, TypedTombs, TypedIndex, TypedHeld

\* The steps by kind.
Enters == \E x \in Accounts : (\E a \in Aliases : Import(x, a)) \/ (\E k \in Keys : AddAdmit(k, x))
Adds == (\E a \in Aliases : AddStart(a)) \/ (\E k \in Keys : AddDrop(k))
Asks == \E c \in Clients, a, b \in Aliases, x \in Accounts \cup {None} : Ask(c, a, b, x)
Replies ==
  \E c \in Clients :
    RenameRetried(c) \/ RenameRefused(c) \/ LoseAnswer(c) \/ AskAgain(c) \/ AnswerRead(c)
Starts == \E c \in Clients : RenameStart(c)
Tokened == (\E a \in Aliases : TokenFind(a)) \/ TokenServe \/ TokenRead
Handles ==
  \/ StopOwner \/ StopFails \/ WriteIntent \/ IntentFails \/ Reload \/ Reindex \/ Launch
  \/ Disconnect
LEMMA NextIs ==
  ASSUME TypeOK, Next
  PROVE  /\ Enters \/ Adds \/ Asks \/ Replies \/ Starts \/ Tokened \/ Handles \/ Crash \/ Recover
         /\ spelled' = spelled
<1>1. spelled \subseteq Aliases
  BY DEF TypeOK
<1>2. Step /\ spelled' = spelled
  BY DEF Next
<1>3. Enters \/ Adds \/ Asks \/ Replies \/ Starts \/ Tokened \/ Handles \/ Crash \/ Recover
  BY <1>1, <1>2, Zenon DEF Step, Entrance, Call, Rename, Enters, Adds, Asks, Replies, Starts, Tokened, Handles
<1> QED
  BY <1>2, <1>3

\* The types after a step, variable by variable.
TypedStep ==
  /\ TypedDisk' /\ TypedTombs' /\ adds' \in [Keys -> Aliases \cup {None}]
  /\ up' \in BOOLEAN /\ unresolved' \in BOOLEAN /\ TypedIndex' /\ TypedHeld'
  /\ op' \in Ops /\ calls' \in [Clients -> Calls] /\ token' \in Tokens
  /\ faults' \in 0..MaxFaults /\ crashes' \in 0..MaxCrashes

\* The answer to a client.
LEMMA AnswerTyped ==
  ASSUME TypeOK, NEW c \in Clients, NEW answer \in Accounts \cup {None, "refused"}, Answer(c, answer)
  PROVE  /\ calls' \in [Clients -> Calls]
         /\ calls'[c].pc = "answered" /\ calls'[c].answer = answer
         /\ \A d \in Clients : d # c => calls'[d] = calls[d]
         /\ \A d \in Clients : calls'[d].alias = calls[d].alias /\ calls'[d].to = calls[d].to
<1>1. calls \in [Clients -> Calls] /\ calls[c] \in Calls
  BY TypeOKIs
<1>2. \A d \in Clients : d # c => calls'[d] = calls[d]
  BY <1>1 DEF Answer
<1>3. /\ calls'[c].pc = "answered" /\ calls'[c].answer = answer
      /\ calls'[c].alias = calls[c].alias /\ calls'[c].to = calls[c].to
      /\ calls'[c] \in Calls
  <2>1. PICK k : k = [calls[c] EXCEPT !.pc = "answered", !.answer = answer]
    OBVIOUS
  <2>2. calls'[c] = k
    BY <1>1, <2>1 DEF Answer
  <2>3. PICK old \in Calls : old = calls[c]
    BY <1>1
  <2>4. k = [old EXCEPT !.pc = "answered", !.answer = answer]
    BY <2>1, <2>3
  <2>5. k \in Calls
    BY <2>4 DEF Calls
  <2>6. k.pc = "answered" /\ k.answer = answer /\ k.alias = old.alias /\ k.to = old.to
    BY <2>4 DEF Calls
  <2> QED
    BY <2>2, <2>3, <2>5, <2>6
<1>4. calls' \in [Clients -> Calls]
  BY <1>1, <1>2, <1>3 DEF Answer
<1> QED
  BY <1>2, <1>3, <1>4

LEMMA AdmitTyped ==
  ASSUME IInv, NEW x \in Accounts, NEW a \in Aliases, Admit(x, a)
  PROVE  TypedDisk' /\ TypedIndex' /\ TypedHeld'
<1>1. TypedDisk /\ TypedIndex /\ TypedHeld /\ KeyOf[a] \in Keys
  BY TypeOKIs DEF IInv
<1>2. [account |-> x, alias |-> a, intent |-> None] \in Directories
  BY DEF Directories
<1>3. [alias |-> a, account |-> x] \in Entries
  BY DEF Entries
<1>4. \A b \in BOOLEAN : [alias |-> a, dir |-> KeyOf[a], available |-> b] \in Owners
  BY <1>1 DEF Owners
<1> QED
  BY <1>1, <1>2, <1>3, <1>4 DEF Admit, TypedDisk, TypedIndex, TypedHeld

LEMMA EntriesTyped == ASSUME IInv, Enters \/ Adds PROVE TypedStep
<1>1. ASSUME NEW x \in Accounts, NEW a \in Aliases, Import(x, a) PROVE TypedStep
  BY <1>1, TypeOKIs, AdmitTyped DEF IInv, Import, TypedStep, TypedTombs
<1>2. ASSUME NEW a \in Aliases, AddStart(a) PROVE TypedStep
  BY <1>2, TypeOKIs DEF IInv, AddStart, memory, TypedStep, TypedDisk, TypedTombs, TypedIndex,
     TypedHeld
<1>3. ASSUME NEW k \in Keys, AddDrop(k) PROVE TypedStep
  BY <1>3, TypeOKIs DEF IInv, AddDrop, memory, TypedStep, TypedDisk, TypedTombs, TypedIndex,
     TypedHeld
<1>4. ASSUME NEW k \in Keys, NEW x \in Accounts, AddAdmit(k, x) PROVE TypedStep
  <2>1. adds[k] \in Aliases
    BY <1>4, TypeOKIs DEF IInv, AddAdmit
  <2> QED
    BY <1>4, <2>1, TypeOKIs, AdmitTyped DEF IInv, AddAdmit, TypedStep, TypedTombs
<1> QED
  BY <1>1, <1>2, <1>3, <1>4 DEF Enters, Adds

\* Requests, answers and tokens.
LEMMA ClientsTyped == ASSUME IInv, Asks \/ Replies \/ Starts \/ Tokened PROVE TypedStep
<1> USE DEF durable, memory, TypedStep, TypedDisk, TypedTombs, TypedIndex, TypedHeld
<1>1. ASSUME NEW c \in Clients, NEW a \in Aliases, NEW b \in Aliases,
             NEW x \in Accounts \cup {None}, Ask(c, a, b, x)
      PROVE  TypedStep
  <2>1. calls' \in [Clients -> Calls]
    BY <1>1, TypeOKIs DEF IInv, Ask, Calls
  <2> QED
    BY <1>1, <2>1, TypeOKIs DEF IInv, Ask
<1>2. ASSUME NEW c \in Clients, RenameRetried(c) PROVE TypedStep
  <2>1. PICK answer : Answer(c, answer) /\ answer = (IF Committed(c)
          THEN index[Resolve(RenamedTo(calls[c].alias))].account ELSE "refused")
    BY <1>2 DEF RenameRetried
  <2>2. answer \in Accounts \cup {"refused"}
    BY <2>1, ResolvedIs DEF IInv, Committed
  <2> QED
    BY <1>2, <2>1, <2>2, TypeOKIs, AnswerTyped DEF IInv, RenameRetried
<1>3. ASSUME NEW c \in Clients, RenameRefused(c) PROVE TypedStep
  BY <1>3, TypeOKIs, AnswerTyped DEF IInv, RenameRefused
<1>4. ASSUME NEW c \in Clients, RenameStart(c) PROVE TypedStep
  <2>1. LET k == Resolve(calls[c].alias)
        IN  k \in Keys /\ index[k].account \in Accounts /\ index[k] # None
    BY <1>4, ResolvedIs DEF IInv, RenameStart
  <2>2. LET k == Resolve(calls[c].alias)
        IN  held[index[k].account].dir \in Keys
    BY <2>1, OwnerTyped DEF IInv, Memory
  <2>3. op' \in Ops
    BY <1>4, <2>1, <2>2 DEF RenameStart, Ops
  <2> QED
    BY <1>4, <2>3, TypeOKIs DEF IInv, RenameStart
<1>5. ASSUME NEW c \in Clients, LoseAnswer(c) \/ AskAgain(c) \/ AnswerRead(c) PROVE TypedStep
  <2>1. calls' \in [Clients -> Calls]
    BY <1>5, TypeOKIs DEF IInv, LoseAnswer, AskAgain, AnswerRead, Calls, NoCall
  <2> QED
    BY <1>5, <2>1, TypeOKIs DEF IInv, LoseAnswer, AskAgain, AnswerRead
<1>6. CASE TokenServe \/ TokenRead
  <2>1. token' \in Tokens
    BY <1>6, TypeOKIs DEF IInv, TokenServe, TokenRead, Tokens, NoToken
  <2> QED
    BY <1>6, <2>1, TypeOKIs DEF IInv, TokenServe, TokenRead
<1>7. ASSUME NEW a \in Aliases, TokenFind(a) PROVE TypedStep
  <2>1. index[Resolve(a)].account \in Accounts
    BY <1>7, ResolvedIs DEF IInv, TokenFind
  <2>2. token' \in Tokens
    BY <1>7, <2>1 DEF TokenFind, Tokens
  <2> QED
    BY <1>7, <2>2, TypeOKIs DEF IInv, TokenFind, durable, memory, TypedStep, TypedDisk, TypedTombs,
       TypedIndex, TypedHeld
<1> QED
  BY <1>1, <1>2, <1>3, <1>4, <1>5, <1>6, <1>7 DEF Asks, Replies, Starts, Tokened

\* The files of a rename.
LEMMA DirectoriesTyped ==
  ASSUME IInv, op.dir \in Keys, disk[op.dir] # None
  PROVE  /\ \A i \in Intents : [disk EXCEPT ![op.dir].intent = i] \in [Keys -> Directories \cup {None}]
         /\ [disk EXCEPT ![op.dir].intent = None] \in [Keys -> Directories \cup {None}]
         /\ \A a \in Aliases : [disk EXCEPT ![op.dir].alias = a] \in [Keys -> Directories \cup {None}]
<1>1. disk \in [Keys -> Directories \cup {None}] /\ disk[op.dir] \in Directories
  BY DirectoryTyped, TypeOKIs DEF IInv, TypedDisk
<1>2. /\ \A i \in Intents \cup {None} : [disk[op.dir] EXCEPT !.intent = i] \in Directories
      /\ \A a \in Aliases : [disk[op.dir] EXCEPT !.alias = a] \in Directories
  BY <1>1 DEF Directories
<1> QED
  BY <1>1, <1>2

LEMMA RequestTyped == ASSUME IInv, Handles PROVE TypedStep
<1> USE DEF durable, memory, TypedStep, TypedDisk, TypedTombs, TypedIndex, TypedHeld
<1>1. /\ op.client \in Clients /\ op.account \in Accounts /\ op.key \in Keys /\ op.dir \in Keys
      /\ held[op.account] \in Owners /\ op \in Ops /\ held \in [Accounts -> Owners \cup {None}]
      /\ calls[op.client] \in Calls /\ To \in Aliases
  <2>1. op.client # None /\ op.client \in Clients
    BY TypeOKIs DEF IInv, Handles, StopOwner, StopFails, WriteIntent, IntentFails, Reload, Reindex,
       Launch, Disconnect, OpPlaced, Ops, Finishing
  <2> QED
    BY <2>1, TypeOKIs, OwnerTyped DEF IInv, OpPlaced, Renaming, Asked, To
<1>2. \A b \in BOOLEAN : [held EXCEPT ![op.account].available = b] \in [Accounts -> Owners \cup {None}]
  BY <1>1 DEF Owners
<1>3. Idle \in Ops /\ \A pc \in {"intent", "save", "index", "launch"} : [op EXCEPT !.pc = pc] \in Ops
  BY <1>1 DEF Idle, Ops, Finishing
<1>4. \A answer \in Accounts \cup {None, "refused"} : Answer(op.client, answer) =>
        calls' \in [Clients -> Calls]
  BY <1>1, AnswerTyped DEF IInv
<1>5. \A place : Fault(place) => faults' \in 0..MaxFaults
  BY TypeOKIs DEF IInv, Fault
<1>6. CASE StopOwner
  <2>1. held' \in [Accounts -> Owners \cup {None}]
    BY <1>2, <1>6 DEF StopOwner
  <2>2. op' \in Ops
    BY <1>3, <1>6 DEF StopOwner
  <2>3. calls' \in [Clients -> Calls]
    BY <1>4, <1>6, TypeOKIs DEF IInv, StopOwner
  <2>4. faults' \in 0..MaxFaults
    BY <1>5, <1>6, TypeOKIs DEF IInv, StopOwner
  <2> QED
    BY <1>6, <2>1, <2>2, <2>3, <2>4, TypeOKIs DEF IInv, StopOwner
<1>7. CASE StopFails
  BY <1>3, <1>4, <1>5, <1>7, TypeOKIs DEF IInv, StopFails
<1>8. CASE WriteIntent \/ IntentFails
  <2>1. Intent \in Intents /\ disk[op.dir] # None
    BY <1>1, <1>8 DEF Intent, Intents, Owners, To, IInv, OpPlaced, Renaming, WriteIntent, IntentFails
  <2>2. disk' \in [Keys -> Directories \cup {None}]
    BY <1>1, <1>8, <2>1, DirectoriesTyped, TypeOKIs DEF IInv, WriteIntent, IntentFails
  <2>3. CASE WriteIntent
    BY <1>3, <2>2, <2>3, TypeOKIs DEF IInv, WriteIntent
  <2>4. CASE IntentFails
    <3>1. calls' \in [Clients -> Calls] /\ faults' \in 0..MaxFaults /\ op' \in Ops
      BY <1>3, <1>4, <1>5, <2>4 DEF IntentFails
    <3> QED
      BY <2>2, <2>4, <3>1, TypeOKIs DEF IInv, IntentFails
  <2> QED
    BY <1>8, <2>3, <2>4
<1>9. CASE Reload
  <2>1. disk[op.dir].alias \in Aliases
    BY <1>1, <1>9, DirectoryTyped DEF IInv, OpPlaced, Renaming, Reload
  <2>2. held' \in [Accounts -> Owners \cup {None}]
    <3>1. [alias |-> disk[op.dir].alias, dir |-> op.dir, available |-> FALSE] \in Owners
      BY <1>1, <2>1 DEF Owners
    <3> QED
      BY <1>1, <1>9, <3>1 DEF Reload
  <2>3. op' \in Ops /\ calls' \in [Clients -> Calls] /\ faults' \in 0..MaxFaults
    BY <1>3, <1>4, <1>5, <1>9, TypeOKIs DEF IInv, Reload
  <2> QED
    BY <1>9, <2>2, <2>3, TypeOKIs DEF IInv, Reload
<1>10. CASE Reindex
  <2>1. [alias |-> To, account |-> op.account] \in Entries
    BY <1>1 DEF Entries
  <2>2. TypedIndex'
    BY <1>1, <1>10, <2>1, TypeOKIs DEF IInv, Reindex, To
  <2> QED
    BY <1>3, <1>10, <2>2, TypeOKIs DEF IInv, Reindex
<1>11. CASE Launch
  BY <1>1, <1>2, <1>3, <1>4, <1>11, TypeOKIs DEF IInv, Launch
<1>12. CASE Disconnect
  <2>1. calls' \in [Clients -> Calls]
    BY <1>1, <1>12, TypeOKIs DEF IInv, Disconnect, Calls
  <2> QED
    BY <1>3, <1>5, <1>12, <2>1, TypeOKIs DEF IInv, Disconnect
<1> QED
  BY <1>6, <1>7, <1>8, <1>9, <1>10, <1>11, <1>12 DEF Handles

\* Crashes and the recovery.
LEMMA RecoveryTyped ==
  ASSUME IInv, Crash \/ Recover
  PROVE  TypedStep
<1> USE DEF durable, memory, TypedStep, TypedDisk, TypedTombs, TypedIndex, TypedHeld
<1>1. op \in Ops /\ Idle \in Ops /\ [Idle EXCEPT !.pc = "scan"] \in Ops
  BY TypeOKIs DEF IInv, Idle, Ops
<1>2. op.pc \in Finishing => /\ op.dir \in Keys /\ disk[op.dir] # None /\ Owed \in Intents
                             /\ Owed.from \in Aliases /\ Owed.to \in Aliases /\ Target \in Keys
                             /\ disk[op.dir] \in Directories
  BY IntentTyped, DirectoryTyped DEF IInv, OpPlaced, Owed, Target
<1>3. CASE Crash
  <2>1. calls' \in [Clients -> Calls]
    BY <1>3, TypeOKIs DEF IInv, Crash, Calls
  <2>2. crashes' \in 0..MaxCrashes /\ token' \in Tokens
    BY <1>3, TypeOKIs DEF IInv, Crash, Tokens, NoToken
  <2> QED
    BY <1>1, <1>3, <2>1, <2>2, TypeOKIs DEF IInv, Crash
<1>4. CASE Restart
  BY <1>1, <1>4, TypeOKIs DEF IInv, Restart
<1>5. CASE RecoverNext
  <2>1. op' \in Ops
    BY <1>5 DEF RecoverNext, Interrupted, Idle, Ops, Finishing
  <2> QED
    BY <1>5, <2>1, TypeOKIs DEF IInv, RecoverNext
<1>6. CASE FinishSave
  <2>1. disk' \in [Keys -> Directories \cup {None}]
    BY <1>2, <1>6, DirectoriesTyped DEF FinishSave, Finishing
  <2>2. op' \in Ops
    BY <1>1, <1>6 DEF FinishSave, Ops, Finishing
  <2> QED
    BY <1>6, <2>1, <2>2, TypeOKIs DEF IInv, FinishSave
<1>7. CASE FinishMove
  <2>1. disk' \in [Keys -> Directories \cup {None}]
    BY <1>2, <1>7, TypeOKIs DEF IInv, FinishMove, Finishing
  <2>2. op' \in Ops
    BY <1>1, <1>2, <1>7 DEF FinishMove, Ops, Finishing
  <2> QED
    BY <1>7, <2>1, <2>2, TypeOKIs DEF IInv, FinishMove
<1>8. CASE FinishTombstone
  <2>1. tombs' \in [Keys -> Aliases \cup {None}]
    BY <1>2, <1>8, TypeOKIs DEF IInv, FinishTombstone, Finishing, Tombstones
  <2>2. op' \in Ops
    BY <1>1, <1>8 DEF FinishTombstone, Ops, Finishing
  <2> QED
    BY <1>8, <2>1, <2>2, TypeOKIs DEF IInv, FinishTombstone
<1>9. CASE FinishClear
  <2>1. disk' \in [Keys -> Directories \cup {None}]
    BY <1>2, <1>9, DirectoriesTyped DEF FinishClear, Finishing
  <2>2. op' \in Ops
    BY <1>1, <1>9 DEF FinishClear, Ops, Finishing
  <2> QED
    BY <1>9, <2>1, <2>2, TypeOKIs DEF IInv, FinishClear
<1>10. CASE FinishFails
  <2>1. faults' \in 0..MaxFaults
    BY <1>10, TypeOKIs DEF IInv, FinishFails, Fault
  <2>2. calls' \in [Clients -> Calls]
    <3>1. op.client # None => op.client \in Clients
      BY <1>1 DEF Ops
    <3> QED
      BY <1>10, <3>1, TypeOKIs, AnswerTyped DEF IInv, FinishFails
  <2>3. op' \in Ops
    BY <1>1, <1>10 DEF FinishFails
  <2> QED
    BY <1>10, <2>1, <2>2, <2>3, TypeOKIs DEF IInv, FinishFails
<1>11. CASE Serve
  <2>1. TypedIndex'
    <3>1. \A k \in Keys : Named(k) => [alias |-> disk[k].alias, account |-> disk[k].account] \in Entries
      BY DirectoryTyped DEF IInv, Named, Entries
    <3> QED
      BY <1>11, <3>1 DEF Serve, Named
  <2>2. TypedHeld'
    <3>1. PICK ready \in SUBSET Accounts :
            held' = [x \in Accounts |->
              IF \E k \in Keys : Named(k) /\ disk[k].account = x
              THEN LET k == CHOOSE j \in Keys : Named(j) /\ disk[j].account = x
                   IN  [alias |-> disk[k].alias, dir |-> k, available |-> x \in ready]
              ELSE None]
      BY <1>11 DEF Serve
    <3>2. \A k \in Keys, x \in Accounts : Named(k) =>
            [alias |-> disk[k].alias, dir |-> k, available |-> x \in ready] \in Owners
      BY DirectoryTyped DEF IInv, Named, Owners
    <3>3. \A x \in Accounts : (\E k \in Keys : Named(k) /\ disk[k].account = x) =>
            LET k == CHOOSE j \in Keys : Named(j) /\ disk[j].account = x IN k \in Keys /\ Named(k)
      OBVIOUS
    <3> QED
      BY <3>1, <3>2, <3>3
  <2> QED
    BY <1>1, <1>11, <2>1, <2>2, TypeOKIs DEF IInv, Serve
<1> QED
  BY <1>3, <1>4, <1>5, <1>6, <1>7, <1>8, <1>9, <1>10, <1>11 DEF Recover

\* Every step keeps the types.
LEMMA StepTyped == IInv /\ Next => TypeOK'
<1> SUFFICES ASSUME IInv, Next PROVE TypeOK'
  OBVIOUS
<1>1. TypedStep /\ spelled' \in Spellings
  BY NextIs, EntriesTyped, ClientsTyped, RequestTyped, RecoveryTyped DEF IInv, TypeOK
<1> QED
  BY <1>1 DEF TypedStep, TypeOK, Ops, Calls, Tokens, Finishing, TypedDisk, TypedTombs, TypedIndex,
     TypedHeld

---------------------------------------------------------------------------
(* Directories and names. *)

LEMMA DirectoryIs ==
  ASSUME IInv, NEW k \in Keys, disk[k] # None
  PROVE  /\ Directory(k)
         /\ \A j \in Keys : disk[j] # None /\ disk[j].account = disk[k].account => j = k
         /\ \A j \in Interrupted : disk[k].intent # None => j = k
  BY DEF IInv, DirectoriesNamed, Interrupted

\* An intent can be finished from where its directory is.
LEMMA FinishableIs == TypeOK /\ DirectoriesNamed => IntentFinishable
<1> SUFFICES ASSUME TypeOK, DirectoriesNamed, NEW k \in Interrupted
    PROVE  /\ Matches(disk[k])
           /\ KeyOf[disk[k].intent.to] \in {k} \cup {j \in Keys : disk[j] = None}
  BY DEF IntentFinishable
<1>1. Unmoved(k) \/ Moved(k)
  BY IntentTyped DEF DirectoriesNamed, Directory
<1> QED
  BY <1>1, IntentTyped DEF Unmoved, Moved, Matches, Free
LEMMA FinishableKept == TypeOK' /\ DirectoriesNamed' => IntentFinishable'
  BY FinishableIs, PTL

\* What is left of the invariant when the types are kept.
Rest == /\ DirectoriesNamed /\ IntentsWait /\ Quiet /\ OpPlaced
        /\ Memory /\ Indexed /\ Serving /\ Asked
LEMMA RestIs == TypeOK' /\ Rest' => IInv'
  BY FinishableKept DEF Rest, IInv

FilesKept == disk' = disk /\ tombs' = tombs
OwnersKept == index' = index /\ held' = held
LEMMA DirectoriesKept == ASSUME IInv, FilesKept PROVE DirectoriesNamed' /\ Interrupted' = Interrupted
  BY DEF FilesKept, IInv, DirectoriesNamed, Directory, Unmoved, Moved, Matches, Free, Interrupted
LEMMA ServingKept == ASSUME IInv, FilesKept, held' = held PROVE Serving'
  BY DEF FilesKept, IInv, Serving

\* Requests and tokens come and go beside a rename.
CallKept == op.client # None => calls'[op.client] = calls[op.client]
LEMMA BesideKeeps ==
  ASSUME IInv, TypeOK', FilesKept, OwnersKept, up' = up, unresolved' = unresolved, op' = op,
         CallKept, Recovering => token'.pc = "idle", Asked'
  PROVE  IInv'
<1> USE DEF FilesKept, OwnersKept, IInv
<1>1. DirectoriesNamed' /\ Interrupted' = Interrupted /\ Serving'
  BY DirectoriesKept, ServingKept
<1>2. IntentsWait'
  BY <1>1 DEF IntentsWait
<1>3. Quiet'
  BY DEF Quiet, Recovering
<1>4. /\ op.client # None => To' = To
      /\ Owed' = Owed
      /\ op.pc \in {"tombstone", "clear"} => Moved(op.dir)'
  BY DEF To, Owed, Moved, CallKept, OpPlaced
<1>5. op.client # None => Renaming'
  <2>1. op.client # None => Renaming
    BY DEF OpPlaced
  <2> QED
    BY <1>4, <2>1 DEF Renaming, CallKept, Free
<1>6. OpPlaced'
  BY <1>1, <1>4, <1>5 DEF OpPlaced
<1>7. Memory'
  BY DEF Memory, Owned
<1>8. Indexed'
  <2>1. CASE op.client = None
    BY <2>1 DEF Indexed, Recovering, OpPlaced, Finishing
  <2>2. CASE op.client # None
    BY <1>4, <2>2 DEF Indexed, Recovering
  <2> QED
    BY <2>1, <2>2
<1> QED
  BY <1>1, <1>2, <1>3, <1>6, <1>7, <1>8, RestIs DEF Rest

LEMMA AddsKeep == ASSUME IInv, TypeOK', Adds PROVE IInv'
<1>1. FilesKept /\ OwnersKept /\ up' = up /\ unresolved' = unresolved /\ op' = op
  BY DEF Adds, AddStart, AddDrop, memory, FilesKept, OwnersKept
<1>2. calls' = calls /\ token' = token
  BY DEF Adds, AddStart, AddDrop
<1>3. Asked' /\ (Recovering => token'.pc = "idle")
  BY <1>1, <1>2 DEF OwnersKept, IInv, Asked, Quiet
<1> QED
  BY <1>1, <1>2, <1>3, BesideKeeps DEF CallKept

LEMMA AsksKeep == ASSUME IInv, TypeOK', Asks PROVE IInv'
<1>1. PICK c \in Clients, a \in Aliases, b \in Aliases, x \in Accounts \cup {None} : Ask(c, a, b, x)
  BY DEF Asks
<1>2. FilesKept /\ OwnersKept /\ up' = up /\ unresolved' = unresolved /\ op' = op /\ token' = token
  BY <1>1 DEF Ask, durable, memory, FilesKept, OwnersKept
<1>3. \A d \in Clients : d # c => calls'[d] = calls[d]
  BY <1>1, TypeOKIs DEF Ask, IInv
<1>4. calls'[c].alias = a /\ calls'[c].to = b
  BY <1>1, TypeOKIs DEF Ask, IInv
<1>5. CallKept
  BY <1>1, <1>3, TypeOKIs DEF CallKept, Ask, IInv, OpPlaced, Renaming, Ops
<1>6. Asked' /\ (Recovering => token'.pc = "idle")
  BY <1>2, <1>3, <1>4 DEF OwnersKept, IInv, Asked, Quiet
<1> QED
  BY <1>2, <1>5, <1>6, BesideKeeps

LEMMA RepliesKeep == ASSUME IInv, TypeOK', Replies PROVE IInv'
<1>1. PICK c \in Clients :
        RenameRetried(c) \/ RenameRefused(c) \/ LoseAnswer(c) \/ AskAgain(c) \/ AnswerRead(c)
  BY DEF Replies
<1>2. FilesKept /\ OwnersKept /\ up' = up /\ unresolved' = unresolved /\ op' = op /\ token' = token
  BY <1>1 DEF RenameRetried, RenameRefused, LoseAnswer, AskAgain, AnswerRead, durable, memory,
     FilesKept, OwnersKept
<1>3. \A d \in Clients : d # c => calls'[d] = calls[d]
  BY <1>1, TypeOKIs DEF RenameRetried, RenameRefused, LoseAnswer, AskAgain, AnswerRead, Answer, IInv
<1>4. \/ calls'[c].alias = calls[c].alias /\ calls'[c].to = calls[c].to /\ calls[c].pc # "idle"
      \/ calls'[c].pc = "idle"
  BY <1>1, TypeOKIs DEF RenameRetried, RenameRefused, LoseAnswer, AskAgain, AnswerRead, Answer, IInv,
     Calls, NoCall
<1>5. c # op.client \/ op.client = None
  BY <1>1 DEF RenameRetried, RenameRefused, LoseAnswer, AskAgain, AnswerRead, Writable, Locked, IInv,
     OpPlaced, Renaming
<1>6. CallKept
  BY <1>3, <1>5, TypeOKIs DEF CallKept, IInv, Ops
<1>7. Asked' /\ (Recovering => token'.pc = "idle")
  BY <1>2, <1>3, <1>4 DEF OwnersKept, IInv, Asked, Quiet
<1> QED
  BY <1>2, <1>6, <1>7, BesideKeeps

LEMMA TokenedKeep == ASSUME IInv, TypeOK', Tokened PROVE IInv'
<1>1. FilesKept /\ OwnersKept /\ up' = up /\ unresolved' = unresolved /\ op' = op /\ calls' = calls
  BY DEF Tokened, TokenFind, TokenServe, TokenRead, durable, memory, FilesKept, OwnersKept
<1>2. ASSUME NEW a \in Aliases, TokenFind(a)
      PROVE  /\ token'.account \in Accounts /\ token'.alias \in Aliases
             /\ held[token'.account] # None /\ ~Recovering
  <2>1. index[Resolve(a)] # None /\ index[Resolve(a)].account \in Accounts /\ Resolve(a) \in Keys
    BY <1>2, ResolvedIs DEF IInv, TokenFind
  <2> QED
    BY <1>2, <2>1 DEF TokenFind, IInv, Memory, Quiet
<1>3. ASSUME TokenServe \/ TokenRead
      PROVE  /\ token.pc # "idle" /\ ~Recovering
             /\ \/ token'.pc = "idle"
                \/ token'.pc = "served" /\ token'.account = token.account /\ token'.alias = token.alias
  BY <1>3, TypeOKIs DEF TokenServe, TokenRead, NoToken, IInv, Tokens, Quiet
<1>4. Asked' /\ (Recovering => token'.pc = "idle")
  BY <1>1, <1>2, <1>3 DEF OwnersKept, IInv, Asked, Tokened
<1> QED
  BY <1>1, <1>4, BesideKeeps DEF CallKept

---------------------------------------------------------------------------
(* Accounts enter. *)

\* When changes are allowed nothing waits, and directories are where their aliases say.
LEMMA WritableIs ==
  ASSUME IInv, Writable
  PROVE  /\ Interrupted = {} /\ op = Idle /\ ~Recovering /\ op.client = None /\ op.pc = "idle"
         /\ \A k \in Keys : disk[k] # None => /\ tombs[k] = None /\ disk[k].intent = None
                                              /\ KeyOf[disk[k].alias] = k
         /\ \A k \in Keys : index[k] # None => Owned(k)
<1>1. op = Idle /\ op.client = None /\ op.pc = "idle" /\ up /\ ~unresolved
  BY DEF Writable, Locked, IInv, OpPlaced, Idle
<1>2. Interrupted = {}
  BY <1>1 DEF IInv, IntentsWait, Finishing
<1>3. \A k \in Keys : disk[k] # None => disk[k].intent = None
  BY <1>2 DEF Interrupted
<1> QED
  BY <1>1, <1>2, <1>3 DEF Recovering, IInv, Memory, DirectoriesNamed, Directory

LEMMA AdmitKeeps ==
  ASSUME IInv, TypeOK', NEW x \in Accounts, NEW a \in Aliases, Writable, Admissible(x, a), Admit(x, a),
         tombs' = tombs, up' = up, unresolved' = unresolved, op' = op, calls' = calls, token' = token
  PROVE  IInv'
<1> DEFINE n == KeyOf[a]
<1>1. /\ Interrupted = {} /\ op = Idle /\ ~Recovering /\ op.client = None /\ op.pc = "idle" /\ n \in Keys
      /\ \A k \in Keys : disk[k] # None => /\ tombs[k] = None /\ disk[k].intent = None
                                           /\ KeyOf[disk[k].alias] = k
      /\ \A k \in Keys : index[k] # None => Owned(k)
      /\ ~unresolved /\ up
  BY WritableIs DEF Writable, Locked
<1>2. /\ disk[n] = None /\ tombs[n] = None
      /\ \A k \in Keys : disk[k] # None => disk[k].account # x
  BY DEF Admissible, New, Tombed
<1>3. /\ \A k \in Keys : k # n => disk'[k] = disk[k] /\ index'[k] = index[k]
      /\ disk'[n].account = x /\ disk'[n].alias = a /\ disk'[n].intent = None /\ disk'[n] # None
      /\ index'[n] = [alias |-> a, account |-> x] /\ index'[n] # None
  <2>1. /\ disk' = [disk EXCEPT ![n] = [account |-> x, alias |-> a, intent |-> None]]
        /\ index' = [index EXCEPT ![n] = [alias |-> a, account |-> x]]
    BY DEF Admit
  <2>2. /\ [account |-> x, alias |-> a, intent |-> None] \in Directories
        /\ [alias |-> a, account |-> x] \in Entries
    BY DEF Directories, Entries
  <2> QED
    BY <1>1, <2>1, <2>2, TypeOKIs DEF IInv, TypedDisk, TypedIndex
<1>4. /\ \A y \in Accounts : y # x => held'[y] = held[y]
      /\ held'[x].alias = a /\ held'[x].dir = n /\ held'[x] # None
  <2>1. PICK b \in BOOLEAN : held' = [held EXCEPT ![x] = [alias |-> a, dir |-> n, available |-> b]]
    BY DEF Admit
  <2>2. [alias |-> a, dir |-> n, available |-> b] \in Owners
    BY <1>1 DEF Owners
  <2> QED
    BY <2>1, <2>2, TypeOKIs DEF IInv, TypedHeld
<1> HIDE DEF n
<1>5. \A k \in Keys : disk'[k] # None => /\ tombs'[k] = None /\ disk'[k].intent = None
                                         /\ KeyOf[disk'[k].alias] = k
  BY <1>1, <1>2, <1>3 DEF n
<1>6. DirectoriesNamed' /\ Interrupted' = {}
  <2>1. \A k \in Keys : disk'[k] # None => Directory(k)'
    BY <1>5 DEF Directory
  <2>2. \A j, k \in Keys : disk'[j] # None /\ disk'[k] # None =>
          j = k \/ disk'[j].account # disk'[k].account
    BY <1>2, <1>3 DEF IInv, DirectoriesNamed
  <2> QED
    BY <1>5, <2>1, <2>2 DEF DirectoriesNamed, Interrupted
<1>7. IntentsWait' /\ Quiet'
  BY <1>1, <1>6 DEF IntentsWait, Quiet, Recovering
<1>8. OpPlaced'
  BY <1>1 DEF OpPlaced, Finishing, Idle
<1>9. \A k \in Keys : index[k] # None => index[k].account # x
  BY <1>1, <1>2 DEF Owned
<1>10. Memory'
  <2> SUFFICES ASSUME NEW k \in Keys, index'[k] # None
      PROVE  held'[index'[k].account] # None /\ Owned(k)'
    BY DEF Memory
  <2>1. CASE k = n
    BY <1>2, <1>3, <1>4, <2>1 DEF Owned, n
  <2>2. CASE k # n
    <3>1. /\ index[k] # None /\ index'[k] = index[k] /\ index[k].account \in Accounts
          /\ index[k].account # x /\ Owned(k) /\ held[index[k].account] # None
      BY <1>1, <1>3, <1>9, <2>2, EntryTyped DEF IInv, Memory
    <3>2. /\ held'[index[k].account] = held[index[k].account] /\ disk'[k] = disk[k]
          /\ \A j \in Keys : disk[j] # None => disk'[j] = disk[j]
      BY <1>2, <1>3, <1>4, <2>2, <3>1
    <3>3. Owned(k)'
      BY <1>1, <3>1, <3>2 DEF Owned
    <3> QED
      BY <3>1, <3>2, <3>3
  <2> QED
    BY <2>1, <2>2
<1>11. Indexed'
  BY <1>1, <1>3 DEF IInv, Indexed, Recovering, Finishing
<1>12. Serving'
  <2> SUFFICES ASSUME NEW y \in Accounts, held'[y] # None, held'[y].available
      PROVE  /\ disk'[held'[y].dir] # None /\ disk'[held'[y].dir].account = y
             /\ KeyOf[disk'[held'[y].dir].alias] = held'[y].dir /\ KeyOf[held'[y].alias] = held'[y].dir
    BY DEF Serving
  <2>1. CASE y = x
    BY <1>3, <1>4, <2>1 DEF n
  <2>2. CASE y # x
    BY <1>2, <1>3, <1>4, <2>2, OwnerTyped DEF IInv, Serving
  <2> QED
    BY <2>1, <2>2
<1>13. Asked'
  BY <1>4 DEF IInv, Asked
<1> QED
  BY <1>6, <1>7, <1>8, <1>10, <1>11, <1>12, <1>13, RestIs DEF Rest

LEMMA EntersKeep == ASSUME IInv, TypeOK', Enters PROVE IInv'
<1>1. ASSUME NEW x \in Accounts, NEW a \in Aliases, Import(x, a) PROVE IInv'
  BY <1>1, AdmitKeeps DEF Import
<1>2. ASSUME NEW x \in Accounts, NEW k \in Keys, AddAdmit(k, x) PROVE IInv'
  <2>1. adds[k] \in Aliases
    BY <1>2, TypeOKIs DEF IInv, AddAdmit
  <2> QED
    BY <1>2, <2>1, AdmitKeeps DEF AddAdmit
<1> QED
  BY <1>1, <1>2 DEF Enters

---------------------------------------------------------------------------
(* A rename, until its intent is written. *)

LEMMA StartsKeep == ASSUME IInv, TypeOK', Starts PROVE IInv'
<1>1. PICK c \in Clients : RenameStart(c)
  BY DEF Starts
<1> DEFINE k == Resolve(calls[c].alias)
<1>2. /\ Interrupted = {} /\ ~Recovering /\ up /\ ~unresolved /\ op.client = None /\ op.pc = "idle"
      /\ \A j \in Keys : index[j] # None => Owned(j)
  BY <1>1, WritableIs DEF RenameStart, Writable, Locked
<1>3. /\ k \in Keys /\ k = KeyOf[calls[c].alias] /\ index[k] # None /\ index[k].account \in Accounts
      /\ Owned(k) /\ held[index[k].account] # None
  BY <1>1, <1>2, ResolvedIs DEF RenameStart, IInv, Memory
<1>4. /\ op' = [pc |-> "stop", client |-> c, key |-> k, account |-> index[k].account,
                dir |-> held[index[k].account].dir]
      /\ disk' = disk /\ tombs' = tombs /\ up' = up /\ unresolved' = unresolved /\ index' = index
      /\ held' = held /\ calls' = calls /\ token' = token
      /\ calls[c].pc = "sent" /\ Renamable(c, k)
  BY <1>1 DEF RenameStart, durable, memory
<1> HIDE DEF k
<1>5. /\ op'.pc = "stop" /\ op'.client = c /\ op'.key = k /\ op'.account = index[k].account
      /\ op'.dir = k /\ c # None
  BY <1>2, <1>3, <1>4 DEF Owned
<1>6. KeyOf[calls[c].to] # k => Free(KeyOf[calls[c].to])
  BY <1>3, <1>4 DEF Renamable, New, Tombed, Free
<1>7. DirectoriesNamed' /\ Interrupted' = {} /\ Serving'
  BY <1>2, <1>4, DirectoriesKept, ServingKept DEF FilesKept
<1>8. IntentsWait' /\ Quiet'
  BY <1>2, <1>4, <1>5, <1>7 DEF IntentsWait, Quiet, Recovering
<1>9. Renaming'
  BY <1>2, <1>3, <1>4, <1>5, <1>6 DEF Renaming, To, Free, Finishing
<1>10. OpPlaced'
  BY <1>2, <1>4, <1>5, <1>9 DEF OpPlaced, Finishing
<1>11. Memory'
  BY <1>2, <1>4, <1>5 DEF IInv, Memory, Owned
<1>12. Indexed'
  BY <1>2, <1>4, <1>5 DEF IInv, Indexed, Recovering, Finishing
<1>13. Asked'
  BY <1>4 DEF IInv, Asked
<1> QED
  BY <1>7, <1>8, <1>10, <1>11, <1>12, <1>13, RestIs DEF Rest

\* What is known of a rename outside of its work on the files.
LEMMA RequestIs ==
  ASSUME IInv, op.client # None
  PROVE  /\ op.client \in Clients /\ op.account \in Accounts /\ op.key \in Keys /\ op.dir \in Keys
         /\ Renaming /\ up /\ ~unresolved /\ ~Recovering
         /\ To \in Aliases /\ KeyOf[To] \in Keys
         /\ op.pc \notin Finishing => Interrupted = {}
         /\ op.pc \in Finishing \cup {"stop", "intent", "reload", "index", "launch"}
<1>1. op.client \in Clients /\ op.pc \in {"idle", "scan"} \cup Finishing \cup
        {"stop", "intent", "reload", "index", "launch"}
  BY TypeOKIs DEF IInv, Ops
<1>2. Renaming /\ up /\ ~unresolved /\ ~Recovering /\ op.pc \notin {"idle", "scan"}
  BY DEF IInv, OpPlaced, Renaming, Recovering
<1>3. To \in Aliases
  BY <1>1, <1>2 DEF IInv, Asked, Renaming, To
<1>4. op.pc \notin Finishing => Interrupted = {}
  BY <1>2 DEF IInv, IntentsWait
<1> QED
  BY <1>1, <1>2, <1>3, <1>4 DEF Renaming

\* Owners are where they were; one that serves now served before, or was launched.
OwnersSame(serves) ==
  \A y \in Accounts :
    /\ held'[y] # None <=> held[y] # None
    /\ held[y] # None => held'[y].dir = held[y].dir /\ held'[y].alias = held[y].alias
    /\ held'[y] # None /\ held'[y].available => held[y].available \/ y = serves

LEMMA AvailableIs ==
  ASSUME IInv, op.client # None, NEW b \in BOOLEAN,
         held' = [held EXCEPT ![op.account].available = b]
  PROVE  /\ OwnersSame(IF b THEN op.account ELSE None)
         /\ held'[op.account] # None /\ held'[op.account].available = b
         /\ held'[op.account].dir = held[op.account].dir
         /\ held'[op.account].alias = held[op.account].alias
<1>1. op.account \in Accounts /\ held[op.account] # None /\ held[op.account] \in Owners
  BY RequestIs, OwnerTyped DEF IInv, Renaming
<1>2. held'[op.account] = [held[op.account] EXCEPT !.available = b]
  BY <1>1, TypeOKIs DEF IInv, TypedHeld
<1>3. /\ held'[op.account] \in Owners /\ held'[op.account].available = b
      /\ held'[op.account].dir = held[op.account].dir
      /\ held'[op.account].alias = held[op.account].alias
  BY <1>1, <1>2 DEF Owners
<1>4. \A y \in Accounts : y # op.account => held'[y] = held[y]
  BY TypeOKIs DEF IInv, TypedHeld
<1> QED
  BY <1>1, <1>3, <1>4 DEF OwnersSame

LEMMA SameServing ==
  ASSUME IInv, FilesKept, NEW x, OwnersSame(x),
         x \in Accounts => /\ held[x].dir \in Keys /\ disk[held[x].dir] # None
                           /\ disk[held[x].dir].account = x
                           /\ KeyOf[disk[held[x].dir].alias] = held[x].dir
                           /\ KeyOf[held[x].alias] = held[x].dir
  PROVE  Serving'
  BY DEF FilesKept, IInv, Serving, OwnersSame

LEMMA SameMemory ==
  ASSUME IInv, FilesKept, NEW x, OwnersSame(x), index' = index, unresolved' = unresolved,
         op.pc \notin {"index", "tombstone"}
  PROVE  Memory'
<1> SUFFICES ASSUME NEW k \in Keys, index[k] # None
    PROVE  held'[index[k].account] # None /\ (~unresolved => Owned(k)')
  BY DEF Memory
<1>1. index[k].account \in Accounts /\ held[index[k].account] # None /\ (~unresolved => Owned(k))
  BY EntryTyped DEF IInv, Memory
<1> QED
  BY <1>1 DEF Owned, OwnersSame, FilesKept

\* A rename ends, with an answer or without.
LEMMA EndsKeep ==
  ASSUME IInv, TypeOK', op.client # None, op.pc \in {"stop", "intent", "reload", "launch"},
         op' = Idle, FilesKept, index' = index, up' = up, unresolved' = unresolved, token' = token,
         \A d \in Clients : calls'[d].alias = calls[d].alias /\ calls'[d].to = calls[d].to,
         \A d \in Clients : calls'[d].pc # "idle" => calls[d].pc # "idle",
         NEW x, OwnersSame(x), x \in Accounts => x = op.account /\ op.pc = "launch",
         op.pc = "reload" => "reload" \in Failures
  PROVE  IInv'
<1>1. /\ op.client \in Clients /\ op.account \in Accounts /\ op.key \in Keys /\ op.dir \in Keys
      /\ Renaming /\ up /\ ~unresolved /\ ~Recovering /\ Interrupted = {}
  BY RequestIs DEF Finishing
<1>2. op'.pc = "idle" /\ op'.client = None
  BY DEF Idle
<1>3. DirectoriesNamed' /\ Interrupted' = {}
  BY <1>1, DirectoriesKept
<1>4. Serving'
  <2>1. op.pc = "launch" => /\ held[op.account].dir = op.dir /\ disk[op.dir] # None
                            /\ disk[op.dir].account = op.account
                            /\ KeyOf[held[op.account].alias] = op.dir
    BY <1>1 DEF Renaming
  <2>2. op.pc = "launch" => KeyOf[disk[op.dir].alias] = op.dir
    BY <1>1, <2>1, DirectoryIs DEF Directory, Interrupted
  <2> QED
    BY <1>1, <2>1, <2>2, SameServing
<1>5. Memory'
  BY SameMemory
<1>6. IntentsWait' /\ Quiet' /\ OpPlaced'
  BY <1>1, <1>2, <1>3 DEF IntentsWait, Quiet, Recovering, OpPlaced, Finishing
<1>7. Indexed'
  BY <1>1, <1>2 DEF IInv, Indexed, Recovering, Finishing, FilesKept
<1>8. Asked'
  BY DEF IInv, Asked, OwnersSame
<1> QED
  BY <1>3, <1>4, <1>5, <1>6, <1>7, <1>8, RestIs DEF Rest

\* An answer keeps what the requests ask for.
LEMMA AnswerKeeps ==
  ASSUME IInv, op.client # None, NEW answer \in Accounts \cup {None, "refused"},
         Answer(op.client, answer)
  PROVE  /\ \A d \in Clients : calls'[d].alias = calls[d].alias /\ calls'[d].to = calls[d].to
         /\ \A d \in Clients : calls'[d].pc # "idle" => calls[d].pc # "idle"
<1>1. op.client \in Clients /\ calls[op.client].pc = "sent"
  BY RequestIs DEF Renaming
<1> QED
  BY <1>1, AnswerTyped DEF IInv

LEMMA StopKeeps == ASSUME IInv, TypeOK', StopOwner \/ StopFails PROVE IInv'
<1>1. op.client # None /\ op.pc = "stop"
  BY DEF StopOwner, StopFails, IInv, OpPlaced, Finishing
<1>2. /\ op.client \in Clients /\ op.account \in Accounts /\ op.key \in Keys /\ op.dir \in Keys
      /\ Renaming /\ up /\ ~unresolved /\ ~Recovering /\ Interrupted = {}
  BY <1>1, RequestIs DEF Finishing
<1>3. CASE StopFails
  <2>1. OwnersSame(None)
    BY <1>3 DEF StopFails, memory, OwnersSame
  <2> QED
    BY <1>1, <1>3, <2>1, AnswerKeeps, EndsKeep DEF StopFails, FilesKept, durable, memory
<1>4. CASE StopOwner
  <2>1. /\ OwnersSame(None) /\ held'[op.account] # None /\ ~held'[op.account].available
        /\ held'[op.account].dir = held[op.account].dir
        /\ FilesKept /\ index' = index /\ up' = up /\ unresolved' = unresolved /\ token' = token
    BY <1>1, <1>4, AvailableIs DEF StopOwner, FilesKept, durable
  <2>2. CASE op' = Idle
    <3>1. Answer(op.client, "refused")
      BY <1>1, <1>4, <2>2 DEF StopOwner, Idle
    <3> QED
      BY <1>1, <2>1, <2>2, <3>1, AnswerKeeps, EndsKeep
  <2>3. CASE op' = [op EXCEPT !.pc = "intent"] /\ disk[op.dir] # None /\ calls' = calls
    <3>1. /\ op'.pc = "intent" /\ op'.client = op.client /\ op'.key = op.key
          /\ op'.account = op.account /\ op'.dir = op.dir
      BY <2>3, TypeOKIs DEF IInv, Ops
    <3>2. DirectoriesNamed' /\ Interrupted' = {} /\ Serving' /\ Memory'
      BY <1>1, <1>2, <2>1, DirectoriesKept, SameServing, SameMemory
    <3>3. IntentsWait' /\ Quiet'
      BY <1>1, <1>2, <2>1, <3>1, <3>2 DEF IntentsWait, Quiet, Recovering
    <3>4. disk[op.dir].account = op.account
      BY <1>1, <1>2, <2>3 DEF Renaming, IInv, Memory, Owned
    <3>5. Renaming'
      BY <1>1, <1>2, <2>1, <2>3, <3>1, <3>4 DEF Renaming, To, Free, FilesKept, Finishing
    <3>6. OpPlaced'
      BY <1>1, <1>2, <2>1, <3>1, <3>5 DEF OpPlaced, Finishing
    <3>7. Indexed'
      BY <1>1, <1>2, <2>1, <3>1 DEF IInv, Indexed, Recovering, Finishing, FilesKept
    <3>8. Asked'
      BY <1>4, <2>1, <2>3 DEF IInv, Asked, OwnersSame
    <3> QED
      BY <3>2, <3>3, <3>6, <3>7, <3>8, RestIs DEF Rest
  <2> QED
    BY <1>4, <2>2, <2>3 DEF StopOwner
<1> QED
  BY <1>3, <1>4

\* The hypotheses on failures: a directory that cannot be synced leaves an intent behind that
\* the process does not know of, and a client that goes away while the index waits leaves it
\* behind the files.
Known == "intent_sync" \notin Failures /\ "index" \notin Failures

LEMMA IntentKeeps == ASSUME Known, IInv, TypeOK', WriteIntent \/ IntentFails PROVE IInv'
<1>1. op.client # None /\ op.pc = "intent"
  BY DEF WriteIntent, IntentFails, IInv, OpPlaced, Finishing
<1>2. /\ op.client \in Clients /\ op.account \in Accounts /\ op.key \in Keys /\ op.dir \in Keys
      /\ Renaming /\ up /\ ~unresolved /\ ~Recovering /\ Interrupted = {}
      /\ To \in Aliases /\ KeyOf[To] \in Keys
  BY <1>1, RequestIs DEF Finishing
<1>3. CASE IntentFails
  <2>1. OwnersSame(None) /\ FilesKept
    BY <1>3 DEF Known, Fault, IntentFails, memory, OwnersSame, FilesKept
  <2> QED
    BY <1>1, <1>3, <2>1, AnswerKeeps, EndsKeep DEF IntentFails, memory
<1>4. CASE WriteIntent
  <2>0. PICK k \in Keys : k = op.dir
    BY <1>2
  <2>1. /\ disk[k] # None /\ disk[k].account = op.account /\ disk[k] \in Directories
        /\ op.key = k /\ (KeyOf[To] # k => Free(KeyOf[To]))
        /\ index[k] # None /\ index[k].account = op.account
        /\ held[op.account] # None /\ ~held[op.account].available
    BY <1>1, <1>2, <2>0, DirectoryTyped DEF Renaming, IInv
  <2>2. PICK i \in Intents : i = Intent /\ i.to = To /\ KeyOf[i.from] = k
    <3>1. KeyOf[held[op.account].alias] = k /\ held[op.account].alias \in Aliases
      BY <1>1, <1>2, <2>1, OwnerTyped DEF IInv, Memory, Owned
    <3>2. Intent \in Intents /\ Intent.to = To /\ Intent.from = held[op.account].alias
      BY <1>2, <3>1 DEF Intent, To, Intents
    <3> QED
      BY <3>1, <3>2
  <2>3. /\ op'.pc = "save" /\ op'.client = op.client /\ op'.key = op.key
        /\ op'.account = op.account /\ op'.dir = op.dir
    BY <1>4, TypeOKIs DEF IInv, Ops, WriteIntent
  <2>4. /\ tombs' = tombs /\ index' = index /\ held' = held /\ up' = up
        /\ unresolved' = unresolved /\ calls' = calls /\ token' = token
        /\ disk' = [disk EXCEPT ![k].intent = i]
    BY <1>4, <2>0, <2>2 DEF WriteIntent, memory
  <2>5. /\ disk'[k] = [disk[k] EXCEPT !.intent = i]
        /\ \A j \in Keys : j # k => disk'[j] = disk[j]
    BY <2>4, TypeOKIs DEF IInv, TypedDisk
  <2>6. /\ disk'[k].intent = i /\ disk'[k].account = disk[k].account
        /\ disk'[k].alias = disk[k].alias /\ disk'[k] \in Directories
        /\ \A j \in Keys : j # k => disk'[j] = disk[j]
    BY <2>1, <2>2, <2>5 DEF Directories
  <2>7. disk'[k] # None /\ i # None /\ k \in Keys
    BY <1>2, <2>2, <2>6
  <2>8. Interrupted' = {k}
    BY <1>2, <2>6, <2>7 DEF Interrupted
  <2>9. disk[k].intent = None /\ KeyOf[disk[k].alias] = k /\ tombs[k] = None
    BY <1>2, <2>1, <2>7, DirectoryIs DEF Directory, Interrupted
  <2>10. Unmoved(k)'
    <3>1. KeyOf[i.from] = k /\ KeyOf[disk'[k].alias] = KeyOf[i.from]
      BY <2>2, <2>6, <2>9
    <3>2. KeyOf[i.to] # k => disk'[KeyOf[i.to]] = None /\ tombs'[KeyOf[i.to]] = None
      BY <1>2, <2>1, <2>2, <2>4, <2>6 DEF Free
    <3> QED
      BY <2>6, <3>1, <3>2 DEF Unmoved, Matches, Free
  <2>11. DirectoriesNamed'
    <3>1. \A j \in Keys : j # k /\ disk[j] # None => disk[j].intent = None
      BY <1>2 DEF Interrupted
    <3>2. \A j \in Keys : disk'[j] # None => Directory(j)'
      <4>1. Directory(k)'
        BY <2>4, <2>6, <2>7, <2>9, <2>10 DEF Directory
      <4>2. \A j \in Keys : j # k /\ disk[j] # None => tombs[j] = None /\ KeyOf[disk[j].alias] = j
        BY <3>1 DEF IInv, DirectoriesNamed, Directory
      <4> QED
        BY <2>4, <2>6, <3>1, <4>1, <4>2 DEF Directory
    <3>3. \A j \in Keys : disk'[j] # None => disk[j] # None /\ disk'[j].account = disk[j].account
      BY <2>1, <2>5, <2>6
    <3>4. \A j \in Keys : j # k /\ disk'[j] # None => disk'[j].intent = None
      BY <2>5, <3>1
    <3> QED
      BY <3>2, <3>3, <3>4 DEF IInv, DirectoriesNamed
  <2>12. IntentsWait' /\ Quiet'
    BY <1>1, <1>2, <2>3, <2>4 DEF IntentsWait, Quiet, Recovering, Finishing
  <2>13. Renaming'
    BY <1>1, <1>2, <2>1, <2>2, <2>3, <2>4, <2>6, <2>7, <2>0 DEF Renaming, To, Owed, Finishing
  <2>14. OpPlaced'
    BY <1>1, <1>2, <2>3, <2>4, <2>8, <2>13, <2>0 DEF OpPlaced, Finishing
  <2>15. Memory'
    <3>1. \A j \in Keys : disk'[j] # None <=> disk[j] # None
      BY <2>1, <2>5, <2>7
    <3>2. \A j \in Keys : disk[j] # None => disk'[j].account = disk[j].account
      BY <2>5, <2>6
    <3> QED
      BY <1>1, <2>3, <2>4, <3>1, <3>2 DEF IInv, Memory, Owned
  <2>16. Indexed'
    BY <1>1, <1>2, <2>1, <2>3, <2>4, <2>5, <2>7 DEF IInv, Indexed, Recovering, Finishing
  <2>17. Serving'
    BY <2>1, <2>4, <2>5, OwnerTyped DEF IInv, Serving
  <2>18. Asked'
    BY <2>4 DEF IInv, Asked
  <2> QED
    BY <2>11, <2>12, <2>14, <2>15, <2>16, <2>17, <2>18, RestIs DEF Rest
<1> QED
  BY <1>3, <1>4

---------------------------------------------------------------------------
(* The owner follows its files. *)

LEMMA ReloadKeeps == ASSUME IInv, TypeOK', Reload PROVE IInv'
<1>1. op.client # None /\ op.pc = "reload"
  BY DEF Reload, IInv, OpPlaced, Finishing
<1>2. /\ op.client \in Clients /\ op.account \in Accounts /\ op.key \in Keys /\ op.dir \in Keys
      /\ Renaming /\ up /\ ~unresolved /\ ~Recovering /\ Interrupted = {}
      /\ To \in Aliases /\ KeyOf[To] \in Keys
  BY <1>1, RequestIs DEF Finishing
<1>3. CASE Fault("reload") /\ Answer(op.client, "refused") /\ op' = Idle /\ held' = held
  <2>1. OwnersSame(None) /\ FilesKept
    BY <1>3 DEF Reload, durable, OwnersSame, FilesKept
  <2> QED
    BY <1>1, <1>3, <2>1, AnswerKeeps, EndsKeep DEF Reload, Fault
<1>4. CASE /\ held' = [held EXCEPT ![op.account] =
                [alias |-> disk[op.dir].alias, dir |-> op.dir, available |-> FALSE]]
           /\ op' = [op EXCEPT !.pc = "index"] /\ calls' = calls
  <2>1. /\ op'.pc = "index" /\ op'.client = op.client /\ op'.key = op.key
        /\ op'.account = op.account /\ op'.dir = op.dir
    BY <1>4, TypeOKIs DEF IInv, Ops
  <2>2. FilesKept /\ index' = index /\ up' = up /\ unresolved' = unresolved /\ token' = token
    BY DEF Reload, FilesKept, durable
  <2>3. /\ disk[op.dir] # None /\ disk[op.dir].account = op.account /\ disk[op.dir].alias = To
        /\ KeyOf[To] = op.dir /\ index[op.key] # None /\ index[op.key].account = op.account
        /\ held[op.account] # None /\ (op.key # op.dir => disk[op.key] = None)
    BY <1>1, <1>2 DEF Renaming
  <2>4. held[op.account].dir = op.key
    BY <1>1, <1>2, <2>3 DEF IInv, Memory, Owned
  <2>5. /\ \A y \in Accounts : y # op.account => held'[y] = held[y]
        /\ held'[op.account].alias = To /\ held'[op.account].dir = op.dir
        /\ ~held'[op.account].available /\ held'[op.account] # None
    <3>1. [alias |-> disk[op.dir].alias, dir |-> op.dir, available |-> FALSE] \in Owners
      BY <1>2, <2>3 DEF Owners
    <3> QED
      BY <1>2, <1>4, <2>3, <3>1, TypeOKIs DEF IInv, TypedHeld
  <2>6. DirectoriesNamed' /\ Interrupted' = {}
    BY <1>2, <2>2, DirectoriesKept
  <2>7. IntentsWait' /\ Quiet'
    BY <1>1, <1>2, <2>1, <2>2, <2>6 DEF IntentsWait, Quiet, Recovering
  <2>8. Renaming'
    BY <1>1, <1>2, <1>4, <2>1, <2>2, <2>3, <2>5 DEF Renaming, To, Finishing, FilesKept
  <2>9. OpPlaced'
    BY <1>1, <1>2, <2>1, <2>2, <2>8 DEF OpPlaced, Finishing
  <2>10. Memory'
    <3> SUFFICES ASSUME NEW k \in Keys, index[k] # None
        PROVE  held'[index[k].account] # None /\ Owned(k)'
      BY <2>2 DEF Memory
    <3>1. index[k].account \in Accounts /\ held[index[k].account] # None /\ Owned(k)
      BY <1>2, EntryTyped DEF IInv, Memory
    <3>2. index[k].account = op.account => k = op.key
      BY <1>1, <2>4, <3>1 DEF Owned
    <3> QED
      BY <1>1, <2>1, <2>2, <2>5, <3>1, <3>2 DEF Owned, FilesKept
  <2>11. Indexed'
    BY <1>1, <1>2, <1>4, <2>1, <2>2 DEF IInv, Indexed, Recovering, Finishing, FilesKept, To
  <2>12. Serving'
    BY <2>2, <2>5 DEF IInv, Serving, FilesKept
  <2>13. Asked'
    BY <1>4, <2>2, <2>5 DEF IInv, Asked
  <2> QED
    BY <2>6, <2>7, <2>9, <2>10, <2>11, <2>12, <2>13, RestIs DEF Rest
<1> QED
  BY <1>3, <1>4 DEF Reload

LEMMA ReindexKeeps == ASSUME IInv, TypeOK', Reindex PROVE IInv'
<1>1. op.client # None /\ op.pc = "index"
  BY DEF Reindex, IInv, OpPlaced, Finishing
<1>2. /\ op.client \in Clients /\ op.account \in Accounts /\ op.key \in Keys /\ op.dir \in Keys
      /\ Renaming /\ up /\ ~unresolved /\ ~Recovering /\ Interrupted = {}
      /\ To \in Aliases /\ KeyOf[To] \in Keys
  BY <1>1, RequestIs DEF Finishing
<1>3. /\ op'.pc = "launch" /\ op'.client = op.client /\ op'.key = op.key
      /\ op'.account = op.account /\ op'.dir = op.dir
  BY TypeOKIs DEF IInv, Ops, Reindex
<1>4. /\ FilesKept /\ held' = held /\ up' = up /\ unresolved' = unresolved /\ calls' = calls
      /\ token' = token
  BY DEF Reindex, FilesKept, durable
<1>5. /\ disk[op.dir] # None /\ disk[op.dir].account = op.account /\ KeyOf[To] = op.dir
      /\ index[op.key] # None /\ index[op.key].account = op.account
      /\ held[op.account] # None /\ ~held[op.account].available
      /\ held[op.account].dir = op.dir /\ KeyOf[held[op.account].alias] = op.dir
      /\ (op.key # op.dir => disk[op.key] = None)
  BY <1>1, <1>2 DEF Renaming
<1>6. /\ index'[op.dir] = [alias |-> To, account |-> op.account] /\ index'[op.dir] # None
      /\ op.key # op.dir => index'[op.key] = None
      /\ \A k \in Keys : k # op.dir /\ k # op.key => index'[k] = index[k]
  <2>1. [alias |-> To, account |-> op.account] \in Entries
    BY <1>2 DEF Entries
  <2> QED
    BY <1>2, <1>5, <2>1 DEF Reindex, To
<1>7. DirectoriesNamed' /\ Interrupted' = {} /\ Serving'
  BY <1>2, <1>4, DirectoriesKept, ServingKept
<1>8. IntentsWait' /\ Quiet'
  BY <1>1, <1>2, <1>3, <1>4, <1>7 DEF IntentsWait, Quiet, Recovering
<1>9. Renaming'
  BY <1>1, <1>2, <1>3, <1>4, <1>5 DEF Renaming, Finishing, FilesKept
<1>10. OpPlaced'
  BY <1>1, <1>2, <1>3, <1>4, <1>9 DEF OpPlaced, Finishing
<1>11. Memory'
  <2> SUFFICES ASSUME NEW k \in Keys, index'[k] # None
      PROVE  held[index'[k].account] # None /\ Owned(k)'
    BY <1>4 DEF Memory
  <2>1. CASE k = op.dir
    BY <1>4, <1>5, <1>6, <2>1 DEF Owned, FilesKept
  <2>2. CASE k # op.dir
    <3>1. k # op.key /\ index'[k] = index[k]
      BY <1>6, <2>2
    <3>2. held[index[k].account] # None /\ Owned(k)
      BY <1>2, <3>1 DEF IInv, Memory
    <3> QED
      BY <1>1, <1>4, <3>1, <3>2 DEF Owned, FilesKept
  <2> QED
    BY <2>1, <2>2
<1>12. Indexed'
  BY <1>1, <1>2, <1>3, <1>4, <1>5, <1>6 DEF IInv, Indexed, Recovering, Finishing, FilesKept
<1>13. Asked'
  BY <1>4 DEF IInv, Asked
<1> QED
  BY <1>7, <1>8, <1>10, <1>11, <1>12, <1>13, RestIs DEF Rest

LEMMA LaunchKeeps == ASSUME Known, IInv, TypeOK', Launch \/ Disconnect PROVE IInv'
<1>1. op.client # None /\ op.pc = "launch"
  BY DEF Launch, Disconnect, Known, Fault, IInv, OpPlaced, Finishing
<1>2. CASE Launch
  <2>1. PICK b \in BOOLEAN : held' = [held EXCEPT ![op.account].available = b]
    BY <1>2 DEF Launch
  <2>2. OwnersSame(IF b THEN op.account ELSE None)
    BY <1>1, <2>1, AvailableIs
  <2>3. op.account \in Accounts /\ Answer(op.client, op.account)
    BY <1>1, <1>2, RequestIs DEF Launch
  <2> QED
    BY <1>1, <1>2, <2>2, <2>3, AnswerKeeps, EndsKeep DEF Launch, FilesKept, durable
<1>3. CASE Disconnect
  <2>1. op.client \in Clients /\ calls[op.client].pc = "sent"
    BY <1>1, RequestIs DEF Renaming
  <2>2. /\ \A d \in Clients : calls'[d].alias = calls[d].alias /\ calls'[d].to = calls[d].to
        /\ \A d \in Clients : calls'[d].pc # "idle" => calls[d].pc # "idle"
    BY <1>3, <2>1, TypeOKIs DEF IInv, Calls, Disconnect
  <2>3. OwnersSame(None)
    BY <1>3 DEF Disconnect, memory, OwnersSame
  <2> QED
    BY <1>1, <1>3, <2>2, <2>3, EndsKeep DEF Disconnect, FilesKept, durable, memory
<1> QED
  BY <1>2, <1>3

---------------------------------------------------------------------------
(* The work on the files, for a request and for the recovery. *)

\* The directory that a rename works on.
LEMMA FinishIs ==
  ASSUME IInv, op.pc \in Finishing
  PROVE  /\ op.dir \in Keys /\ disk[op.dir] # None /\ disk[op.dir] \in Directories
         /\ Owed \in Intents /\ Owed # None /\ Owed.to \in Aliases /\ Owed.from \in Aliases
         /\ Target \in Keys /\ KeyOf[Owed.from] \in Keys /\ Target = KeyOf[Owed.to]
         /\ tombs[op.dir] = None /\ (Unmoved(op.dir) \/ Moved(op.dir))
         /\ up /\ ~unresolved
         /\ op.dir \in Interrupted /\ \A k \in Interrupted : k = op.dir
         /\ \A k \in Keys : disk[k] # None /\ disk[k].account = disk[op.dir].account => k = op.dir
         /\ op.client = None => Recovering
<1>1. op.dir \in Interrupted /\ up /\ ~unresolved
  BY DEF IInv, OpPlaced, Finishing
<1>2. /\ op.dir \in Keys /\ disk[op.dir] # None /\ disk[op.dir] \in Directories
      /\ Owed \in Intents /\ Owed # None /\ Owed.to \in Aliases /\ Owed.from \in Aliases
      /\ Target \in Keys /\ KeyOf[Owed.from] \in Keys /\ Target = KeyOf[Owed.to]
  BY <1>1, IntentTyped, DirectoryTyped DEF IInv, Owed, Target
<1>3. Directory(op.dir) /\ \A k \in Interrupted : k = op.dir
  BY <1>1, <1>2, DirectoryIs DEF Interrupted
<1> QED
  BY <1>1, <1>2, <1>3, DirectoryIs DEF Directory, Owed, Recovering, Finishing

\* A step of the work: the directory stays or moves to its new key, an alias may be
\* retired, and what belongs to others stays.
Worked(d) ==
  /\ d \in {op.dir, Target}
  /\ d # op.dir => op.pc = "move" /\ op'.pc = "tombstone"
  /\ \A k \in Keys : k \notin {op.dir, Target} => disk'[k] = disk[k]
  /\ disk'[d] # None /\ disk'[d].account = disk[op.dir].account
  /\ \A k \in {op.dir, Target} : k # d => disk'[k] = None
  /\ \A k \in Keys : k # KeyOf[Owed.from] => tombs'[k] = tombs[k]
  /\ \A k \in Keys : tombs[k] # None => tombs'[k] # None
  /\ op.pc = "tombstone" /\ KeyOf[Owed.from] # op.dir => tombs'[KeyOf[Owed.from]] # None
  /\ op'.client = op.client /\ op'.pc # "idle" /\ op'.pc # "index"
  /\ op.client # None => /\ op'.pc \in Finishing \cup {"reload"}
                         /\ op'.key = op.key /\ op'.account = op.account /\ op'.dir = d
  /\ index' = index /\ held' = held /\ up' = up /\ unresolved' = unresolved
  /\ calls' = calls /\ token' = token

\* A request works on the directory of its account, the recovery before anything is known.
LEMMA WorkIs ==
  ASSUME IInv, op.pc \in Finishing, op.client # None
  PROVE  /\ op.account \in Accounts /\ op.key \in Keys /\ ~Recovering
         /\ disk[op.dir].account = op.account /\ Owed.to = To /\ KeyOf[Owed.from] = op.key
         /\ ~held[op.account].available /\ held[op.account] # None
         /\ index[op.key] # None /\ index[op.key].account = op.account
         /\ op.dir \in {op.key, KeyOf[To]} /\ Target = KeyOf[To]
<1>1. Renaming /\ op.account \in Accounts /\ op.key \in Keys /\ ~Recovering
  BY RequestIs
<1>2. Unmoved(op.dir) \/ Moved(op.dir)
  BY FinishIs
<1>3. Owed.to = To /\ KeyOf[Owed.from] = op.key
  BY <1>1 DEF Renaming
<1> QED
  BY <1>1, <1>2, <1>3, FinishIs DEF Renaming, Unmoved, Moved, Owed, Finishing

LEMMA TargetIs ==
  ASSUME IInv, op.pc \in Finishing
  PROVE  /\ Target # op.dir => /\ disk[Target] = None /\ tombs[Target] = None
                               /\ Unmoved(op.dir) /\ KeyOf[Owed.from] = op.dir
         /\ Target = op.dir \/ KeyOf[Owed.from] = op.dir
         /\ KeyOf[Owed.from] # op.dir => disk[KeyOf[Owed.from]] = None
<1>1. Unmoved(op.dir) \/ Moved(op.dir)
  BY FinishIs
<1> QED
  BY <1>1 DEF Unmoved, Moved, Free, Owed, Target

\* The owners and the index are none of the work's business.
LEMMA WorkedBeside ==
  ASSUME IInv, op.pc \in Finishing, NEW d, Worked(d)
  PROVE  Quiet' /\ Memory' /\ Indexed' /\ Serving' /\ Asked'
<1> USE DEF Worked
<1>1. /\ op.dir \in Keys /\ disk[op.dir] # None /\ up /\ ~unresolved /\ Target \in Keys
      /\ KeyOf[Owed.from] \in Keys /\ d \in Keys /\ op.pc # "idle"
      /\ \A k \in Keys : disk[k] # None /\ disk[k].account = disk[op.dir].account => k = op.dir
      /\ op.client = None => Recovering
  BY FinishIs DEF Finishing
<1>2. Quiet'
  BY <1>1 DEF IInv, Quiet, Recovering, Finishing
<1>3. Asked'
  BY DEF IInv, Asked
<1>4. CASE op.client = None
  <2>1. (\A k \in Keys : index[k] = None) /\ \A x \in Accounts : held[x] = None
    BY <1>1, <1>4 DEF IInv, Quiet
  <2>2. Recovering'
    BY <1>1, <1>4 DEF Recovering
  <2> QED
    BY <1>2, <1>3, <2>1, <2>2 DEF Memory, Indexed, Serving
<1>5. CASE op.client # None
  <2>1. /\ op.account \in Accounts /\ op.key \in Keys /\ ~Recovering
        /\ disk[op.dir].account = op.account /\ KeyOf[Owed.from] = op.key
        /\ ~held[op.account].available /\ held[op.account] # None
        /\ op.dir \in {op.key, KeyOf[To]} /\ Target = KeyOf[To]
    BY <1>5, WorkIs
  <2>2. /\ Target # op.dir => disk[Target] = None /\ tombs[Target] = None /\ op.key = op.dir
        /\ op.key # op.dir => disk[op.key] = None
    BY <2>1, TargetIs
  <2>3. Memory'
    <3> SUFFICES ASSUME NEW k \in Keys, index[k] # None
        PROVE  held[index[k].account] # None /\ Owned(k)'
      BY DEF Memory
    <3>1. held[index[k].account] # None /\ Owned(k)
      BY <1>1 DEF IInv, Memory
    <3>2. held[index[k].account].dir = k /\ KeyOf[held[index[k].account].alias] = k
      BY <3>1 DEF Owned, Finishing
    <3>3. disk'[k] # None => disk'[k].account = index[k].account
      <4>1. CASE k \notin {op.dir, Target}
        BY <3>1, <4>1 DEF Owned
      <4>2. CASE k = op.dir
        BY <1>1, <3>1, <4>2 DEF Owned
      <4>3. CASE k = Target /\ k # op.dir
        BY <2>2, <3>1, <4>3 DEF Owned
      <4> QED
        BY <4>1, <4>2, <4>3
    <3>4. disk'[k] = None => tombs'[k] # None \/ (op'.pc = "tombstone" /\ k = op.key)
      <4>1. CASE disk[k] = None
        BY <1>1, <2>1, <2>2, <3>1, <4>1 DEF Owned
      <4>2. CASE disk[k] # None
        BY <1>1, <2>2, <4>2
      <4> QED
        BY <4>1, <4>2
    <3>5. disk'[k] = None => \E j \in Keys : disk'[j] # None /\ disk'[j].account = index[k].account
      <4>1. PICK j \in Keys : disk[j] # None /\ disk[j].account = index[k].account
        BY <3>1 DEF Owned
      <4> QED
        BY <1>1, <2>2, <4>1
    <3>6. op'.key = op.key
      BY <1>5
    <3>7. Owned(k)'
      <4> HIDE DEF Worked
      <4>1. index' = index /\ held' = held
        BY DEF Worked
      <4> QED
        BY <3>2, <3>3, <3>4, <3>5, <3>6, <4>1 DEF Owned
    <3> QED
      BY <3>1, <3>7
  <2>4. Indexed'
    BY <1>1, <1>5, <2>1 DEF IInv, Indexed, Recovering, To
  <2>5. Serving'
    <3> SUFFICES ASSUME NEW x \in Accounts, held[x] # None, held[x].available
        PROVE  disk'[held[x].dir] = disk[held[x].dir]
      BY DEF IInv, Serving
    <3>1. /\ held[x].dir \in Keys /\ disk[held[x].dir] # None /\ disk[held[x].dir].account = x
          /\ x # op.account
      BY <2>1, OwnerTyped DEF IInv, Serving
    <3> QED
      BY <1>1, <2>1, <2>2, <3>1
  <2> QED
    BY <1>2, <1>3, <2>3, <2>4, <2>5
<1> QED
  BY <1>4, <1>5

\* Nor are the other directories.
LEMMA WorkedDirectories ==
  ASSUME IInv, op.pc \in Finishing, NEW d, Worked(d), tombs'[d] = None,
         IF disk'[d].intent = None THEN KeyOf[disk'[d].alias] = d
         ELSE \E i \in Intents :
           /\ i = disk'[d].intent
           /\ \/ /\ KeyOf[i.from] = d
                 /\ KeyOf[disk'[d].alias] = d \/ disk'[d].alias = i.to
                 /\ KeyOf[i.to] # d => disk'[KeyOf[i.to]] = None /\ tombs'[KeyOf[i.to]] = None
              \/ /\ KeyOf[i.to] = d /\ disk'[d].alias = i.to
                 /\ KeyOf[i.from] # d => /\ disk'[KeyOf[i.from]] = None
                                         /\ tombs'[KeyOf[i.from]] \in {None, i.to}
  PROVE  DirectoriesNamed' /\ Interrupted' = {k \in {d} : disk'[d].intent # None}
<1> USE DEF Worked
<1>1. /\ op.dir \in Keys /\ disk[op.dir] # None /\ Target \in Keys /\ d \in Keys
      /\ KeyOf[Owed.from] \in Keys
      /\ \A k \in Keys : disk[k] # None /\ disk[k].account = disk[op.dir].account => k = op.dir
      /\ \A k \in Interrupted : k = op.dir
  BY FinishIs
<1>2. \A k \in Keys : k # d /\ disk'[k] # None =>
        /\ k \notin {op.dir, Target} /\ disk'[k] = disk[k] /\ disk[k].intent = None
        /\ tombs'[k] = None /\ KeyOf[disk[k].alias] = k
  <2> SUFFICES ASSUME NEW k \in Keys, k # d, disk'[k] # None
      PROVE  /\ k \notin {op.dir, Target} /\ disk'[k] = disk[k] /\ disk[k].intent = None
             /\ tombs'[k] = None /\ KeyOf[disk[k].alias] = k
    OBVIOUS
  <2>1. k \notin {op.dir, Target} /\ disk'[k] = disk[k] /\ disk[k] # None
    OBVIOUS
  <2>2. disk[k].intent = None
    BY <1>1, <2>1 DEF Interrupted
  <2>3. tombs[k] = None /\ KeyOf[disk[k].alias] = k
    BY <2>1, <2>2, DirectoryIs DEF Directory
  <2>4. k # KeyOf[Owed.from]
    BY <2>1, TargetIs
  <2> QED
    BY <2>1, <2>2, <2>3, <2>4
<1>3. \A k \in Keys : k # d /\ disk'[k] # None => Directory(k)'
  BY <1>2 DEF Directory
<1>4. Unmoved(d)' <=> /\ KeyOf[disk'[d].intent.from] = d /\ Matches(disk'[d])
                      /\ KeyOf[disk'[d].intent.to] # d =>
                           /\ disk'[KeyOf[disk'[d].intent.to]] = None
                           /\ tombs'[KeyOf[disk'[d].intent.to]] = None
  BY DEF Unmoved, Free
<1>5. Directory(d)'
  <2>1. CASE disk'[d].intent = None
    BY <2>1 DEF Directory
  <2>2. CASE disk'[d].intent # None
    <3>1. Unmoved(d)' \/ Moved(d)'
      BY <1>4, <2>2 DEF Moved, Matches
    <3> QED
      BY <2>2, <3>1 DEF Directory
  <2> QED
    BY <2>1, <2>2
<1>6. \A j, k \in Keys : disk'[j] # None /\ disk'[k] # None =>
        \/ j = k
        \/ disk'[j].account # disk'[k].account /\ (disk'[j].intent = None \/ disk'[k].intent = None)
  BY <1>1, <1>2 DEF IInv, DirectoriesNamed
<1>7. DirectoriesNamed'
  BY <1>3, <1>5, <1>6 DEF DirectoriesNamed
<1>8. Interrupted' = {k \in {d} : disk'[d].intent # None}
  BY <1>1, <1>2 DEF Interrupted
<1> QED
  BY <1>7, <1>8

\* A step of the work that leaves its directory well keeps the invariant.
LEMMA WorkedKeeps ==
  ASSUME IInv, TypeOK', op.pc \in Finishing, NEW d, Worked(d),
         DirectoriesNamed', Interrupted' = {k \in {d} : disk'[d].intent # None}, OpPlaced',
         op'.pc \in Finishing \cup {"scan"} \/ disk'[d].intent = None
  PROVE  IInv'
<1>1. Quiet' /\ Memory' /\ Indexed' /\ Serving' /\ Asked'
  BY WorkedBeside
<1>2. IntentsWait'
  BY DEF IntentsWait
<1> QED
  BY <1>1, <1>2, RestIs DEF Rest

\* The rename is at its next step.
LEMMA WorkedPlaced ==
  ASSUME IInv, op.pc \in Finishing, NEW d, Worked(d), op'.pc \in Finishing, op'.dir = d,
         disk'[d].intent = Owed, Interrupted' = {k \in {d} : disk'[d].intent # None},
         op'.pc = "move" => disk'[d].alias = Owed.to,
         op'.pc \in {"tombstone", "clear"} => Moved(d)',
         op'.pc = "clear" /\ KeyOf[Owed.from] # d => tombs'[KeyOf[Owed.from]] = Owed.to
  PROVE  OpPlaced'
<1>0. PICK i \in Intents : i = Owed /\ i # None
  BY FinishIs
<1>1. /\ d \in Keys /\ up' /\ ~unresolved' /\ op'.client = op.client /\ Owed' = i
      /\ d \in Interrupted' /\ disk'[d] # None /\ disk'[d].account = disk[op.dir].account
  BY <1>0, FinishIs DEF Worked, Owed
<1>2. op.client # None => Renaming'
  <2> SUFFICES ASSUME op.client # None PROVE Renaming'
    OBVIOUS
  <2>1. /\ Renaming /\ op.account \in Accounts /\ op.key \in Keys
        /\ disk[op.dir].account = op.account /\ Owed.to = To /\ KeyOf[Owed.from] = op.key
    BY RequestIs, WorkIs
  <2>2. /\ op'.key = op.key /\ op'.account = op.account /\ To' = To /\ held' = held
        /\ index' = index /\ calls' = calls
    BY <1>1 DEF Worked, To
  <2> QED
    BY <1>0, <1>1, <2>1, <2>2 DEF Renaming, Finishing
<1>3. op'.pc = "clear" /\ KeyOf[i.from] # d => tombs'[KeyOf[i.from]] = i.to
  BY <1>0
<1>4. op'.pc = "move" => disk'[d].alias = i.to
  BY <1>0
<1> QED
  BY <1>1, <1>2, <1>3, <1>4 DEF OpPlaced, Finishing

LEMMA SaveKeeps == ASSUME IInv, TypeOK', FinishSave PROVE IInv'
<1>1. PICK k \in Keys, i \in Intents : k = op.dir /\ i = Owed
  BY FinishIs DEF FinishSave, Finishing
<1>2. /\ op.pc \in Finishing /\ disk[k] # None /\ disk[k] \in Directories /\ disk[k].intent = i
      /\ i # None /\ i.to \in Aliases /\ KeyOf[i.to] \in Keys /\ KeyOf[i.from] \in Keys
      /\ tombs[k] = None /\ (Unmoved(k) \/ Moved(k))
  BY <1>1, FinishIs DEF FinishSave, Finishing, Owed
<1>3. /\ op'.pc = "move" /\ op'.client = op.client /\ op'.key = op.key /\ op'.account = op.account
      /\ op'.dir = k
  BY <1>1, TypeOKIs DEF IInv, Ops, FinishSave
<1>4. /\ disk' = [disk EXCEPT ![k].alias = i.to]
      /\ tombs' = tombs /\ index' = index /\ held' = held /\ up' = up /\ unresolved' = unresolved
      /\ calls' = calls /\ token' = token
  BY <1>1 DEF FinishSave, memory
<1>5. disk'[k] = [disk[k] EXCEPT !.alias = i.to] /\ \A j \in Keys : j # k => disk'[j] = disk[j]
  BY <1>4, TypeOKIs DEF IInv, TypedDisk
<1>6. /\ disk'[k].alias = i.to /\ disk'[k].intent = i /\ disk'[k].account = disk[k].account
      /\ disk'[k] # None
  <2>1. disk'[k] \in Directories
    BY <1>2, <1>5 DEF Directories
  <2> QED
    BY <1>2, <1>5, <2>1 DEF Directories
<1>7. KeyOf[i.to] # k => disk[KeyOf[i.to]] = None /\ tombs[KeyOf[i.to]] = None
  BY <1>2 DEF Unmoved, Moved, Free
<1>8. Worked(k)
  BY <1>1, <1>2, <1>3, <1>4, <1>5, <1>6, <1>7 DEF Worked, Target, FinishSave, Finishing
<1>9. \/ KeyOf[i.from] = k
      \/ KeyOf[i.to] = k /\ (KeyOf[i.from] # k => /\ disk'[KeyOf[i.from]] = None
                                                  /\ tombs'[KeyOf[i.from]] \in {None, i.to})
  BY <1>2, <1>4, <1>5 DEF Unmoved, Moved
<1>10. KeyOf[i.to] # k => disk'[KeyOf[i.to]] = None /\ tombs'[KeyOf[i.to]] = None
  BY <1>2, <1>4, <1>5, <1>7
<1>11. DirectoriesNamed' /\ Interrupted' = {j \in {k} : disk'[k].intent # None}
  BY <1>2, <1>4, <1>6, <1>8, <1>9, <1>10, WorkedDirectories
<1>12. OpPlaced'
  BY <1>1, <1>2, <1>3, <1>6, <1>8, <1>11, WorkedPlaced DEF Finishing
<1> QED
  BY <1>2, <1>3, <1>8, <1>11, <1>12, WorkedKeeps DEF Finishing

LEMMA MoveKeeps == ASSUME IInv, TypeOK', FinishMove PROVE IInv'
<1>1. PICK k \in Keys, n \in Keys, i \in Intents : k = op.dir /\ n = Target /\ i = Owed
  BY FinishIs DEF FinishMove, Finishing
<1>2. /\ op.pc \in Finishing /\ disk[k] # None /\ disk[k] \in Directories /\ disk[k].intent = i
      /\ i # None /\ i.to \in Aliases /\ n = KeyOf[i.to] /\ KeyOf[i.from] \in Keys
      /\ tombs[k] = None /\ (Unmoved(k) \/ Moved(k)) /\ disk[k].alias = i.to
  BY <1>1, FinishIs DEF FinishMove, Finishing, Owed, IInv, OpPlaced
<1>3. /\ op'.pc = "tombstone" /\ op'.client = op.client /\ op'.key = op.key
      /\ op'.account = op.account /\ op'.dir = n
  BY <1>1, TypeOKIs DEF IInv, Ops, FinishMove
<1>4. /\ disk'[n] = disk[k] /\ (k # n => disk'[k] = None)
      /\ \A j \in Keys : j # k /\ j # n => disk'[j] = disk[j]
      /\ tombs' = tombs /\ index' = index /\ held' = held /\ up' = up /\ unresolved' = unresolved
      /\ calls' = calls /\ token' = token
  BY <1>1 DEF FinishMove, memory
<1>5. n # k => disk[n] = None /\ tombs[n] = None /\ KeyOf[i.from] = k
  BY <1>2 DEF Unmoved, Moved, Free
<1>6. Worked(n)
  BY <1>1, <1>2, <1>3, <1>4 DEF Worked, FinishMove, Finishing
<1>7. KeyOf[i.from] # n => disk'[KeyOf[i.from]] = None /\ tombs'[KeyOf[i.from]] \in {None, i.to}
  <2>1. CASE n = k
    BY <1>2, <1>4, <2>1 DEF Unmoved, Moved
  <2>2. CASE n # k
    BY <1>2, <1>4, <1>5, <2>2
  <2> QED
    BY <2>1, <2>2
<1>8. tombs'[n] = None /\ disk'[n].intent = i /\ disk'[n].alias = i.to
  BY <1>2, <1>4, <1>5
<1>9. Moved(n)'
  BY <1>2, <1>7, <1>8 DEF Moved
<1>10. DirectoriesNamed' /\ Interrupted' = {j \in {n} : disk'[n].intent # None}
  BY <1>2, <1>6, <1>7, <1>8, WorkedDirectories
<1>11. OpPlaced'
  BY <1>1, <1>2, <1>3, <1>6, <1>8, <1>9, <1>10, WorkedPlaced DEF Finishing
<1> QED
  BY <1>2, <1>3, <1>6, <1>10, <1>11, WorkedKeeps DEF Finishing

LEMMA TombstoneKeeps == ASSUME IInv, TypeOK', FinishTombstone PROVE IInv'
<1>1. PICK k \in Keys, i \in Intents, old \in Keys : k = op.dir /\ i = Owed /\ old = KeyOf[i.from]
  BY FinishIs DEF FinishTombstone, Finishing
<1>2. /\ op.pc \in Finishing /\ disk[k] # None /\ disk[k].intent = i
      /\ i # None /\ i.to \in Aliases /\ tombs[k] = None /\ Moved(k) /\ Target = KeyOf[i.to]
      /\ disk[k].alias = i.to /\ KeyOf[i.to] = k
      /\ (old # k => disk[old] = None /\ tombs[old] \in {None, i.to})
  BY <1>1, FinishIs DEF FinishTombstone, Finishing, Owed, IInv, OpPlaced, Moved
<1>3. /\ op'.pc = "clear" /\ op'.client = op.client /\ op'.key = op.key
      /\ op'.account = op.account /\ op'.dir = k
  BY <1>1, TypeOKIs DEF IInv, Ops, FinishTombstone
<1>4. /\ disk' = disk /\ index' = index /\ held' = held /\ up' = up /\ unresolved' = unresolved
      /\ calls' = calls /\ token' = token
  BY DEF FinishTombstone, memory
<1>5. /\ tombs'[old] = (IF old = k THEN None ELSE i.to)
      /\ \A j \in Keys : j # old => tombs'[j] = tombs[j]
  BY <1>1, <1>2, TypeOKIs DEF IInv, TypedTombs, FinishTombstone, Tombstones
<1>6. Worked(k)
  BY <1>1, <1>2, <1>3, <1>4, <1>5 DEF Worked, FinishTombstone, Finishing
<1>7. tombs'[k] = None
  BY <1>2, <1>5
<1>8. Moved(k)'
  BY <1>1, <1>2, <1>4, <1>5 DEF Moved
<1>9. DirectoriesNamed' /\ Interrupted' = {j \in {k} : disk'[k].intent # None}
  <2>1. /\ KeyOf[i.to] = k /\ disk'[k].alias = i.to
        /\ KeyOf[i.from] # k => disk'[KeyOf[i.from]] = None /\ tombs'[KeyOf[i.from]] \in {None, i.to}
    BY <1>1, <1>2, <1>4, <1>5
  <2> QED
    BY <1>2, <1>4, <1>6, <1>7, <2>1, WorkedDirectories
<1>10. OpPlaced'
  BY <1>1, <1>2, <1>3, <1>4, <1>5, <1>6, <1>8, <1>9, WorkedPlaced DEF Finishing
<1> QED
  BY <1>2, <1>3, <1>6, <1>9, <1>10, WorkedKeeps DEF Finishing

LEMMA ClearKeeps == ASSUME IInv, TypeOK', FinishClear PROVE IInv'
<1>1. PICK k \in Keys, i \in Intents, old \in Keys : k = op.dir /\ i = Owed /\ old = KeyOf[i.from]
  BY FinishIs DEF FinishClear, Finishing
<1>2. /\ op.pc \in Finishing /\ disk[k] # None /\ disk[k] \in Directories /\ disk[k].intent = i
      /\ i # None /\ i.to \in Aliases /\ tombs[k] = None /\ Target = KeyOf[i.to]
      /\ disk[k].alias = i.to /\ KeyOf[i.to] = k
      /\ (old # k => disk[old] = None) /\ up /\ ~unresolved
  BY <1>1, FinishIs DEF FinishClear, Finishing, Owed, IInv, OpPlaced, Moved
<1>3. /\ op'.client = op.client
      /\ op.client = None => op'.pc = "scan"
      /\ op.client # None => /\ op'.pc = "reload" /\ op'.key = op.key
                             /\ op'.account = op.account /\ op'.dir = k
  BY <1>1, TypeOKIs DEF IInv, Ops, FinishClear, Idle
<1>4. /\ disk' = [disk EXCEPT ![k].intent = None]
      /\ tombs' = tombs /\ index' = index /\ held' = held /\ up' = up /\ unresolved' = unresolved
      /\ calls' = calls /\ token' = token
  BY <1>1 DEF FinishClear, memory
<1>5. disk'[k] = [disk[k] EXCEPT !.intent = None] /\ \A j \in Keys : j # k => disk'[j] = disk[j]
  BY <1>4, TypeOKIs DEF IInv, TypedDisk
<1>6. /\ disk'[k].alias = i.to /\ disk'[k].intent = None /\ disk'[k].account = disk[k].account
      /\ disk'[k] # None
  <2>1. disk'[k] \in Directories
    BY <1>2, <1>5 DEF Directories
  <2> QED
    BY <1>2, <1>5, <2>1 DEF Directories
<1>7. Worked(k)
  BY <1>1, <1>2, <1>3, <1>4, <1>5, <1>6 DEF Worked, FinishClear, Finishing
<1>8. DirectoriesNamed' /\ Interrupted' = {j \in {k} : disk'[k].intent # None}
  BY <1>2, <1>4, <1>6, <1>7, WorkedDirectories
<1>9. op.client # None => Renaming'
  <2> SUFFICES ASSUME op.client # None PROVE Renaming'
    OBVIOUS
  <2>1. /\ Renaming /\ op.account \in Accounts /\ op.key \in Keys
        /\ disk[k].account = op.account /\ i.to = To /\ old = op.key
    BY <1>1, <1>2, RequestIs, WorkIs
  <2>2. To' = To
    BY <1>3, <1>4 DEF To
  <2>3. op.key # k => disk'[op.key] = None
    BY <1>2, <1>5, <2>1
  <2> QED
    BY <1>2, <1>3, <1>4, <1>6, <2>1, <2>2, <2>3 DEF Renaming, Finishing
<1>10. OpPlaced'
  BY <1>2, <1>3, <1>4, <1>9 DEF OpPlaced, Finishing
<1> QED
  BY <1>2, <1>6, <1>7, <1>8, <1>10, WorkedKeeps

---------------------------------------------------------------------------
(* Failures, crashes and the restart. *)

LEMMA FailsKeep == ASSUME IInv, TypeOK', FinishFails PROVE IInv'
<1>1. /\ FilesKept /\ OwnersKept /\ up' = up /\ up /\ unresolved' /\ token' = token
      /\ op.client = None => Recovering
  BY FinishIs DEF FinishFails, Finishing, durable, FilesKept, OwnersKept
<1>2. /\ op'.client = None /\ op'.pc \in {"idle", "scan"} /\ (op'.pc = "idle" => op' = Idle)
      /\ op'.pc = "scan" => op.client = None
  BY DEF FinishFails, Idle
<1>3. /\ \A d \in Clients : calls'[d].alias = calls[d].alias /\ calls'[d].to = calls[d].to
      /\ \A d \in Clients : calls'[d].pc # "idle" => calls[d].pc # "idle"
  BY AnswerKeeps DEF FinishFails
<1>4. DirectoriesNamed' /\ Serving'
  BY <1>1, DirectoriesKept, ServingKept DEF OwnersKept
<1>5. IntentsWait' /\ Indexed'
  BY <1>1 DEF IntentsWait, Indexed
<1>6. Quiet'
  BY <1>1, <1>2 DEF IInv, Quiet, Recovering, OwnersKept
<1>7. OpPlaced'
  BY <1>1, <1>2 DEF OpPlaced, Finishing
<1>8. Memory'
  BY <1>1 DEF IInv, Memory, OwnersKept
<1>9. Asked'
  BY <1>1, <1>3 DEF IInv, Asked, OwnersKept
<1> QED
  BY <1>4, <1>5, <1>6, <1>7, <1>8, <1>9, RestIs DEF Rest

LEMMA CrashKeeps == ASSUME IInv, TypeOK', Crash PROVE IInv'
<1>1. /\ FilesKept /\ ~up' /\ op' = Idle /\ token'.pc = "idle"
      /\ \A k \in Keys : index'[k] = None
      /\ \A x \in Accounts : held'[x] = None
  BY DEF Crash, durable, FilesKept, NoToken
<1>2. \A d \in Clients : /\ calls'[d].alias = calls[d].alias /\ calls'[d].to = calls[d].to
                         /\ calls'[d].pc # "idle" => calls[d].pc # "idle"
  <2> SUFFICES ASSUME NEW d \in Clients
      PROVE  /\ calls'[d].alias = calls[d].alias /\ calls'[d].to = calls[d].to
             /\ calls'[d].pc # "idle" => calls[d].pc # "idle"
    OBVIOUS
  <2>1. calls[d] \in Calls /\ calls'[d] \in Calls
    BY TypeOKIs, RecoveryTyped DEF IInv, TypedStep
  <2> QED
    BY <2>1 DEF Crash, Calls
<1>3. DirectoriesNamed'
  BY <1>1, DirectoriesKept
<1>4. IntentsWait' /\ Quiet' /\ OpPlaced' /\ Memory' /\ Indexed' /\ Serving'
  BY <1>1 DEF IntentsWait, Quiet, OpPlaced, Memory, Indexed, Recovering, Serving, Idle, Finishing
<1>5. Asked'
  BY <1>1, <1>2 DEF IInv, Asked
<1> QED
  BY <1>3, <1>4, <1>5, RestIs DEF Rest

LEMMA RestartKeeps == ASSUME IInv, TypeOK', Restart \/ RecoverNext PROVE IInv'
<1>1. FilesKept /\ OwnersKept /\ unresolved' = unresolved /\ calls' = calls /\ token' = token
  BY DEF Restart, RecoverNext, durable, memory, FilesKept, OwnersKept
<1>2. Recovering /\ Recovering' /\ up' /\ op'.client = None /\ op'.pc \in {"scan", "save"}
      /\ (op'.pc = "save" => op'.dir \in Interrupted /\ ~unresolved)
  BY DEF Restart, RecoverNext, memory, IInv, OpPlaced, Recovering, Idle, Finishing
<1>3. DirectoriesNamed' /\ Interrupted' = Interrupted
  BY <1>1, DirectoriesKept
<1>4. /\ \A k \in Keys : index[k] = None
      /\ \A x \in Accounts : held[x] = None
      /\ token.pc = "idle"
  BY <1>2 DEF IInv, Quiet
<1>5. IntentsWait' /\ Quiet' /\ Memory' /\ Indexed' /\ Serving'
  BY <1>1, <1>2, <1>4 DEF IntentsWait, Quiet, Memory, Indexed, Serving, OwnersKept, Finishing
<1>6. OpPlaced'
  BY <1>1, <1>2, <1>3 DEF OpPlaced, Finishing
<1>7. Asked'
  BY <1>1 DEF IInv, Asked, OwnersKept
<1> QED
  BY <1>3, <1>5, <1>6, <1>7, RestIs DEF Rest

LEMMA ServeKeeps == ASSUME IInv, TypeOK', Serve PROVE IInv'
<1>1. /\ FilesKept /\ up' /\ calls' = calls /\ token' = token /\ op' = Idle /\ Recovering
      /\ unresolved' = (unresolved \/ \E k \in Keys : disk[k] # None /\ ~Named(k))
      /\ unresolved \/ Interrupted = {}
  BY DEF Serve, durable, FilesKept, IInv, OpPlaced, Recovering
<1>2. \A k \in Keys : IF Named(k) THEN index'[k] # None /\ index'[k].account = disk[k].account
                      ELSE index'[k] = None
  <2>1. \A k \in Keys : Named(k) => [alias |-> disk[k].alias, account |-> disk[k].account] \in Entries
    BY DirectoryTyped DEF IInv, Named, Entries
  <2> QED
    BY <2>1 DEF Serve
<1>3. \A x \in Accounts, k \in Keys : Named(k) /\ disk[k].account = x =>
        held'[x] # None /\ held'[x].dir = k /\ KeyOf[held'[x].alias] = k
  <2> SUFFICES ASSUME NEW x \in Accounts, NEW k \in Keys, Named(k), disk[k].account = x
      PROVE  held'[x] # None /\ held'[x].dir = k /\ KeyOf[held'[x].alias] = k
    OBVIOUS
  <2>1. \A j \in Keys : Named(j) /\ disk[j].account = x => j = k
    BY DirectoryIs DEF Named
  <2> DEFINE chosen == CHOOSE j \in Keys : Named(j) /\ disk[j].account = x
  <2>2. chosen = k
    BY <2>1
  <2>3. PICK ready \in SUBSET Accounts :
          held' = [y \in Accounts |->
            IF \E j \in Keys : Named(j) /\ disk[j].account = y
            THEN LET i == CHOOSE j \in Keys : Named(j) /\ disk[j].account = y
                 IN  [alias |-> disk[i].alias, dir |-> i, available |-> y \in ready]
            ELSE None]
    BY DEF Serve
  <2>4. held'[x] = [alias |-> disk[chosen].alias, dir |-> chosen, available |-> x \in ready]
    BY <2>3
  <2> HIDE DEF chosen
  <2>5. held'[x] = [alias |-> disk[k].alias, dir |-> k, available |-> x \in ready]
    BY <2>2, <2>4
  <2>6. held'[x] \in Owners
    BY <2>5, DirectoryTyped DEF IInv, Named, Owners
  <2> QED
    BY <2>5, <2>6 DEF Named
<1>4. \A x \in Accounts : held'[x] # None => \E k \in Keys : Named(k) /\ disk[k].account = x
  BY DEF Serve
<1>5. DirectoriesNamed' /\ Interrupted' = Interrupted
  BY <1>1, DirectoriesKept
<1>6. IntentsWait' /\ Quiet' /\ OpPlaced'
  BY <1>1, <1>5 DEF IntentsWait, Quiet, Recovering, OpPlaced, Idle, Finishing
<1>7. Memory'
  <2> SUFFICES ASSUME NEW k \in Keys, index'[k] # None
      PROVE  held'[index'[k].account] # None /\ Owned(k)'
    BY DEF Memory
  <2>1. Named(k) /\ index'[k].account = disk[k].account /\ disk[k] # None /\ disk[k].account \in Accounts
    BY <1>2, DirectoryTyped DEF IInv, Named
  <2>2. held'[disk[k].account] # None /\ held'[disk[k].account].dir = k
        /\ KeyOf[held'[disk[k].account].alias] = k
    BY <1>3, <2>1
  <2> QED
    BY <1>1, <2>1, <2>2 DEF Owned, FilesKept
<1>8. Indexed'
  BY <1>1, <1>2 DEF Indexed, Named, FilesKept
<1>9. Serving'
  <2> SUFFICES ASSUME NEW x \in Accounts, held'[x] # None
      PROVE  /\ disk'[held'[x].dir] # None /\ disk'[held'[x].dir].account = x
             /\ KeyOf[disk'[held'[x].dir].alias] = held'[x].dir /\ KeyOf[held'[x].alias] = held'[x].dir
    BY DEF Serving
  <2>1. PICK k \in Keys : Named(k) /\ disk[k].account = x
    BY <1>4
  <2> QED
    BY <1>1, <1>3, <2>1 DEF Named, FilesKept
<1>10. Asked'
  BY <1>1 DEF IInv, Asked, Quiet
<1> QED
  BY <1>5, <1>6, <1>7, <1>8, <1>9, <1>10, RestIs DEF Rest

---------------------------------------------------------------------------
(* The invariant. *)

\* Every step keeps the invariant.
LEMMA StepKeeps == Known /\ IInv /\ [Next]_vars => IInv'
<1>1. ASSUME Known, IInv, Next PROVE IInv'
  <2>1. TypeOK'
    BY <1>1, StepTyped
  <2>2. Enters \/ Adds \/ Asks \/ Replies \/ Starts \/ Tokened \/ Handles \/ Crash \/ Recover
    BY <1>1, NextIs DEF IInv
  <2>3. CASE Handles
    BY <1>1, <2>1, <2>3, StopKeeps, IntentKeeps, ReloadKeeps, ReindexKeeps, LaunchKeeps DEF Handles
  <2>4. CASE Recover
    BY <1>1, <2>1, <2>4, RestartKeeps, SaveKeeps, MoveKeeps, TombstoneKeeps, ClearKeeps, FailsKeep,
       ServeKeeps DEF Recover
  <2> QED
    BY <1>1, <2>1, <2>2, <2>3, <2>4, EntersKeep, AddsKeep, AsksKeep, RepliesKeep, StartsKeep,
       TokenedKeep, CrashKeeps
<1>2. ASSUME IInv, UNCHANGED vars PROVE IInv'
  <2>1. UNCHANGED <<spelled, disk, tombs, adds, up, unresolved, index, held, op, calls, token, faults,
                    crashes>>
    BY <1>2 DEF vars, durable, memory
  <2>2. TypeOK'
    BY <1>2, <2>1 DEF IInv, TypeOK
  <2>3. Asked' /\ (Recovering => token'.pc = "idle")
    BY <1>2, <2>1 DEF IInv, Asked, Quiet
  <2> QED
    BY <1>2, <2>1, <2>2, <2>3, BesideKeeps DEF FilesKept, OwnersKept, CallKept
<1> QED
  BY <1>1, <1>2

LEMMA InitKeeps == Init => IInv
<1> SUFFICES ASSUME Init PROVE IInv
  OBVIOUS
<1>1. /\ disk = [k \in Keys |-> None] /\ tombs = [k \in Keys |-> None]
      /\ adds = [k \in Keys |-> None] /\ index = [k \in Keys |-> None]
      /\ held = [x \in Accounts |-> None] /\ up = TRUE /\ unresolved = FALSE /\ op = Idle
      /\ calls = [c \in Clients |-> NoCall] /\ token = NoToken /\ spelled \in Spellings
      /\ faults = 0 /\ crashes = 0
  BY DEF Init
<1>2. op \in Ops /\ calls \in [Clients -> Calls] /\ token \in Tokens
  BY <1>1 DEF Idle, NoCall, NoToken, Ops, Calls, Tokens
<1>3. TypeOK
  <2>1. TypedDisk /\ TypedTombs /\ TypedIndex /\ TypedHeld
    BY <1>1 DEF TypedDisk, TypedTombs, TypedIndex, TypedHeld
  <2>2. faults \in 0..MaxFaults /\ crashes \in 0..MaxCrashes
    BY <1>1
  <2>3. adds \in [Keys -> Aliases \cup {None}] /\ up \in BOOLEAN /\ unresolved \in BOOLEAN
    BY <1>1
  <2> QED
    BY <1>1, <1>2, <2>1, <2>2, <2>3, TypeOKIs
<1>4. DirectoriesNamed /\ IntentsWait /\ Quiet /\ OpPlaced /\ Memory /\ Indexed /\ Serving /\ Asked
  BY <1>1 DEF DirectoriesNamed, Interrupted, IntentsWait, Quiet, Recovering, OpPlaced, Memory, Indexed,
     Serving, Asked, Idle, NoCall, NoToken, Finishing
<1> QED
  BY <1>3, <1>4, FinishableIs DEF IInv

\* Whatever fails and whenever the process crashes, an interrupted rename can be finished, an
\* account keeps one directory under its alias, nobody takes a retired one, and the index and
\* the owners agree with the files.
THEOREM Invariant == ASSUME Known PROVE Spec => []IInv
<1>1. Init => IInv
  BY InitKeeps
<1>2. IInv /\ [Next]_vars => IInv'
  BY StepKeeps
<1> QED
  BY <1>1, <1>2, PTL DEF Spec

---------------------------------------------------------------------------
(* What is served and answered. *)

\* No request for a retired alias is served (owner_request.rs, token). Served means that the
\* owner has the directory and the alias now: a rename between the lookup and the lock refuses
\* the request.
THEOREM NeverStale == ASSUME Known PROVE Spec => StaleNeverServed
<1>1. IInv /\ [Next]_vars =>
        [token.pc = "wait" /\ token'.pc = "served" =>
           /\ ~Tombed(token.alias)
           /\ \E k \in Keys : /\ disk[k] # None /\ disk[k].account = token.account
                              /\ KeyOf[disk[k].alias] = KeyOf[token.alias]]_vars
  <2> SUFFICES ASSUME IInv, Next, token.pc = "wait", token'.pc = "served"
      PROVE  /\ ~Tombed(token.alias)
             /\ \E k \in Keys : /\ disk[k] # None /\ disk[k].account = token.account
                                /\ KeyOf[disk[k].alias] = KeyOf[token.alias]
    OBVIOUS
  <2>1. TokenServe
    <3>1. Enters \/ Adds \/ Asks \/ Replies \/ Starts \/ Tokened \/ Handles \/ Crash \/ Recover
      BY NextIs DEF IInv
    <3>2. ASSUME Adds \/ Asks \/ Replies \/ Starts \/ Enters PROVE token' = token
      BY <3>2 DEF Enters, Import, AddAdmit, Adds, AddStart, AddDrop, Asks, Ask, Replies,
         RenameRetried, RenameRefused, LoseAnswer, AskAgain, AnswerRead, Starts, RenameStart
    <3>3. ASSUME Handles PROVE token' = token
      BY <3>3 DEF Handles, StopOwner, StopFails, WriteIntent, IntentFails, Reload, Reindex, Launch,
         Disconnect
    <3>4. ASSUME Recover PROVE token' = token
      BY <3>4 DEF Recover, Restart, RecoverNext, FinishSave, FinishMove, FinishTombstone,
         FinishClear, FinishFails, Serve
    <3>5. ASSUME Crash PROVE token'.pc = "idle"
      BY <3>5 DEF Crash, NoToken
    <3>6. ASSUME Tokened PROVE TokenServe
      BY <3>6 DEF Tokened, TokenFind, TokenRead
    <3> QED
      BY <3>1, <3>2, <3>3, <3>4, <3>5, <3>6
  <2>2. PICK x \in Accounts : x = token.account
    BY DEF IInv, Asked
  <2>3. held[x] # None /\ held[x].available /\ KeyOf[held[x].alias] = KeyOf[token.alias]
    BY <2>1, <2>2 DEF TokenServe, Serves, NoToken, IInv, Asked
  <2>4. PICK k \in Keys : k = held[x].dir
    BY <2>3, OwnerTyped DEF IInv
  <2>5. /\ disk[k] # None /\ disk[k].account = x
        /\ KeyOf[disk[k].alias] = k /\ KeyOf[token.alias] = k
    BY <2>3, <2>4 DEF IInv, Serving
  <2>6. tombs[k] = None
    BY <2>5, DirectoryIs DEF Directory
  <2> QED
    BY <2>2, <2>5, <2>6 DEF Tombed
<1> QED
  BY <1>1, Invariant, PTL DEF Spec, StaleNeverServed

\* A request that was answered while no rename was in progress was answered at once.
LEMMA AnsweredIdle ==
  ASSUME IInv, Next, NEW c \in Clients, op.pc = "idle", calls[c].pc = "sent",
         calls'[c].pc = "answered"
  PROVE  RenameRetried(c) \/ RenameRefused(c)
<1>1. Enters \/ Adds \/ Asks \/ Replies \/ Starts \/ Tokened \/ Handles \/ Crash \/ Recover
  BY NextIs DEF IInv
<1>2. ASSUME Adds \/ Starts \/ Enters \/ Tokened PROVE calls' = calls
  BY <1>2 DEF Enters, Import, AddAdmit, Adds, AddStart, AddDrop, Starts, RenameStart, Tokened,
     TokenFind, TokenServe, TokenRead
<1>3. ~Handles
  BY DEF Handles, StopOwner, StopFails, WriteIntent, IntentFails, Reload, Reindex, Launch, Disconnect
<1>4. ASSUME Recover PROVE calls' = calls
  BY <1>4 DEF Recover, Restart, RecoverNext, FinishSave, FinishMove, FinishTombstone, FinishClear,
     FinishFails, Serve
<1>5. ASSUME Crash PROVE calls'[c].pc = "lost"
  <2>1. calls[c] \in Calls
    BY TypeOKIs DEF IInv
  <2> QED
    BY <1>5, <2>1 DEF Crash, Calls
<1>6. ASSUME Asks PROVE calls'[c] = calls[c]
  BY <1>6, TypeOKIs DEF IInv, Asks, Ask
<1>7. ASSUME Replies PROVE RenameRetried(c) \/ RenameRefused(c)
  <2>1. PICK d \in Clients :
          RenameRetried(d) \/ RenameRefused(d) \/ LoseAnswer(d) \/ AskAgain(d) \/ AnswerRead(d)
    BY <1>7 DEF Replies
  <2>2. d # c => calls'[c] = calls[c]
    BY <2>1, TypeOKIs DEF RenameRetried, RenameRefused, LoseAnswer, AskAgain, AnswerRead, Answer, IInv
  <2>3. d = c
    BY <2>2
  <2> QED
    BY <2>1, <2>3 DEF LoseAnswer, AskAgain, AnswerRead
<1> QED
  BY <1>1, <1>2, <1>3, <1>4, <1>5, <1>6, <1>7

\* A retried rename returns the renamed account, if the owner took its moved vault: the alias
\* of a committed rename is retired, so its index entry is gone, and the account is indexed
\* under the new alias, where the retry finds it.
THEOREM RetriesReturn == ASSUME Known, "reload" \notin Failures PROVE Spec => RetryReturns
<1>1. IInv /\ [Next]_vars =>
        [\A c \in Clients :
           /\ calls[c].pc = "sent" /\ calls'[c].pc = "answered" /\ op.pc = "idle" /\ ~unresolved
           /\ RenamedTo(calls[c].alias) # None
           /\ KeyOf[RenamedTo(calls[c].alias)] = KeyOf[calls[c].to]
           /\ \E k \in Keys : /\ disk[k] # None /\ k = KeyOf[calls[c].to]
                              /\ Expects(c, disk[k].account)
           => calls'[c].answer = disk[KeyOf[calls[c].to]].account]_vars
  <2> SUFFICES ASSUME IInv, Next, NEW c \in Clients,
                 calls[c].pc = "sent", calls'[c].pc = "answered", op.pc = "idle", ~unresolved,
                 RenamedTo(calls[c].alias) # None,
                 KeyOf[RenamedTo(calls[c].alias)] = KeyOf[calls[c].to],
                 NEW k \in Keys, disk[k] # None, k = KeyOf[calls[c].to], Expects(c, disk[k].account)
      PROVE  calls'[c].answer = disk[k].account
    OBVIOUS
  <2>1. RenameRetried(c) \/ RenameRefused(c)
    BY AnsweredIdle
  <2>2. up /\ ~Recovering /\ \A j \in Keys : disk[j] = None <=> index[j] = None
    BY <2>1 DEF RenameRetried, RenameRefused, Writable, Locked, IInv, OpPlaced, Idle, Recovering,
       Indexed, Finishing
  <2>3. Resolve(calls[c].alias) = None
    <3> DEFINE old == KeyOf[calls[c].alias]
    <3>1. old \in Keys /\ tombs[old] # None
      BY DEF RenamedTo, IInv, Asked
    <3>2. index[old] = None
      BY <2>2, <3>1, DirectoryIs DEF Directory
    <3> QED
      BY <3>2, ResolveIs DEF IInv
  <2>4. RenameRetried(c)
    BY <2>1, <2>3 DEF RenameRefused
  <2>5. Resolve(RenamedTo(calls[c].alias)) = k /\ index[k] # None
    BY <2>2, ResolveIs DEF IInv
  <2>6. index[k].account = disk[k].account
    BY <2>5 DEF IInv, Memory, Owned
  <2>7. Committed(c)
    BY <2>5, <2>6 DEF Committed
  <2>8. Answer(c, disk[k].account)
    BY <2>4, <2>5, <2>6, <2>7 DEF RenameRetried
  <2> QED
    BY <2>8, DirectoryTyped, AnswerTyped DEF IInv
<1> QED
  BY <1>1, Invariant, PTL DEF Spec, RetryReturns

---------------------------------------------------------------------------
(* The book of aliases. *)

\* An account has the name of its directory.
LEMMA NamesAre ==
  IInv => \A x \in Accounts :
    /\ \A k \in Keys : disk[k] # None /\ disk[k].account = x => NameOf(x) = NameIn(k)
    /\ (\A k \in Keys : disk[k] # None => disk[k].account # x) => NameOf(x) = None
<1> SUFFICES ASSUME IInv, NEW x \in Accounts
    PROVE  /\ \A k \in Keys : disk[k] # None /\ disk[k].account = x => NameOf(x) = NameIn(k)
           /\ (\A k \in Keys : disk[k] # None => disk[k].account # x) => NameOf(x) = None
  OBVIOUS
<1> DEFINE dirs == {k \in Keys : disk[k] # None /\ disk[k].account = x}
<1>1. ASSUME NEW k \in Keys, disk[k] # None, disk[k].account = x PROVE NameOf(x) = NameIn(k)
  <2>1. dirs = {k}
    BY <1>1, DirectoryIs
  <2> HIDE DEF dirs
  <2>2. (CHOOSE j \in dirs : TRUE) = k /\ dirs # {}
    BY <2>1
  <2>3. NameOf(x) = IF dirs = {} THEN None ELSE NameIn(CHOOSE j \in dirs : TRUE)
    BY DEF NameOf, dirs
  <2> QED
    BY <2>2, <2>3
<1>2. ASSUME \A k \in Keys : disk[k] # None => disk[k].account # x PROVE NameOf(x) = None
  BY <1>2 DEF NameOf
<1> QED
  BY <1>1, <1>2
LEMMA NamesAreNext ==
  IInv' => \A x \in Accounts :
    /\ \A k \in Keys : disk'[k] # None /\ disk'[k].account = x => NameOf(x)' = NameIn(k)'
    /\ (\A k \in Keys : disk'[k] # None => disk'[k].account # x) => NameOf(x)' = None
<1>1. (\A x \in Accounts :
        /\ \A k \in Keys : disk[k] # None /\ disk[k].account = x => NameOf(x) = NameIn(k)
        /\ (\A k \in Keys : disk[k] # None => disk[k].account # x) => NameOf(x) = None)' =>
      \A x \in Accounts :
        /\ \A k \in Keys : disk'[k] # None /\ disk'[k].account = x => NameOf(x)' = NameIn(k)'
        /\ (\A k \in Keys : disk'[k] # None => disk'[k].account # x) => NameOf(x)' = None
  OBVIOUS
<1> QED
  BY <1>1, NamesAre, PTL

\* And the name has the key of the directory, also while a rename waits.
LEMMA NameInIs ==
  ASSUME IInv, NEW k \in Keys, disk[k] # None
  PROVE  NameIn(k) \in Aliases /\ KeyOf[NameIn(k)] = k /\ NameIn(k) # None
<1>1. CASE disk[k].intent = None
  BY <1>1, DirectoryIs, DirectoryTyped DEF IInv, NameIn, Directory
<1>2. CASE disk[k].intent # None
  <2>1. k \in Interrupted /\ (Unmoved(k) \/ Moved(k))
    BY <1>2, DirectoryIs DEF Directory, Interrupted
  <2>2. /\ disk[k].intent.from \in Aliases /\ disk[k].intent.to \in Aliases
        /\ disk[k].alias \in Aliases
    BY <2>1, IntentTyped, DirectoryTyped DEF IInv
  <2>3. CASE Unmoved(k)
    BY <1>2, <2>2, <2>3 DEF NameIn, Unmoved, Matches
  <2>4. CASE Moved(k)
    BY <1>2, <2>2, <2>4 DEF NameIn, Moved
  <2> QED
    BY <2>1, <2>3, <2>4
<1> QED
  BY <1>1, <1>2

\* A moved directory with an intent has left its old key.
Left(j, k) ==
  LET i == disk[j].intent
  IN  k = KeyOf[i.from] /\ k # j /\ j = KeyOf[i.to]
LEMMA RetiredAre ==
  IInv => \A k \in Keys :
    /\ \A j \in Interrupted : Left(j, k) => Retired(k) = disk[j].intent.to
    /\ (\A j \in Interrupted : ~Left(j, k)) => Retired(k) = tombs[k]
<1> SUFFICES ASSUME IInv, NEW k \in Keys
    PROVE  /\ \A j \in Interrupted : Left(j, k) => Retired(k) = disk[j].intent.to
           /\ (\A j \in Interrupted : ~Left(j, k)) => Retired(k) = tombs[k]
  OBVIOUS
<1> DEFINE moved == {j \in Interrupted : LET i == disk[j].intent
                                         IN  k = KeyOf[i.from] /\ k # j /\ j = KeyOf[i.to]}
<1>1. Retired(k) = IF moved = {} THEN tombs[k] ELSE disk[CHOOSE j \in moved : TRUE].intent.to
  BY DEF Retired
<1>2. moved = {j \in Interrupted : Left(j, k)}
  BY DEF Left
<1> HIDE DEF moved
<1>3. ASSUME NEW j \in Interrupted, Left(j, k) PROVE Retired(k) = disk[j].intent.to
  <2>1. moved = {j}
    BY <1>2, <1>3, IntentTyped, DirectoryIs DEF IInv
  <2>2. (CHOOSE i \in moved : TRUE) = j /\ moved # {}
    BY <2>1
  <2> QED
    BY <1>1, <2>2
<1>4. ASSUME \A j \in Interrupted : ~Left(j, k) PROVE Retired(k) = tombs[k]
  BY <1>1, <1>2, <1>4
<1> QED
  BY <1>3, <1>4
LEMMA RetiredAreNext ==
  IInv' => \A k \in Keys :
    /\ \A j \in Interrupted' : Left(j, k)' => Retired(k)' = disk'[j].intent.to
    /\ (\A j \in Interrupted' : ~Left(j, k)') => Retired(k)' = tombs'[k]
<1>1. (\A k \in Keys :
        /\ \A j \in Interrupted : Left(j, k) => Retired(k) = disk[j].intent.to
        /\ (\A j \in Interrupted : ~Left(j, k)) => Retired(k) = tombs[k])' =>
      \A k \in Keys :
        /\ \A j \in Interrupted' : Left(j, k)' => Retired(k)' = disk'[j].intent.to
        /\ (\A j \in Interrupted' : ~Left(j, k)') => Retired(k)' = tombs'[k]
  OBVIOUS
<1> QED
  BY <1>1, RetiredAre, PTL

\* The names of the others stay when one directory changes or moves.
LEMMA OthersNamed ==
  ASSUME IInv, IInv', NEW k \in Keys, NEW n \in Keys, NEW x, disk[k] # None, disk'[n] # None,
         disk[k].account = x, disk'[n].account = x, n # k => disk[n] = None /\ disk'[k] = None,
         \A j \in Keys : j # k /\ j # n => disk'[j] = disk[j]
  PROVE  /\ x \in Accounts
         /\ NameOf(x) = NameIn(k) /\ NameOf(x)' = NameIn(n)'
         /\ \A y \in Accounts : y # x => NameOf(y)' = NameOf(y)
<1>1. x \in Accounts
  BY DirectoryTyped DEF IInv
<1>2. NameOf(x) = NameIn(k) /\ NameOf(x)' = NameIn(n)'
  BY <1>1, NamesAre, NamesAreNext
<1>3. ASSUME NEW y \in Accounts, y # x PROVE NameOf(y)' = NameOf(y)
  <2>1. CASE \E j \in Keys : disk[j] # None /\ disk[j].account = y
    <3>1. PICK j \in Keys : disk[j] # None /\ disk[j].account = y
      BY <2>1
    <3>2. j # k /\ j # n /\ disk'[j] = disk[j]
      BY <1>1, <1>3, <3>1
    <3>3. NameOf(y) = NameIn(j) /\ NameOf(y)' = NameIn(j)'
      BY <3>1, <3>2, NamesAre, NamesAreNext
    <3>4. NameIn(j)' = NameIn(j)
      BY <3>2 DEF NameIn
    <3> QED
      BY <3>3, <3>4
  <2>2. CASE \A j \in Keys : disk[j] # None => disk[j].account # y
    <3>1. \A j \in Keys : disk'[j] # None => disk'[j].account # y
      BY <1>1, <1>3, <2>2
    <3> QED
      BY <2>2, <3>1, NamesAre, NamesAreNext
  <2> QED
    BY <2>1, <2>2
<1> QED
  BY <1>1, <1>2, <1>3

NamesSame == \A x \in Accounts : NameOf(x)' = NameOf(x)
RetiredSame == \A k \in Keys : Retired(k)' = Retired(k)

Booked == Book!Next \/ UNCHANGED Book!vars

\* The steps of the book, by name and by key.
LEMMA BookSame == NamesSame /\ RetiredSame => UNCHANGED Book!vars
  BY DEF NamesSame, RetiredSame, Book!vars
LEMMA BookRecase ==
  ASSUME NEW x \in Accounts, NEW a \in Aliases, NameOf(x) # None, KeyOf[NameOf(x)] = KeyOf[a],
         NameOf(x)' = a, \A y \in Accounts : y # x => NameOf(y)' = NameOf(y), RetiredSame
  PROVE  Booked
<1>1. Book!Recase(x, a)
  BY DEF Book!Recase, RetiredSame
<1>2. CASE NameOf(x)' = NameOf(x)
  BY <1>2, BookSame DEF NamesSame, Booked
<1>3. CASE NameOf(x)' # NameOf(x)
  BY <1>1, <1>3 DEF Book!Next, Booked
<1> QED
  BY <1>2, <1>3
LEMMA OpenIs ==
  ASSUME IInv, NEW k \in Keys, disk[k] = None, Retired(k) = None
  PROVE  Book!Open(k)
<1> SUFFICES ASSUME NEW x \in Accounts, NameOf(x) # None PROVE KeyOf[NameOf(x)] # k
  BY DEF Book!Open, Book!Taken
<1>1. PICK j \in Keys : disk[j] # None /\ disk[j].account = x
  BY NamesAre
<1> QED
  BY <1>1, NamesAre, NameInIs
LEMMA BookEnter ==
  ASSUME IInv, NEW x \in Accounts, NEW a \in Aliases, NameOf(x) = None,
         disk[KeyOf[a]] = None, Retired(KeyOf[a]) = None,
         NameOf(x)' = a, \A y \in Accounts : y # x => NameOf(y)' = NameOf(y), RetiredSame
  PROVE  Booked
<1>1. Book!Enter(x, a)
  BY OpenIs DEF Book!Enter, RetiredSame
<1> QED
  BY <1>1, NoneAssumption DEF Book!Next, Booked
LEMMA BookMove ==
  ASSUME IInv, NEW x \in Accounts, NEW a \in Aliases, NEW old \in Keys,
         NameOf(x) # None, KeyOf[NameOf(x)] = old,
         disk[KeyOf[a]] = None, Retired(KeyOf[a]) = None,
         NameOf(x)' = a, \A y \in Accounts : y # x => NameOf(y)' = NameOf(y),
         Retired(old)' = a, \A k \in Keys : k # old => Retired(k)' = Retired(k)
  PROVE  Booked
<1>1. Book!Move(x, a)
  BY OpenIs DEF Book!Move
<1>2. NameOf(x)' # NameOf(x)
  BY OpenIs DEF Book!Open, Book!Taken
<1> QED
  BY <1>1, <1>2 DEF Book!Next, Booked

LEMMA FilesBooked == FilesKept => Booked
<1> SUFFICES ASSUME FilesKept PROVE Booked
  OBVIOUS
<1>1. NamesSame
  BY DEF FilesKept, NamesSame, NameOf, NameIn
<1>2. RetiredSame
  BY DEF FilesKept, RetiredSame, Retired, Interrupted
<1> QED
  BY <1>1, <1>2, BookSame DEF Booked

\* With no directory on its way, the tombstones are the retired keys.
LEMMA RetiredTombs ==
  /\ IInv /\ Interrupted = {} => \A k \in Keys : Retired(k) = tombs[k]
  /\ IInv' /\ Interrupted' = {} => \A k \in Keys : Retired(k)' = tombs'[k]
  BY RetiredAre, RetiredAreNext

LEMMA EntersBooked == ASSUME IInv, IInv', Enters PROVE Booked
<1>1. PICK x \in Accounts, a \in Aliases :
        Writable /\ Admissible(x, a) /\ Admit(x, a) /\ tombs' = tombs
  <2>1. \A k \in Keys : adds[k] # None => adds[k] \in Aliases
    BY TypeOKIs DEF IInv
  <2> QED
    BY <2>1 DEF Enters, Import, AddAdmit
<1>2. PICK n \in Keys : n = KeyOf[a]
  OBVIOUS
<1>3. /\ Interrupted = {} /\ disk[n] = None /\ tombs[n] = None
      /\ \A k \in Keys : disk[k] # None => disk[k].account # x
  BY <1>1, <1>2, WritableIs DEF Admissible, New, Tombed
<1>4. /\ \A k \in Keys : k # n => disk'[k] = disk[k]
      /\ disk'[n].account = x /\ disk'[n].alias = a /\ disk'[n].intent = None /\ disk'[n] # None
  <2>1. [account |-> x, alias |-> a, intent |-> None] \in Directories
    BY DEF Directories
  <2> QED
    BY <1>1, <1>2, <2>1, TypeOKIs DEF IInv, TypedDisk, Admit
<1>5. Interrupted' = {}
  BY <1>3, <1>4 DEF Interrupted
<1>6. RetiredSame
  BY <1>1, <1>3, <1>5, RetiredTombs DEF RetiredSame
<1>7. NameOf(x) = None
  BY <1>3, NamesAre
<1>8. NameOf(x)' = a
  <2>1. NameOf(x)' = NameIn(n)'
    BY <1>4, NamesAreNext
  <2> QED
    BY <1>4, <2>1 DEF NameIn
<1>9. ASSUME NEW y \in Accounts, y # x PROVE NameOf(y)' = NameOf(y)
  <2>1. CASE \E j \in Keys : disk[j] # None /\ disk[j].account = y
    <3>1. PICK j \in Keys : disk[j] # None /\ disk[j].account = y /\ j # n /\ disk'[j] = disk[j]
      BY <1>3, <1>4, <2>1
    <3>2. NameOf(y) = NameIn(j) /\ NameOf(y)' = NameIn(j)'
      BY <3>1, NamesAre, NamesAreNext
    <3>3. NameIn(j)' = NameIn(j)
      BY <3>1 DEF NameIn
    <3> QED
      BY <3>2, <3>3
  <2>2. CASE \A j \in Keys : disk[j] # None => disk[j].account # y
    <3>1. \A j \in Keys : disk'[j] # None => disk'[j].account # y
      BY <1>4, <1>9, <2>2
    <3> QED
      BY <2>2, <3>1, NamesAre, NamesAreNext
  <2> QED
    BY <2>1, <2>2
<1>10. Retired(n) = None
  BY <1>3, RetiredTombs
<1> QED
  BY <1>2, <1>3, <1>6, <1>7, <1>8, <1>9, <1>10, BookEnter

LEMMA IntentBooked == ASSUME Known, IInv, IInv', WriteIntent \/ IntentFails PROVE Booked
<1>1. CASE IntentFails
  <2>1. FilesKept
    BY <1>1 DEF Known, Fault, IntentFails, FilesKept
  <2> QED
    BY <2>1, FilesBooked
<1>2. CASE WriteIntent
  <2>1. /\ op.client # None /\ op.pc = "intent" /\ op.account \in Accounts /\ op.key \in Keys
        /\ Renaming /\ Interrupted = {} /\ To \in Aliases /\ ~unresolved
    BY <1>2, RequestIs DEF WriteIntent, IInv, OpPlaced, Finishing
  <2>2. PICK k \in Keys : k = op.dir /\ k = op.key
    BY <2>1 DEF Renaming
  <2>3. /\ disk[k] # None /\ disk[k] \in Directories
        /\ index[k] # None /\ index[k].account = op.account /\ held[op.account] # None
    BY <2>1, <2>2, DirectoryTyped DEF Renaming, IInv
  <2>4. PICK i \in Intents : i = Intent /\ KeyOf[i.from] = k /\ i.from \in Aliases /\ i # None
    <3>1. KeyOf[held[op.account].alias] = k /\ held[op.account].alias \in Aliases
      BY <2>1, <2>3, OwnerTyped DEF IInv, Memory, Owned
    <3>2. Intent \in Intents /\ Intent.from = held[op.account].alias
      BY <2>1, <3>1 DEF Intent, To, Intents
    <3> QED
      BY <3>1, <3>2
  <2>5. tombs' = tombs /\ disk' = [disk EXCEPT ![k].intent = i]
    BY <1>2, <2>2, <2>4 DEF WriteIntent
  <2>6. disk'[k] = [disk[k] EXCEPT !.intent = i] /\ \A j \in Keys : j # k => disk'[j] = disk[j]
    BY <2>5, TypeOKIs DEF IInv, TypedDisk
  <2>7. /\ disk'[k].intent = i /\ disk'[k].account = disk[k].account
        /\ disk'[k].alias = disk[k].alias /\ disk'[k] # None
        /\ \A j \in Keys : j # k => disk'[j] = disk[j]
    <3>1. disk'[k] \in Directories
      BY <2>3, <2>6 DEF Directories
    <3> QED
      BY <2>3, <2>6, <3>1 DEF Directories
  <2>8. disk[k].intent = None /\ KeyOf[disk[k].alias] = k
    BY <2>1, <2>3, DirectoryIs DEF Directory, Interrupted
  <2>9. Interrupted' = {k}
    BY <2>1, <2>4, <2>7 DEF Interrupted
  <2>10. RetiredSame
    <3>1. \A j \in Keys : Retired(j) = tombs[j]
      BY <2>1, RetiredTombs
    <3>2. \A j \in Keys : ~Left(k, j)'
      BY <2>4, <2>7 DEF Left
    <3> QED
      BY <2>5, <2>9, <3>1, <3>2, RetiredAreNext DEF RetiredSame
  <2>11. PICK x \in Accounts : x = disk[k].account
    BY <2>3, DirectoryTyped DEF IInv
  <2>12. /\ NameOf(x) = NameIn(k) /\ NameOf(x)' = NameIn(k)'
         /\ \A y \in Accounts : y # x => NameOf(y)' = NameOf(y)
    BY <2>3, <2>7, <2>11, OthersNamed
  <2>13. NameIn(k) = disk[k].alias /\ NameIn(k) # None
    BY <2>3, <2>8, NameInIs DEF NameIn
  <2>14. NameIn(k)' = IF KeyOf[i.from] = KeyOf[i.to] THEN disk[k].alias ELSE i.from
    BY <2>4, <2>7 DEF NameIn
  <2>15. CASE NameIn(k)' = disk[k].alias
    <3>1. NamesSame
      BY <2>12, <2>13, <2>15 DEF NamesSame
    <3> QED
      BY <2>10, <3>1, BookSame DEF Booked
  <2>16. CASE NameIn(k)' = i.from
    BY <2>4, <2>8, <2>10, <2>12, <2>13, <2>16, BookRecase
  <2> QED
    BY <2>14, <2>15, <2>16
<1> QED
  BY <1>1, <1>2

\* The work on the files: only the move of the directory, or of the vault's alias when the key
\* stays, shows in the book.
LEMMA SaveBooked == ASSUME IInv, IInv', FinishSave PROVE Booked
<1>1. PICK k \in Keys, i \in Intents : k = op.dir /\ i = Owed
  BY FinishIs DEF FinishSave, Finishing
<1>2. /\ disk[k] # None /\ disk[k] \in Directories /\ disk[k].intent = i
      /\ i # None /\ i.to \in Aliases
  BY <1>1, FinishIs DEF FinishSave, Finishing, Owed
<1>3. tombs' = tombs /\ disk' = [disk EXCEPT ![k].alias = i.to]
  BY <1>1 DEF FinishSave
<1>4. disk'[k] = [disk[k] EXCEPT !.alias = i.to] /\ \A j \in Keys : j # k => disk'[j] = disk[j]
  BY <1>3, TypeOKIs DEF IInv, TypedDisk
<1>5. /\ disk'[k].alias = i.to /\ disk'[k].intent = i /\ disk'[k].account = disk[k].account
      /\ disk'[k] # None /\ \A j \in Keys : j # k => disk'[j] = disk[j]
  <2>1. disk'[k] \in Directories
    BY <1>2, <1>4 DEF Directories
  <2> QED
    BY <1>2, <1>4, <2>1 DEF Directories
<1>6. RetiredSame
  <2>1. Interrupted' = Interrupted /\ \A j \in Interrupted : disk'[j].intent = disk[j].intent
    BY <1>2, <1>5 DEF Interrupted
  <2>2. \A j \in Interrupted, n \in Keys : Left(j, n)' <=> Left(j, n)
    BY <2>1 DEF Left
  <2> QED
    BY <1>3, <2>1, <2>2, RetiredAre, RetiredAreNext DEF RetiredSame
<1>7. PICK x \in Accounts : x = disk[k].account
  BY <1>2, DirectoryTyped DEF IInv
<1>8. /\ NameOf(x) = NameIn(k) /\ NameOf(x)' = NameIn(k)'
      /\ \A y \in Accounts : y # x => NameOf(y)' = NameOf(y)
  BY <1>2, <1>5, <1>7, OthersNamed
<1>9. CASE KeyOf[i.from] = KeyOf[i.to]
  <2>1. NameIn(k)' = i.to
    BY <1>5, <1>9 DEF NameIn
  <2>2. KeyOf[NameIn(k)] = KeyOf[i.to] /\ NameIn(k) # None
    <3>1. KeyOf[NameIn(k)] = k /\ NameIn(k) # None
      BY <1>2, NameInIs
    <3>2. KeyOf[i.to] = k
      BY <1>1, <1>2, <1>9, FinishIs DEF FinishSave, Finishing, Unmoved, Moved
    <3> QED
      BY <3>1, <3>2
  <2> QED
    BY <1>2, <1>6, <1>8, <2>1, <2>2, BookRecase
<1>10. CASE KeyOf[i.from] # KeyOf[i.to]
  <2>1. NameIn(k)' = NameIn(k)
    BY <1>2, <1>5, <1>10 DEF NameIn
  <2>2. NamesSame
    BY <1>8, <2>1 DEF NamesSame
  <2> QED
    BY <1>6, <2>2, BookSame DEF Booked
<1> QED
  BY <1>9, <1>10

LEMMA MoveBooked == ASSUME IInv, IInv', FinishMove PROVE Booked
<1>1. PICK k \in Keys, n \in Keys, i \in Intents : k = op.dir /\ n = Target /\ i = Owed
  BY FinishIs DEF FinishMove, Finishing
<1>2. /\ disk[k] # None /\ disk[k].intent = i /\ k \in Interrupted
      /\ i # None /\ i.to \in Aliases /\ n = KeyOf[i.to] /\ (Unmoved(k) \/ Moved(k))
      /\ \A j \in Interrupted : j = k
  BY <1>1, FinishIs DEF FinishMove, Finishing, Owed
<1>3. /\ disk'[n] = disk[k] /\ (k # n => disk'[k] = None)
      /\ \A j \in Keys : j # k /\ j # n => disk'[j] = disk[j]
      /\ tombs' = tombs
  BY <1>1 DEF FinishMove
<1>4. CASE n = k
  <2>1. disk' \in [Keys -> Directories \cup {None}] /\ disk \in [Keys -> Directories \cup {None}]
    BY TypeOKIs DEF IInv, TypeOK
  <2>2. disk' = disk
    BY <1>3, <1>4, <2>1
  <2> QED
    BY <1>3, <2>2, FilesBooked DEF FilesKept
<1>5. CASE n # k
  <2>1. disk[n] = None /\ tombs[n] = None /\ KeyOf[i.from] = k
    BY <1>2, <1>5 DEF Unmoved, Moved, Free
  <2>2. Interrupted' = {n}
    BY <1>2, <1>3, <1>5 DEF Interrupted
  <2>3. \A j \in Keys : Retired(j) = tombs[j]
    <3>1. \A j \in Keys : ~Left(k, j)
      BY <1>2, <1>5 DEF Left
    <3> QED
      BY <1>2, <3>1, RetiredAre
  <2>4. Retired(k)' = i.to /\ \A j \in Keys : j # k => Retired(j)' = Retired(j)
    <3>1. Left(n, k)' /\ \A j \in Keys : j # k => ~Left(n, j)'
      BY <1>2, <1>3, <1>5, <2>1 DEF Left
    <3> QED
      BY <1>2, <1>3, <2>2, <2>3, <3>1, RetiredAreNext
  <2>5. PICK x \in Accounts : x = disk[k].account
    BY <1>2, DirectoryTyped DEF IInv
  <2>6. /\ NameOf(x) = NameIn(k) /\ NameOf(x)' = NameIn(n)'
        /\ \A y \in Accounts : y # x => NameOf(y)' = NameOf(y)
    BY <1>2, <1>3, <1>5, <2>1, <2>5, OthersNamed
  <2>7. NameIn(n)' = i.to
    BY <1>2, <1>3, <1>5, <2>1 DEF NameIn
  <2>8. KeyOf[NameIn(k)] = k /\ NameIn(k) # None
    BY <1>2, NameInIs
  <2> QED
    BY <1>2, <2>1, <2>3, <2>4, <2>6, <2>7, <2>8, BookMove
<1> QED
  BY <1>4, <1>5

LEMMA TombstoneBooked == ASSUME IInv, IInv', FinishTombstone PROVE Booked
<1>1. PICK k \in Keys, i \in Intents, old \in Keys : k = op.dir /\ i = Owed /\ old = KeyOf[i.from]
  BY FinishIs DEF FinishTombstone, Finishing
<1>2. /\ disk[k] # None /\ disk[k].intent = i /\ k \in Interrupted /\ i # None /\ tombs[k] = None
      /\ KeyOf[i.to] = k /\ \A j \in Interrupted : j = k
  BY <1>1, FinishIs DEF FinishTombstone, Finishing, Owed, IInv, OpPlaced, Moved
<1>3. /\ disk' = disk /\ tombs'[old] = (IF old = k THEN None ELSE i.to)
      /\ \A j \in Keys : j # old => tombs'[j] = tombs[j]
  BY <1>1, <1>2, TypeOKIs DEF IInv, TypedTombs, FinishTombstone, Tombstones
<1>4. Interrupted' = Interrupted /\ \A j \in Keys : Left(k, j)' <=> Left(k, j)
  BY <1>3 DEF Interrupted, Left
<1>5. RetiredSame
  <2> SUFFICES ASSUME NEW j \in Keys PROVE Retired(j)' = Retired(j)
    BY DEF RetiredSame
  <2>1. CASE Left(k, j)
    <3>1. Retired(j) = i.to
      BY <1>2, <2>1, RetiredAre
    <3>2. Retired(j)' = i.to
      BY <1>2, <1>3, <1>4, <2>1, RetiredAreNext
    <3> QED
      BY <3>1, <3>2
  <2>2. CASE ~Left(k, j)
    <3>1. j # old \/ old = k
      BY <1>1, <1>2, <2>2 DEF Left
    <3>2. tombs'[j] = tombs[j]
      BY <1>2, <1>3, <3>1
    <3>3. Retired(j) = tombs[j] /\ Retired(j)' = tombs'[j]
      BY <1>2, <1>4, <2>2, RetiredAre, RetiredAreNext
    <3> QED
      BY <3>2, <3>3
  <2> QED
    BY <2>1, <2>2
<1>6. NamesSame
  BY <1>3 DEF NamesSame, NameOf, NameIn
<1> QED
  BY <1>5, <1>6, BookSame DEF Booked

LEMMA ClearBooked == ASSUME IInv, IInv', FinishClear PROVE Booked
<1>1. PICK k \in Keys, i \in Intents, old \in Keys : k = op.dir /\ i = Owed /\ old = KeyOf[i.from]
  BY FinishIs DEF FinishClear, Finishing
<1>2. /\ disk[k] # None /\ disk[k] \in Directories /\ disk[k].intent = i /\ k \in Interrupted
      /\ i # None /\ KeyOf[i.to] = k /\ disk[k].alias = i.to /\ (\A j \in Interrupted : j = k)
      /\ (old # k => tombs[old] = i.to)
  BY <1>1, FinishIs DEF FinishClear, Finishing, Owed, IInv, OpPlaced, Moved
<1>3. tombs' = tombs /\ disk' = [disk EXCEPT ![k].intent = None]
  BY <1>1 DEF FinishClear
<1>4. disk'[k] = [disk[k] EXCEPT !.intent = None] /\ \A j \in Keys : j # k => disk'[j] = disk[j]
  BY <1>3, TypeOKIs DEF IInv, TypedDisk
<1>5. /\ disk'[k].alias = i.to /\ disk'[k].intent = None /\ disk'[k].account = disk[k].account
      /\ disk'[k] # None /\ \A j \in Keys : j # k => disk'[j] = disk[j]
  <2>1. disk'[k] \in Directories
    BY <1>2, <1>4 DEF Directories
  <2> QED
    BY <1>2, <1>4, <2>1 DEF Directories
<1>6. Interrupted' = {}
  BY <1>2, <1>5 DEF Interrupted
<1>7. RetiredSame
  <2> SUFFICES ASSUME NEW j \in Keys PROVE Retired(j)' = Retired(j)
    BY DEF RetiredSame
  <2>1. Retired(j)' = tombs[j]
    BY <1>3, <1>6, RetiredTombs
  <2>2. CASE Left(k, j)
    <3>1. Retired(j) = i.to /\ j = old /\ old # k
      BY <1>1, <1>2, <2>2, RetiredAre DEF Left
    <3> QED
      BY <1>2, <2>1, <3>1
  <2>3. CASE ~Left(k, j)
    BY <1>2, <2>1, <2>3, RetiredAre
  <2> QED
    BY <2>2, <2>3
<1>8. PICK x \in Accounts : x = disk[k].account
  BY <1>2, DirectoryTyped DEF IInv
<1>9. /\ NameOf(x) = NameIn(k) /\ NameOf(x)' = NameIn(k)'
      /\ \A y \in Accounts : y # x => NameOf(y)' = NameOf(y)
  BY <1>2, <1>5, <1>8, OthersNamed
<1>10. NameIn(k)' = i.to /\ NameIn(k) = i.to
  BY <1>2, <1>5 DEF NameIn
<1>11. NamesSame
  BY <1>9, <1>10 DEF NamesSame
<1> QED
  BY <1>7, <1>11, BookSame DEF Booked

LEMMA StepBooked == ASSUME Known, IInv, IInv', Next PROVE Booked
<1>1. Enters \/ Adds \/ Asks \/ Replies \/ Starts \/ Tokened \/ Handles \/ Crash \/ Recover
  BY NextIs DEF IInv
<1>2. ASSUME Adds \/ Asks \/ Starts PROVE FilesKept
  BY <1>2 DEF Adds, AddStart, AddDrop, Asks, Ask, Starts, RenameStart, durable, FilesKept
<1>3. ASSUME Replies \/ Tokened PROVE FilesKept
  BY <1>3 DEF Replies, RenameRetried, RenameRefused, LoseAnswer, AskAgain, AnswerRead, Tokened,
     TokenFind, TokenServe, TokenRead, durable, FilesKept
<1>4. ASSUME Handles PROVE FilesKept \/ WriteIntent \/ IntentFails
  BY <1>4 DEF Handles, StopOwner, StopFails, Reload, Reindex, Launch, Disconnect, durable, FilesKept
<1>5. ASSUME Crash \/ Recover
      PROVE  FilesKept \/ FinishSave \/ FinishMove \/ FinishTombstone \/ FinishClear
  BY <1>5 DEF Crash, Recover, Restart, RecoverNext, FinishFails, Serve, durable, FilesKept
<1> QED
  BY <1>1, <1>2, <1>3, <1>4, <1>5, FilesBooked, EntersBooked, IntentBooked, SaveBooked, MoveBooked,
     TombstoneBooked, ClearBooked

LEMMA InitBooked == Init => Book!Init
<1> SUFFICES ASSUME Init PROVE Book!Init
  OBVIOUS
<1>1. IInv /\ Interrupted = {} /\ \A k \in Keys : disk[k] = None /\ tombs[k] = None
  BY InitKeeps DEF Init, Interrupted
<1>2. \A x \in Accounts : NameOf(x) = None
  BY <1>1, NamesAre
<1>3. \A k \in Keys : Retired(k) = None
  BY <1>1, RetiredTombs
<1> QED
  BY <1>2, <1>3 DEF Book!Init

\* With its crashes and failures a rename is one step of the book: an account moves to its new
\* alias and the old one is retired at once, for good.
THEOREM Implements == ASSUME Known PROVE Spec => ImplementsBook
<1>1. IInv /\ IInv' /\ [Next]_vars => [Book!Next]_Book!vars
  <2>1. ASSUME IInv, IInv', Next PROVE Booked
    BY <2>1, StepBooked
  <2>2. ASSUME UNCHANGED vars PROVE Booked
    BY <2>2, FilesBooked DEF vars, durable, FilesKept
  <2> QED
    BY <2>1, <2>2 DEF Booked
<1>2. Init => Book!Init
  BY InitBooked
<1> QED
  BY <1>1, <1>2, Invariant, PTL DEF Spec, ImplementsBook, Book!Spec

\* So the promises of the book hold of the code's files: an alias has one account, nobody has
\* a retired alias, and a retired alias answers with the same successor for good.
THEOREM Promises ==
  ASSUME Known
  PROVE  Spec => []Book!OneHolder /\ []Book!RetiredUnheld /\ Book!RetiredForGood
<1>1. /\ Book!Spec => []Book!OneHolder
      /\ Book!Spec => []Book!RetiredUnheld
      /\ Book!Spec => Book!RetiredForGood
  BY KeyOfAssumption, NoneAssumption, Book!OneHolderHolds, Book!RetiredUnheldHolds,
     Book!RetiredForGoodHolds
<1> QED
  BY <1>1, Implements, PTL DEF ImplementsBook
=============================================================================
