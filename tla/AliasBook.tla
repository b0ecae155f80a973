------------------------------ MODULE AliasBook ------------------------------
(***************************************************************************)
(* What alias rename promises one company user (docs/central-server.md,    *)
(* src/src/central/rename.rs): every account has one alias, aliases are    *)
(* compared without case, and an alias an account has left is retired for  *)
(* good and answers with the alias that replaced it.                       *)
(***************************************************************************)
EXTENDS AliasNames, TLAPS

VARIABLES
  name,     \* the alias of each account
  retired   \* the tombstones: the alias that replaced each retired key

vars == <<name, retired>>

BookTypeOK ==
  /\ name \in [Accounts -> Aliases \cup {None}]
  /\ retired \in [Keys -> Aliases \cup {None}]

Taken(k) == \E x \in Accounts : name[x] # None /\ KeyOf[name[x]] = k
Open(k) == retired[k] = None /\ ~Taken(k)

Init ==
  /\ name = [x \in Accounts |-> None]
  /\ retired = [k \in Keys |-> None]

Enter(x, a) ==
  /\ name[x] = None /\ Open(KeyOf[a])
  /\ name' = [name EXCEPT ![x] = a]
  /\ UNCHANGED retired

Move(x, a) ==
  /\ name[x] # None /\ Open(KeyOf[a])
  /\ name' = [name EXCEPT ![x] = a]
  /\ retired' = [retired EXCEPT ![KeyOf[name[x]]] = a]

\* The same alias spelled in another case: the old spelling stays valid.
Recase(x, a) ==
  /\ name[x] # None /\ KeyOf[name[x]] = KeyOf[a]
  /\ name' = [name EXCEPT ![x] = a]
  /\ UNCHANGED retired

\* Every step gives one account another alias or spelling.
Next ==
  \E x \in Accounts :
    /\ name'[x] # name[x]
    /\ \E a \in Aliases : Enter(x, a) \/ Move(x, a) \/ Recase(x, a)

Spec == Init /\ [][Next]_vars

-----------------------------------------------------------------------------
\* One account per alias: two accounts never share a key.
OneHolder ==
  \A x, y \in Accounts :
    name[x] # None /\ name[y] # None /\ KeyOf[name[x]] = KeyOf[name[y]] => x = y

\* A retired alias is no account's alias, so a client that still uses it reaches
\* no account at all.
RetiredUnheld == \A k \in Keys : retired[k] # None => ~Taken(k)

\* A tombstone is never erased or redirected.
RetiredForGood == [][\A k \in Keys : retired[k] # None => retired'[k] = retired[k]]_vars

-----------------------------------------------------------------------------
(* The promises hold for every set of accounts and aliases. *)

USE KeyOfAssumption, NoneAssumption

BookInv == BookTypeOK /\ OneHolder /\ RetiredUnheld

LEMMA InitBookInv == Init => BookInv
BY DEF Init, BookInv, BookTypeOK, OneHolder, RetiredUnheld, Taken

\* An alias is open only while nobody has it and it is not retired, so taking it
\* keeps every account under its own alias.
LEMMA TakeOpen ==
  ASSUME BookInv, NEW x \in Accounts, NEW a \in Aliases, Open(KeyOf[a]),
         name' = [name EXCEPT ![x] = a]
  PROVE  /\ name' \in [Accounts -> Aliases \cup {None}]
         /\ OneHolder'
         /\ \A k \in Keys : Taken(k)' => Taken(k) \/ k = KeyOf[a]
<1>1. name \in [Accounts -> Aliases \cup {None}] /\ OneHolder
  BY DEF BookInv, BookTypeOK
<1>2. \A y \in Accounts : name[y] # None => KeyOf[name[y]] # KeyOf[a]
  BY DEF Open, Taken
<1>3. \A y \in Accounts : name'[y] = IF y = x THEN a ELSE name[y]
  BY <1>1
<1> QED
  BY <1>1, <1>2, <1>3 DEF OneHolder, Taken

LEMMA EnterInv ==
  ASSUME BookInv, NEW x \in Accounts, NEW a \in Aliases, Enter(x, a)
  PROVE  BookInv'
<1>1. /\ name' \in [Accounts -> Aliases \cup {None}] /\ OneHolder'
      /\ \A k \in Keys : Taken(k)' => Taken(k) \/ k = KeyOf[a]
  BY TakeOpen DEF Enter
<1>2. BookTypeOK'
  BY <1>1 DEF Enter, BookInv, BookTypeOK
<1>3. RetiredUnheld'
  BY <1>1 DEF Enter, BookInv, RetiredUnheld, Open
<1> QED
  BY <1>1, <1>2, <1>3 DEF BookInv

\* The alias left behind is retired in the same step; nobody else had it.
LEMMA MoveInv ==
  ASSUME BookInv, NEW x \in Accounts, NEW a \in Aliases, Move(x, a)
  PROVE  BookInv'
<1>0. PICK old \in Keys : old = KeyOf[name[x]]
  BY DEF Move, BookInv, BookTypeOK
<1>1. /\ name' \in [Accounts -> Aliases \cup {None}] /\ OneHolder'
      /\ \A k \in Keys : Taken(k)' => Taken(k) \/ k = KeyOf[a]
  BY TakeOpen DEF Move
<1>2. name[x] \in Aliases /\ KeyOf[a] \in Keys /\ Taken(old) /\ old # KeyOf[a]
  BY <1>0 DEF Move, BookInv, BookTypeOK, Open, Taken
<1>3. BookTypeOK'
  BY <1>1, <1>2 DEF Move, BookInv, BookTypeOK
<1>4. ~Taken(old)'
  <2>1. SUFFICES ASSUME NEW y \in Accounts, name'[y] # None, KeyOf[name'[y]] = old
                 PROVE  FALSE
    BY DEF Taken
  <2>2. y # x
    BY <2>1, <1>2 DEF Move, BookInv, BookTypeOK
  <2>3. name'[y] = name[y]
    BY <2>2 DEF Move, BookInv, BookTypeOK
  <2> QED
    BY <2>1, <2>2, <2>3, <1>0, <1>2 DEF Move, BookInv, OneHolder
<1>5. \A k \in Keys : retired'[k] = IF k = old THEN a ELSE retired[k]
  BY <1>0, <1>2 DEF Move, BookInv, BookTypeOK
<1>6. RetiredUnheld'
  BY <1>1, <1>2, <1>4, <1>5 DEF Move, BookInv, RetiredUnheld, Open
<1> QED
  BY <1>1, <1>3, <1>6 DEF BookInv

LEMMA RecaseInv ==
  ASSUME BookInv, NEW x \in Accounts, NEW a \in Aliases, Recase(x, a)
  PROVE  BookInv'
<1>1. /\ name \in [Accounts -> Aliases \cup {None}] /\ name[x] \in Aliases
      /\ KeyOf[name[x]] = KeyOf[a] /\ a # None
  BY DEF Recase, BookInv, BookTypeOK
<1>2. \A y \in Accounts : name'[y] = IF y = x THEN a ELSE name[y]
  BY <1>1 DEF Recase
<1>3. BookTypeOK'
  BY <1>1 DEF Recase, BookInv, BookTypeOK
<1>4. \A y \in Accounts :
        /\ name'[y] # None <=> name[y] # None
        /\ name[y] # None => KeyOf[name'[y]] = KeyOf[name[y]]
  BY <1>1, <1>2
<1>5. OneHolder'
  BY <1>4 DEF BookInv, OneHolder
<1>6. RetiredUnheld'
  BY <1>4 DEF Recase, BookInv, RetiredUnheld, Taken
<1> QED
  BY <1>3, <1>5, <1>6 DEF BookInv

\* The invariant is inductive.
LEMMA StepBookInv == BookInv /\ [Next]_vars => BookInv'
<1>1. ASSUME BookInv, UNCHANGED vars PROVE BookInv'
  BY <1>1 DEF BookInv, BookTypeOK, OneHolder, RetiredUnheld, Taken, vars
<1>2. ASSUME BookInv, NEW x \in Accounts, NEW a \in Aliases,
             Enter(x, a) \/ Move(x, a) \/ Recase(x, a)
      PROVE  BookInv'
  BY <1>2, EnterInv, MoveInv, RecaseInv
<1> QED
  BY <1>1, <1>2 DEF Next

THEOREM BookInvariant == Spec => []BookInv
<1>1. Init => BookInv
  BY InitBookInv
<1>2. BookInv /\ [Next]_vars => BookInv'
  BY StepBookInv
<1> QED
  BY <1>1, <1>2, PTL DEF Spec

\* Every alias belongs to at most one account, compared without case: a lookup
\* that ignores case (resolve_alias) never finds two owners.
THEOREM OneHolderHolds == Spec => []OneHolder
<1>1. BookInv => OneHolder
  BY DEF BookInv
<1> QED
  BY <1>1, BookInvariant, PTL

\* No account ever takes an alias that a rename has retired.
THEOREM RetiredUnheldHolds == Spec => []RetiredUnheld
<1>1. BookInv => RetiredUnheld
  BY DEF BookInv
<1> QED
  BY <1>1, BookInvariant, PTL

\* A tombstone stays as it was written: a rename retires the alias an account has,
\* and no account has a retired alias.
THEOREM RetiredForGoodHolds == Spec => RetiredForGood
<1>1. ASSUME BookInv, [Next]_vars
      PROVE  [\A k \in Keys : retired[k] # None => retired'[k] = retired[k]]_vars
  <2>1. SUFFICES ASSUME Next, NEW k \in Keys, retired[k] # None
                 PROVE  retired'[k] = retired[k]
    BY <1>1 DEF vars
  <2>2. PICK x \in Accounts, a \in Aliases : Enter(x, a) \/ Move(x, a) \/ Recase(x, a)
    BY <2>1 DEF Next
  <2>3. CASE Enter(x, a) \/ Recase(x, a)
    BY <2>3 DEF Enter, Recase
  <2>4. CASE Move(x, a)
    <3>1. Taken(KeyOf[name[x]])
      BY <2>4 DEF Move, Taken
    <3>2. KeyOf[name[x]] # k
      BY <3>1, <2>1, <1>1 DEF BookInv, RetiredUnheld
    <3> QED
      BY <3>2, <2>4, <1>1 DEF Move, BookInv, BookTypeOK
  <2> QED
    BY <2>2, <2>3, <2>4
<1> QED
  BY <1>1, BookInvariant, PTL DEF Spec, RetiredForGood
=============================================================================
