------------------------ MODULE LocalProfilesProofs ------------------------
(***************************************************************************)
(* What holds of the commands of LocalProfiles on any machine: however     *)
(* many accounts, aliases, tokens, commands and deaths there are.  First   *)
(* comes whose an auth file is found to be (Attributed, Found, Resolved),  *)
(* then the steps, by what they change: nothing but the command            *)
(* (QuietStep), a marker or metadata (CommandStep), a credential under the *)
(* lock (LockedStep), or a token of the provider's (TokenStep).            *)
(***************************************************************************)
EXTENDS LocalProfiles, FiniteSetTheorems, TLAPS

Phases == Locked \cup {"idle", "home", "asked", "child", "unmark"}
Kinds == {"none", "switch", "seed", "return", "save", "login"}

\* A file some login or rotation wrote, whose workspace Codex may have added:
\* under what the tokens declare (c) and the newest generations (n).
Workspaces(c) == {c[t].ws : t \in Seats \X Generations} \cup {None}
FileIn(f, c, n) ==
  /\ f \in [seat : Seats, gen : Generations, ws : Workspaces(c)]
  /\ f.gen <= n[f.seat]
  /\ IF f.ws = None THEN c[Token(f)].ws = None
     ELSE \E g \in Generations : f.ws = c[<<f.seat, g>>].ws
GoodFile(f) == FileIn(f, claims, newest)
OptFile(f) == f = None \/ GoodFile(f)

ProfileOK(d) ==
  /\ d \in [dir : BOOLEAN, auth : {d.auth}, meta : {d.meta}]
  /\ OptFile(d.auth)
  /\ d.dir \/ d = NoDir
  /\ d.auth = None => d.meta = None
StoreTyped ==
  /\ world \in Worlds /\ newest \in [Seats -> Generations]
  /\ marker \in Aliases \cup {None}
  /\ GoodFile(live)
  /\ DOMAIN prof = Aliases /\ \A a \in Aliases : ProfileOK(prof[a])
  /\ DOMAIN exec = Aliases /\ \A a \in Aliases : OptFile(exec[a])

CommandShape(c) ==
  /\ c \in [pc : Phases, kind : Kinds, target : Aliases \cup {None}, label : BOOLEAN,
            source : {c.source}, confirmed : BOOLEAN, approved : BOOLEAN, shown : {c.shown},
            snap : {c.snap}, owner : Aliases \cup {None}]
  /\ c.pc \in {"idle", "unmark"} => c.kind = "none"
  /\ c.pc = "home" => c.kind = "login" /\ ~c.approved
  /\ c.pc = "child" => c.kind = "seed"
  /\ c.pc \in {"asked", "auth", "meta"} => c.kind \in {"save", "login"}
  /\ c.pc \in {"capture", "fold", "copy"} => c.kind \in {"switch", "seed", "return", "login"}
  /\ c.pc = "install" => c.kind \in {"switch", "seed", "login"}
  /\ c.pc = "mark" => c.kind \in {"switch", "save", "login"}
  /\ c.pc # "idle" => c.target \in Aliases
  /\ c.kind \in {"save", "login"} => c.source # None
  /\ c.kind = "save" => c.snap = None
CommandOK(c) == CommandShape(c) /\ OptFile(c.source) /\ OptFile(c.snap)
CommandsTyped == DOMAIN cmd = Commands /\ \A p \in Commands : CommandOK(cmd[p])

\* The store lock.
Mutex ==
  \A p, q \in Commands : cmd[p].pc \in Locked /\ cmd[q].pc \in Locked => p = q

---------------------------------------------------------------------------
(* What a command knows while it holds the lock. *)

Saving(p) ==
  \/ cmd[p].pc = "auth"
  \/ cmd[p].pc \in {"capture", "fold", "copy"} /\ cmd[p].kind = "login"

\* The owner of the captured file, and that the file is the newer one.
Folding(p) ==
  cmd[p].pc \in {"fold", "copy"} =>
    LET old == prof[cmd[p].owner].auth
    IN  /\ cmd[p].owner \in Aliases /\ cmd[p].snap # None /\ old # None
        /\ Supersedes(cmd[p].snap, old)
        /\ old.ws # None => old.seat = cmd[p].snap.seat
        /\ cmd[p].kind = "login" => cmd[p].owner # cmd[p].target
\* The profile to install.
Keeps(p) ==
  /\ cmd[p].pc \in {"capture", "fold", "copy", "install"} /\ cmd[p].kind \in {"switch", "seed"}
       => prof[cmd[p].target].auth # None
  /\ cmd[p].pc \in {"meta", "install", "mark"} /\ cmd[p].kind \in {"save", "login"}
       => prof[cmd[p].target].auth = cmd[p].source
\* The captured file is saved, unless nobody owns it.
Snapped(p) ==
  AllDeclared /\ cmd[p].pc \in {"auth", "meta", "install"} /\ cmd[p].snap # None =>
    \A b \in Aliases :
      prof[b].auth # None /\ prof[b].auth.seat = cmd[p].snap.seat
        /\ (cmd[p].pc = "auth" => b # cmd[p].target)
      => prof[b].auth.gen >= cmd[p].snap.gen \/ cmd[p].snap.seat \in excused
\* What the operator was asked about is what is replaced.
Answers(p) ==
  LET old == prof[cmd[p].target].auth
  IN  /\ cmd[p].pc = "auth" /\ cmd[p].kind = "save" /\ old # None
           => cmd[p].confirmed /\ cmd[p].shown = <<old>>
      /\ Saving(p) /\ cmd[p].kind = "login" /\ cmd[p].approved => cmd[p].shown = <<old>>
      /\ Saving(p) /\ cmd[p].kind = "login" /\ ~cmd[p].approved /\ old # None /\ SaysWhose(old)
           => old.seat = cmd[p].source.seat
\* Nobody else holds the account that is being saved.
Alone(p) ==
  AllDeclared /\ Saving(p) =>
    \A b \in Aliases \ {cmd[p].target} :
      prof[b].auth # None => prof[b].auth.seat # cmd[p].source.seat
Verifying(p) ==
  cmd[p].pc = "auth" /\ cmd[p].kind = "save"
    => cmd[p].source.seat \in excused \/ live.seat = cmd[p].source.seat
Held(p) ==
  Folding(p) /\ Keeps(p) /\ Snapped(p) /\ Answers(p) /\ Alone(p) /\ Verifying(p)

---------------------------------------------------------------------------
\* A login that has not been saved holds the newest token, and nobody else does.
Older(f, g) == f # None /\ f.seat = g.seat => f.gen < g.gen
Unsaved(p) ==
  cmd[p].kind = "login" /\ cmd[p].pc \in {"home", "asked", "capture", "fold", "copy", "auth"}
Unique(p) ==
  LET new == cmd[p].source
  IN  /\ new.gen = newest[new.seat]
      /\ Older(live, new)
      /\ \A a \in Aliases : Older(prof[a].auth, new) /\ Older(exec[a], new)
      /\ \A q \in Commands : Older(cmd[q].snap, new) /\ (q # p => Older(cmd[q].source, new))
Fresh == \A p \in Commands : Unsaved(p) => cmd[p].source.seat \in excused \/ Unique(p)

\* A pinned home holds a saved account.
ExecSaved ==
  AllDeclared => \A a \in Aliases : exec[a] # None =>
    exec[a].seat \in excused \/ Saved(exec[a].seat)
Kept ==
  AllDeclared => \A s \in Seats \ excused : Saved(s) \/ live.seat = s => OnDisk(s)

IInv ==
  /\ StoreTyped /\ CommandsTyped /\ Mutex
  /\ \A p \in Commands : Held(p)
  /\ Fresh /\ OneAlias /\ ExecSaved /\ Kept
---------------------------------------------------------------------------
(* Whose file is it. *)

\* One alias is picked only out of a set that has it.
LEMMA OnlyMember == ASSUME NEW S, Only(S) # None PROVE Only(S) \in S
<1>1. Cardinality(S) = 1 BY DEF Only
<1>2. S # {} BY <1>1, FS_EmptySet
<1>3. PICK x \in S : TRUE BY <1>2
<1> QED BY <1>1, <1>3 DEF Only

LEMMA OnlyOne == ASSUME NEW a PROVE Only({a}) = a /\ Cardinality({a}) = 1
<1>1. Cardinality({a}) = 1 BY FS_Singleton
<1> QED BY <1>1 DEF Only

\* Two logins are the same if the first claim both make is.
LEMMA SameIs == ASSUME NEW x, NEW y PROVE
  Same(x, y) <=> IF x.uid # None /\ y.uid # None THEN x.uid = y.uid
                 ELSE x.sub # None /\ y.sub # None /\ x.sub = y.sub
BY DEF Same, Comparable, Shared

LEMMA GoodIs == ASSUME NEW f, GoodFile(f) PROVE
  /\ f.seat \in Seats /\ f.gen \in Generations /\ f.gen \in Nat /\ f.gen >= 1
  /\ f.gen <= newest[f.seat] /\ Token(f) = <<f.seat, f.gen>>
  /\ Token(f) \in Seats \X Generations
<1>1. f.seat \in Seats /\ f.gen \in Generations /\ f.gen <= newest[f.seat] BY DEF GoodFile, FileIn
<1>2. f.gen \in Nat \ {0} BY <1>1, WorldsAssumption
<1>3. Token(f) = <<f.seat, f.gen>> BY DEF Token
<1> QED BY <1>1, <1>2, <1>3

LEMMA GoodNotNone == ASSUME StoreTyped, NEW f, GoodFile(f) PROVE f # None
BY NamesAssumption DEF GoodFile, FileIn, StoreTyped, Workspaces, claims

\* A file of a world whose tokens name everything names its workspace.
LEMMA DeclaredNames == ASSUME AllDeclared, NEW f, GoodFile(f) PROVE
  f.ws # None /\ Logins(f).uid # None /\ Logins(f) # Unknown
<1>1. Token(f) \in Seats \X Generations BY GoodIs
<1>2. f.ws # None BY <1>1 DEF GoodFile, FileIn, AllDeclared
<1>3. Logins(f).uid # None BY <1>1 DEF Logins, AllDeclared
<1>4. Unknown.uid = None BY DEF Unknown
<1> QED BY <1>2, <1>3, <1>4

\* Files of one workspace and one login are files of one seat.
LEMMA OneSeat == ASSUME StoreTyped, NEW f, NEW g, GoodFile(f), GoodFile(g),
  f.ws # None, f.ws = g.ws, Same(Logins(f), Logins(g))
  PROVE f.seat = g.seat
<1>1. world \in Worlds BY DEF StoreTyped
<1>2. PICK i \in Generations : f.ws = claims[<<f.seat, i>>].ws BY DEF GoodFile, FileIn
<1>3. PICK j \in Generations : g.ws = claims[<<g.seat, j>>].ws BY DEF GoodFile, FileIn
<1>4. /\ f.seat \in Seats /\ f.gen \in Generations /\ Token(f) = <<f.seat, f.gen>>
      /\ g.seat \in Seats /\ g.gen \in Generations /\ Token(g) = <<g.seat, g.gen>>
  BY GoodIs
<1>5. Same(claims[Token(f)], claims[Token(g)]) BY SameIs DEF Logins
<1>6. SUFFICES ASSUME f.seat # g.seat PROVE FALSE OBVIOUS
<1>7. ~Same(world.claims[<<f.seat, f.gen>>], world.claims[<<g.seat, g.gen>>])
  BY <1>1, <1>2, <1>3, <1>4, <1>6, SeatsAssumption DEF claims
<1> QED BY <1>4, <1>5, <1>7 DEF claims

\* Files of one seat, in a world whose tokens name everything, agree.
LEMMA SeatAgrees == ASSUME StoreTyped, AllDeclared, NEW f, NEW g, GoodFile(f), GoodFile(g),
  f.seat = g.seat
  PROVE f.ws = g.ws /\ Same(Logins(f), Logins(g))
<1>1. world \in Worlds BY DEF StoreTyped
<1>2. f.ws # None /\ g.ws # None /\ Logins(f).uid # None /\ Logins(g).uid # None BY DeclaredNames
<1>3. PICK i \in Generations : f.ws = claims[<<f.seat, i>>].ws BY <1>2 DEF GoodFile, FileIn
<1>4. PICK j \in Generations : g.ws = claims[<<g.seat, j>>].ws BY <1>2 DEF GoodFile, FileIn
<1>5. /\ f.seat \in Seats /\ f.gen \in Generations /\ Token(f) = <<f.seat, f.gen>>
      /\ g.seat \in Seats /\ g.gen \in Generations /\ Token(g) = <<g.seat, g.gen>>
  BY GoodIs
<1>6. Agree(world.claims[<<f.seat, i>>].ws, world.claims[<<f.seat, j>>].ws)
  BY <1>1, <1>5, SeatsAssumption
<1>7. Agree(world.claims[<<f.seat, f.gen>>].uid, world.claims[<<f.seat, g.gen>>].uid)
  BY <1>1, <1>5, SeatsAssumption
<1>8. Logins(f).uid = Logins(g).uid BY <1>2, <1>5, <1>7 DEF Agree, Logins, claims
<1> QED BY <1>2, <1>3, <1>4, <1>6, <1>8, SameIs DEF Agree, claims

LEMMA ProfileIs == ASSUME StoreTyped, NEW a \in Aliases PROVE
  /\ OptFile(prof[a].auth)
  /\ prof[a].auth # None => prof[a].dir /\ a \in Dirs /\ GoodFile(prof[a].auth)
  /\ prof[a].auth = None => prof[a].meta = None
<1>1. ProfileOK(prof[a]) BY DEF StoreTyped
<1>2. prof[a].auth # None => prof[a].dir BY <1>1 DEF ProfileOK, NoDir
<1> QED BY <1>1, <1>2 DEF ProfileOK, Dirs, OptFile

LEMMA HolderIs == ASSUME StoreTyped, NEW f, GoodFile(f), NEW a \in Holders(f) PROVE
  /\ a \in Aliases /\ prof[a].auth # None
  /\ prof[a].auth.seat = f.seat /\ prof[a].auth.gen = f.gen
<1>1. a \in Aliases /\ prof[a].auth # None /\ Token(prof[a].auth) = Token(f)
  BY DEF Holders, Dirs
<1> QED BY <1>1 DEF Token

LEMMA StrongestHolds == ASSUME NEW f, StrongestExactMatch(f) # None PROVE
  StrongestExactMatch(f) \in Holders(f)
<1> DEFINE H == Holders(f)
<1>1. Lone(f, H) \subseteq H /\ Declaring(f, H) \subseteq H /\ Permitted(f, H) \subseteq H
  BY DEF Lone, Declaring, Permitted
<1>2. \A S : S \subseteq H /\ Only(S) # None => Only(S) \in H BY OnlyMember
<1> QED BY <1>1, <1>2, Zenon DEF StrongestExactMatch

LEMMA WorkspaceIs == ASSUME NEW a \in Aliases, prof[a].auth # None, prof[a].auth.ws # None
  PROVE WorkspaceOf(a) = prof[a].auth.ws
BY DEF WorkspaceOf

\* The alias a capture picks holds a file, and one of the seat of the captured
\* file if the held file names its workspace.
LEMMA Attributed == ASSUME StoreTyped, NEW f, GoodFile(f), NEW h \in Aliases \cup {None},
  NEW a, a = AliasWithHint(f, h), a # None
  PROVE /\ a \in Aliases /\ prof[a].auth # None
        /\ prof[a].auth.ws # None => prof[a].auth.seat = f.seat
<1> DEFINE Owns(x) == /\ x \in Aliases /\ prof[x].auth # None
                      /\ prof[x].auth.ws # None => prof[x].auth.seat = f.seat
           H == Holders(f)
           hinted == IF h # None /\ Listed(h) THEN h ELSE None
           sameSeat == {x \in Dirs : prof[x].auth # None /\ Same(Logins(f), Logins(prof[x].auth))}
<1> HIDE DEF Owns
<1>1. ASSUME NEW x \in H PROVE Owns(x) BY HolderIs DEF Owns
<1>2. ASSUME NEW x \in Aliases, prof[x].auth # None, WorkspaceOf(x) = f.ws,
             Same(Logins(f), Logins(prof[x].auth))
      PROVE Owns(x)
  <2>1. GoodFile(prof[x].auth) BY <1>2, ProfileIs
  <2>2. CASE prof[x].auth.ws = None BY <1>2, <2>2 DEF Owns
  <2>3. CASE prof[x].auth.ws # None
    <3>1. f.ws = prof[x].auth.ws BY <1>2, <2>3, WorkspaceIs
    <3> QED BY <1>2, <2>1, <2>3, <3>1, OneSeat DEF Owns
  <2> QED BY <2>2, <2>3
<1>3. CASE H # {}
  <2>1. CASE StrongestExactMatch(f) # None
    <3>1. a = StrongestExactMatch(f) BY <1>3, <2>1, Zenon DEF AliasWithHint
    <3> QED BY <1>1, <2>1, <3>1, StrongestHolds DEF Owns
  <2>2. CASE StrongestExactMatch(f) = None
    <3>1. a \in H BY <1>3, <2>2, Zenon DEF AliasWithHint
    <3> QED BY <1>1, <3>1 DEF Owns
  <2> QED BY <2>1, <2>2
<1>4. CASE H = {} /\ hinted # None /\ Belongs(f, hinted)
  <2>1. a = hinted BY <1>4, Zenon DEF AliasWithHint
  <2>2. a \in Aliases BY <1>4, <2>1
  <2>3. prof[a].auth # None /\ WorkspaceOf(a) = f.ws /\ Same(Logins(f), Logins(prof[a].auth))
    BY <1>4, <2>1 DEF Belongs, ClaimsAgree
  <2> QED BY <1>2, <2>2, <2>3 DEF Owns
<1>5. CASE H = {} /\ ~(hinted # None /\ Belongs(f, hinted))
  <2>1. a = AliasForAuthJson(f) BY <1>5, Zenon DEF AliasWithHint
  <2>2. CASE f.ws # None
    <3>1. a = Only({x \in sameSeat : WorkspaceOf(x) = f.ws})
      BY <1>5, <2>1, <2>2, Zenon DEF AliasForAuthJson
    <3>2. a \in {x \in sameSeat : WorkspaceOf(x) = f.ws} BY <3>1, OnlyMember
    <3> QED BY <1>2, <3>2 DEF Dirs, Owns
  <2>3. CASE f.ws = None
    <3>1. a = Only(sameSeat) /\ \A x \in sameSeat : WorkspaceOf(x) = None
      BY <1>5, <2>1, <2>3, Zenon DEF AliasForAuthJson
    <3>2. a \in sameSeat BY <3>1, OnlyMember
    <3> QED BY <1>2, <2>3, <3>1, <3>2 DEF Dirs, Owns
  <2> QED BY <2>2, <2>3
<1> QED BY <1>3, <1>4, <1>5 DEF Owns

\* Where every token names everything, a capture finds the alias that holds the
\* seat, whatever alias it is told.
LEMMA Found == ASSUME StoreTyped, AllDeclared, OneAlias, NEW f, GoodFile(f),
  NEW h \in Aliases \cup {None}, NEW b \in Aliases, prof[b].auth # None, prof[b].auth.seat = f.seat
  PROVE AliasWithHint(f, h) = b
<1> DEFINE H == Holders(f)
           hinted == IF h # None /\ Listed(h) THEN h ELSE None
           sameSeat == {x \in Dirs : prof[x].auth # None /\ Same(Logins(f), Logins(prof[x].auth))}
<1>1. f.ws # None BY DeclaredNames
<1>2. GoodFile(prof[b].auth) /\ b \in Dirs BY ProfileIs
<1>3. prof[b].auth.ws = f.ws /\ Same(Logins(f), Logins(prof[b].auth)) BY <1>2, SeatAgrees
<1>4. WorkspaceOf(b) = f.ws BY <1>1, <1>3, WorkspaceIs
<1>5. ASSUME NEW x \in Aliases, prof[x].auth # None, prof[x].auth.seat = f.seat PROVE x = b
  BY <1>5 DEF OneAlias
<1>6. ASSUME NEW x \in Aliases, prof[x].auth # None, WorkspaceOf(x) = f.ws,
              Same(Logins(f), Logins(prof[x].auth))
       PROVE x = b
  <2>1. GoodFile(prof[x].auth) BY <1>6, ProfileIs
  <2>2. prof[x].auth.ws # None BY <2>1, DeclaredNames
  <2>3. prof[x].auth.ws = f.ws BY <1>6, <2>2, WorkspaceIs
  <2>4. prof[x].auth.seat = f.seat BY <1>1, <1>6, <2>1, <2>3, OneSeat
  <2> QED BY <1>5, <1>6, <2>4
<1>7. H \subseteq {b} BY <1>5, HolderIs
<1>8. b # None BY NamesAssumption
<1>9. CASE H # {}
  <2>1. H = {b} BY <1>7, <1>9
  <2>2. Cardinality(H) = 1 BY <2>1, OnlyOne
  <2>3. Lone(f, H) = {b} BY <1>4, <2>1 DEF Lone
  <2>4. StrongestExactMatch(f) = b BY <2>2, <2>3, OnlyOne, Zenon DEF StrongestExactMatch
  <2> QED BY <1>8, <1>9, <2>4, Zenon DEF AliasWithHint
<1>10. CASE H = {} /\ hinted # None /\ Belongs(f, hinted)
  <2>1. hinted \in Aliases BY <1>10
  <2>2. /\ prof[hinted].auth # None /\ WorkspaceOf(hinted) = f.ws
        /\ Same(Logins(f), Logins(prof[hinted].auth))
    BY <1>10 DEF Belongs, ClaimsAgree
  <2>3. hinted = b BY <1>6, <2>1, <2>2
  <2>4. ~ClaimlessMatchIsAmbiguous(f, hinted) BY <1>1 DEF ClaimlessMatchIsAmbiguous
  <2> QED BY <1>10, <2>3, <2>4, Zenon DEF AliasWithHint
<1>11. CASE H = {} /\ ~(hinted # None /\ Belongs(f, hinted))
  <2>1. AliasWithHint(f, h) = AliasForAuthJson(f) BY <1>11, Zenon DEF AliasWithHint
  <2>2. ~\E x \in Dirs : Identifies(x, f)
    <3>1. SUFFICES ASSUME NEW x \in Dirs, Identifies(x, f) PROVE FALSE OBVIOUS
    <3>2. prof[x].meta = None BY <3>1, ProfileIs DEF Identifies, Dirs
    <3>3. RecordedLogins(prof[x].meta).uid = None /\ RecordedLogins(prof[x].meta).sub = None
      BY <3>2 DEF RecordedLogins
    <3> QED BY <3>1, <3>2, <3>3, SameIs DEF Identifies
  <2>3. {x \in sameSeat : WorkspaceOf(x) = f.ws} = {b}
    BY <1>2, <1>3, <1>4, <1>6 DEF Dirs
  <2>4. AliasForAuthJson(f) = Only({x \in sameSeat : WorkspaceOf(x) = f.ws})
    BY <1>1, <1>11, <2>2, Zenon DEF AliasForAuthJson
  <2> QED BY <2>1, <2>3, <2>4, OnlyOne
<1> QED BY <1>9, <1>10, <1>11

\* What a profile is known by is what its file says, where the file says it.
LEMMA IdentityIs == ASSUME StoreTyped, NEW a \in Aliases, prof[a].auth # None,
  SaysWhose(prof[a].auth)
  PROVE /\ LoginsOf(a) = Logins(prof[a].auth)
        /\ IdentityOf(a).ws = prof[a].auth.ws
        /\ IdentityOf(a).logins.uid = Logins(prof[a].auth).uid
        /\ IdentityOf(a).logins.sub = Logins(prof[a].auth).sub
<1> DEFINE speaks == live # None /\ ~LiveContested /\ a \in Holders(live)
<1>1. WorkspaceOf(a) = prof[a].auth.ws /\ WorkspaceOf(a) # None BY WorkspaceIs DEF SaysWhose
<1>2. LoginsOf(a) = Logins(prof[a].auth) BY DEF LoginsOf, SaysWhose
<1>3. speaks => Logins(live) = Logins(prof[a].auth) BY DEF Holders, Logins
<1>4. IdentityOf(a).ws = prof[a].auth.ws BY <1>1 DEF IdentityOf
<1>5. Unknown.uid = None /\ Unknown.sub = None BY DEF Unknown
<1>6. IdentityOf(a).logins.uid = Logins(prof[a].auth).uid BY <1>2, <1>3, <1>5 DEF IdentityOf
<1>7. IdentityOf(a).logins.sub = Logins(prof[a].auth).sub BY <1>2, <1>3, <1>5 DEF IdentityOf
<1> QED BY <1>2, <1>4, <1>6, <1>7

LEMMA SeatIs == ASSUME StoreTyped, NEW f, GoodFile(f), NEW a \in ExistingSeat(f),
  prof[a].auth # None, SaysWhose(prof[a].auth)
  PROVE prof[a].auth.seat = f.seat
<1>1. /\ a \in Aliases /\ f.ws # None /\ IdentityOf(a).ws = f.ws
      /\ Same(Logins(f), IdentityOf(a).logins)
  BY DEF ExistingSeat, Dirs
<1>2. GoodFile(prof[a].auth) BY <1>1, ProfileIs
<1>3. prof[a].auth.ws = f.ws BY <1>1, IdentityIs
<1>4. Same(Logins(f), Logins(prof[a].auth)) BY <1>1, IdentityIs, SameIs
<1> QED BY <1>1, <1>2, <1>3, <1>4, OneSeat

\* Where every token names everything, these are the aliases of the seat.
LEMMA SeatExists == ASSUME StoreTyped, AllDeclared, NEW f, GoodFile(f) PROVE
  ExistingSeat(f) = {a \in Aliases : prof[a].auth # None /\ prof[a].auth.seat = f.seat}
<1>1. ASSUME NEW a \in ExistingSeat(f) PROVE prof[a].auth # None /\ prof[a].auth.seat = f.seat
  <2>1. a \in Aliases /\ f.ws # None /\ IdentityOf(a).ws = f.ws BY DEF ExistingSeat, Dirs
  <2>2. prof[a].auth # None
    <3>1. SUFFICES ASSUME prof[a].auth = None PROVE FALSE OBVIOUS
    <3>2. prof[a].meta = None BY <2>1, <3>1, ProfileIs
    <3>3. WorkspaceOf(a) = None BY <3>1, <3>2 DEF WorkspaceOf
    <3>4. a \notin Holders(live) BY <3>1 DEF Holders
    <3> QED BY <2>1, <3>3, <3>4 DEF IdentityOf
  <2>3. GoodFile(prof[a].auth) BY <2>1, <2>2, ProfileIs
  <2>4. SaysWhose(prof[a].auth) BY <2>3, DeclaredNames DEF SaysWhose
  <2> QED BY <2>2, <2>4, SeatIs
<1>2. ASSUME NEW a \in Aliases, prof[a].auth # None, prof[a].auth.seat = f.seat
      PROVE a \in ExistingSeat(f)
  <2>1. GoodFile(prof[a].auth) /\ a \in Dirs BY <1>2, ProfileIs
  <2>2. SaysWhose(prof[a].auth) BY <2>1, DeclaredNames DEF SaysWhose
  <2>3. f.ws # None /\ Logins(f) # Unknown BY DeclaredNames
  <2>4. prof[a].auth.ws = f.ws /\ Same(Logins(f), Logins(prof[a].auth)) BY <1>2, <2>1, SeatAgrees
  <2>5. IdentityOf(a).ws = f.ws BY <1>2, <2>2, <2>4, IdentityIs
  <2>6. Same(Logins(f), IdentityOf(a).logins) BY <1>2, <2>2, <2>4, IdentityIs, SameIs
  <2> QED BY <2>1, <2>3, <2>5, <2>6 DEF ExistingSeat
<1> QED BY <1>1, <1>2 DEF ExistingSeat, Dirs

\* A file that conflicts with nothing is of the seat the profile says it holds.
LEMMA NoConflict == ASSUME StoreTyped, NEW f, GoodFile(f), NEW a \in Aliases,
  Conflict(a, f) = "none", prof[a].auth # None, SaysWhose(prof[a].auth)
  PROVE prof[a].auth.seat = f.seat
<1>1. prof[a].dir /\ GoodFile(prof[a].auth) BY ProfileIs
<1>2. LoginsOf(a) = Logins(prof[a].auth) /\ LoginsOf(a) # Unknown BY IdentityIs DEF SaysWhose
<1>3. WorkspaceOf(a) = prof[a].auth.ws BY WorkspaceIs DEF SaysWhose
<1>4. ClaimsAgree(f.ws, WorkspaceOf(a)) /\ Same(Logins(f), LoginsOf(a))
  BY <1>1, <1>2 DEF Conflict
<1> QED BY <1>1, <1>2, <1>3, <1>4, OneSeat DEF ClaimsAgree, SaysWhose

LEMMA ExactHolds == ASSUME NEW f PROVE ExactTokenSeat(f) \subseteq Holders(f)
BY DEF ExactTokenSeat, Lone, Declaring, Permitted

LEMMA SeatFinite == ASSUME NEW f PROVE
  /\ IsFiniteSet(ExactTokenSeat(f)) /\ IsFiniteSet(ExistingSeat(f))
  /\ ExactTokenSeat(f) \subseteq Aliases /\ ExistingSeat(f) \subseteq Aliases
<1>1. ExactTokenSeat(f) \subseteq Aliases BY ExactHolds DEF Holders, Dirs
<1>2. ExistingSeat(f) \subseteq Aliases BY DEF ExistingSeat, Dirs
<1> QED BY <1>1, <1>2, FS_Subset, NamesAssumption

LEMMA QualifyIs == ASSUME NEW f, NEW a \in Aliases \cup {None} PROVE
  LET r == Qualify(a, f) IN
  /\ r.kind \in {"ready", "ask", "refuse"}
  /\ r.kind # "refuse" => r.alias = a /\ a \in Aliases
  /\ r.kind = "ready" => Conflict(a, f) = "none"
<1>1. Conflict(a, f) \in {"none", "different", "unprovable"} BY DEF Conflict
<1>2. /\ Refuse.kind = "refuse" /\ Ask(a).kind = "ask" /\ Ask(a).alias = a
      /\ Ready(a).kind = "ready" /\ Ready(a).alias = a
  BY DEF Refuse, Ask, Ready
<1>3. CASE a = None BY <1>2, <1>3 DEF Qualify
<1>4. CASE a # None /\ Conflict(a, f) = "none" BY <1>2, <1>4 DEF Qualify
<1>5. CASE a # None /\ Conflict(a, f) = "different" BY <1>2, <1>5 DEF Qualify
<1>6. CASE a # None /\ Conflict(a, f) = "unprovable" BY <1>2, <1>6 DEF Qualify
<1> QED BY <1>1, <1>3, <1>4, <1>5, <1>6

\* Where a login lands.
LEMMA Resolved == ASSUME StoreTyped, OneAlias, NEW f, GoodFile(f), NEW a \in Aliases,
  NEW label \in BOOLEAN, NEW r, r = ResolveTargetAlias(a, label, f)
  PROVE /\ r.kind \in {"ready", "ask", "refuse"}
        /\ r.kind # "refuse" => r.alias \in Aliases
        /\ AllDeclared /\ r.kind # "refuse" =>
             \A b \in Aliases \ {r.alias} : prof[b].auth # None => prof[b].auth.seat # f.seat
        /\ r.kind = "ready" /\ prof[r.alias].auth # None /\ SaysWhose(prof[r.alias].auth)
             => prof[r.alias].auth.seat = f.seat
<1> DEFINE exact == ExactTokenSeat(f)
           seat == IF exact # {} THEN exact ELSE ExistingSeat(f)
           conflict == Conflict(a, f)
<1>1. IsFiniteSet(seat) /\ seat \subseteq Aliases /\ Cardinality(seat) \in Nat
  BY SeatFinite, FS_CardinalityType
<1>2. ASSUME AllDeclared, NEW b \in Aliases, NEW c \in Aliases, prof[b].auth # None, prof[c].auth # None,
             prof[b].auth.seat = f.seat, prof[c].auth.seat = f.seat
      PROVE b = c
  BY <1>2 DEF OneAlias
<1>3. ASSUME NEW b \in seat, prof[b].auth # None, SaysWhose(prof[b].auth)
      PROVE prof[b].auth.seat = f.seat
  <2>1. CASE exact # {} BY <1>3, <2>1, ExactHolds, HolderIs
  <2>2. CASE exact = {} BY <1>3, <2>2, SeatIs
  <2> QED BY <2>1, <2>2
<1>4. ASSUME AllDeclared, NEW b \in seat PROVE prof[b].auth # None /\ prof[b].auth.seat = f.seat
  <2>1. CASE exact # {} BY <1>4, <2>1, ExactHolds, HolderIs
  <2>2. CASE exact = {} BY <1>4, <2>2, SeatExists
  <2> QED BY <2>1, <2>2
<1>5. ASSUME AllDeclared, seat = {}, NEW b \in Aliases, prof[b].auth # None
      PROVE prof[b].auth.seat # f.seat
  BY <1>5, SeatExists
<1>6. /\ Refuse.kind = "refuse"
      /\ \A x : Ask(x).kind = "ask" /\ Ask(x).alias = x /\ Ready(x).kind = "ready" /\ Ready(x).alias = x
  BY DEF Refuse, Ask, Ready
<1>7. conflict \in {"none", "different", "unprovable"} BY DEF Conflict
<1> HIDE DEF seat, exact, conflict
<1>r. r = CASE Cardinality(seat) = 1 -> Ready(Only(seat))
        [] Cardinality(seat) > 1 ->
             IF a \notin seat THEN Refuse
             ELSE IF conflict = "none" THEN Ready(a)
             ELSE IF conflict = "unprovable" /\ ~label THEN Ask(a) ELSE Refuse
        [] OTHER ->
             IF conflict = "none" THEN Ready(a)
             ELSE IF label THEN Qualify(Qualified[a], f)
             ELSE IF conflict = "unprovable" THEN Ask(a) ELSE Refuse
  BY Zenon DEF ResolveTargetAlias, seat, exact, conflict
<1>8. CASE Cardinality(seat) = 1
  <2>1. r.kind = "ready" /\ r.alias = Only(seat) BY <1>6, <1>8, <1>r
  <2>2. seat # {} BY <1>8, FS_EmptySet
  <2>3. PICK x \in seat : TRUE BY <2>2
  <2>4. Only(seat) \in seat BY <1>8, <2>3 DEF Only
  <2>5. AllDeclared => \A b \in Aliases \ {r.alias} : prof[b].auth # None => prof[b].auth.seat # f.seat
    BY <1>1, <1>2, <1>4, <2>1, <2>4
  <2> QED BY <1>1, <1>3, <2>1, <2>4, <2>5
<1>9. CASE Cardinality(seat) > 1
  <2>1. r.kind = "refuse" \/ (a \in seat /\ r.kind \in {"ready", "ask"} /\ r.alias = a)
    BY <1>1, <1>6, <1>9, <1>r
  <2>2. CASE r.kind = "refuse" BY <2>2
  <2>3. CASE a \in seat /\ r.kind \in {"ready", "ask"} /\ r.alias = a
    <3>1. AllDeclared => \A b \in Aliases \ {a} : prof[b].auth # None => prof[b].auth.seat # f.seat
      BY <1>1, <1>2, <1>4, <2>3
    <3> QED BY <1>1, <1>3, <2>3, <3>1
  <2> QED BY <2>1, <2>2, <2>3
<1>10. CASE Cardinality(seat) # 1 /\ ~(Cardinality(seat) > 1)
  <2>1. Cardinality(seat) = 0 BY <1>1, <1>10
  <2>2. seat = {} BY <1>1, <2>1, FS_EmptySet
  <2>3. AllDeclared => \A b \in Aliases : prof[b].auth # None => prof[b].auth.seat # f.seat
    BY <1>5, <2>2
  <2>4. Qualified[a] \in Aliases \cup {None} BY NamesAssumption
  <2>5. r = IF conflict = "none" THEN Ready(a)
            ELSE IF label THEN Qualify(Qualified[a], f)
            ELSE IF conflict = "unprovable" THEN Ask(a) ELSE Refuse
    BY <1>10, <1>r
  <2>6. \/ r.kind = "refuse"
        \/ /\ r.alias \in Aliases /\ r.kind \in {"ready", "ask"}
           /\ r.kind = "ready" => Conflict(r.alias, f) = "none"
    <3>1. CASE conflict = "none" BY <1>6, <2>5, <3>1 DEF conflict
    <3>2. CASE conflict # "none" /\ label
      <4>1. r = Qualify(Qualified[a], f) BY <2>5, <3>2
      <4> QED BY <2>4, <4>1, QualifyIs
    <3>3. CASE conflict # "none" /\ ~label BY <1>6, <2>5, <3>3
    <3> QED BY <3>1, <3>2, <3>3
  <2>7. CASE r.kind = "refuse" BY <2>7
  <2>8. CASE r.alias \in Aliases /\ r.kind \in {"ready", "ask"}
             /\ (r.kind = "ready" => Conflict(r.alias, f) = "none")
    BY <2>3, <2>8, NoConflict
  <2> QED BY <2>6, <2>7, <2>8
<1> QED BY <1>1, <1>8, <1>9, <1>10

---------------------------------------------------------------------------
(* The first state. *)

LEMMA IssuedGood == ASSUME world \in Worlds, NEW s \in Seats, NEW g \in Generations, NEW n,
  g <= n[s]
  PROVE /\ FileIn(Issued(s, g), claims, n)
        /\ Issued(s, g).seat = s /\ Issued(s, g).gen = g
<1> DEFINE f == Issued(s, g)
<1>1. f.seat = s /\ f.gen = g /\ f.ws = claims[<<s, g>>].ws BY DEF Issued
<1>2. Token(f) = <<s, g>> BY <1>1 DEF Token
<1>3. claims[<<s, g>>].ws \in Workspaces(claims) BY DEF Workspaces
<1>4. f \in [seat : Seats, gen : Generations, ws : Workspaces(claims)] BY <1>3 DEF Issued
<1> QED BY <1>1, <1>2, <1>4 DEF FileIn

LEMMA IdleShape == CommandShape(Idle) /\ Idle.pc = "idle" /\ Idle.kind = "none" /\ Idle.source = None
  /\ Idle.snap = None /\ Idle.target = None /\ Idle.owner = None
BY DEF CommandShape, Idle, Phases, Kinds

LEMMA InitHolds == LocalInit => IInv
<1> SUFFICES ASSUME LocalInit PROVE IInv OBVIOUS
<1>1. /\ world \in Worlds /\ newest = [s \in Seats |-> 1] /\ 1 \in Generations
      /\ exec = [a \in Aliases |-> None] /\ cmd = [p \in Commands |-> Idle] /\ excused = {}
  BY WorldsAssumption DEF LocalInit
<1>2. PICK saved \in [Aliases -> Seats \cup {None}] :
       /\ \A a, b \in Aliases : a # b /\ saved[a] # None => saved[a] # saved[b]
       /\ prof = [a \in Aliases |-> IF saved[a] = None THEN NoDir ELSE
                    [dir |-> TRUE, auth |-> Issued(saved[a], 1), meta |-> MetaOf(Issued(saved[a], 1))]]
       /\ \E s \in Seats :
            /\ live = Issued(s, 1)
            /\ marker = LET own == {a \in Aliases : saved[a] = s} IN Only(own)
  BY DEF LocalInit
<1>3. PICK s0 \in Seats : live = Issued(s0, 1) /\ marker = Only({a \in Aliases : saved[a] = s0})
  BY <1>2
<1>4. \A s \in Seats : newest[s] = 1 BY <1>1
<1>5. \A s \in Seats : GoodFile(Issued(s, 1)) /\ Issued(s, 1).seat = s /\ Issued(s, 1).gen = 1
  BY <1>1, <1>4, IssuedGood DEF GoodFile
<1>6. ASSUME NEW a \in Aliases
      PROVE \/ saved[a] = None /\ prof[a] = NoDir /\ prof[a].auth = None
            \/ /\ saved[a] \in Seats /\ saved[a] # None
               /\ prof[a].auth = Issued(saved[a], 1) /\ prof[a].dir
               /\ prof[a] \in [dir : BOOLEAN, auth : {prof[a].auth}, meta : {prof[a].meta}]
  BY <1>2 DEF NoDir
<1>7. StoreTyped
  <2>1. newest \in [Seats -> Generations] BY <1>1
  <2>2. marker \in Aliases \cup {None} BY <1>3, OnlyMember
  <2>3. GoodFile(live) BY <1>3, <1>5
  <2>4. ASSUME NEW a \in Aliases PROVE ProfileOK(prof[a])
    <3>1. CASE prof[a] = NoDir BY <3>1 DEF ProfileOK, NoDir, OptFile
    <3>2. CASE prof[a] # NoDir
      <4>1. GoodFile(prof[a].auth) BY <1>5, <1>6, <3>2
      <4>2. prof[a].auth # None
        <5>1. None \notin [seat : Seats, gen : Generations, ws : Workspaces(claims)]
          BY <1>1, NamesAssumption DEF Workspaces, claims
        <5> QED BY <4>1, <5>1 DEF GoodFile, FileIn
      <4> QED BY <1>6, <3>2, <4>1, <4>2 DEF ProfileOK, OptFile
    <3> QED BY <3>1, <3>2
  <2>5. DOMAIN prof = Aliases BY <1>2
  <2>6. DOMAIN exec = Aliases /\ \A a \in Aliases : OptFile(exec[a]) BY <1>1 DEF OptFile
  <2> QED BY <1>1, <2>1, <2>2, <2>3, <2>4, <2>5, <2>6 DEF StoreTyped
<1>8. CommandsTyped BY <1>1, IdleShape DEF CommandsTyped, CommandOK, OptFile
<1>9. \A p \in Commands : cmd[p].pc = "idle" /\ cmd[p].kind = "none" BY <1>1, IdleShape
<1>10. Mutex BY <1>9 DEF Mutex, Locked
<1>11. \A p \in Commands : Held(p)
  BY <1>9 DEF Held, Folding, Keeps, Snapped, Answers, Alone, Verifying, Saving
<1>12. Fresh BY <1>9 DEF Fresh, Unsaved
<1>13. OneAlias BY <1>2, <1>5, <1>6 DEF OneAlias
<1>14. ExecSaved BY <1>1 DEF ExecSaved
<1>15. Kept
  <2>1. SUFFICES ASSUME NEW s \in Seats, Saved(s) \/ live.seat = s PROVE OnDisk(s) BY DEF Kept
  <2>2. Issued(s, 1) # None BY <1>5, <1>7, GoodNotNone
  <2>3. CASE live.seat = s
    <3>1. Latest(live, s) BY <1>3, <1>4, <1>5, <2>2, <2>3 DEF Latest
    <3> QED BY <3>1 DEF OnDisk
  <2>4. CASE Saved(s)
    <3>1. PICK a \in Aliases : prof[a].auth # None /\ prof[a].auth.seat = s BY <2>4 DEF Saved
    <3>2. Latest(prof[a].auth, s) BY <1>4, <1>5, <1>6, <3>1 DEF Latest
    <3> QED BY <3>2 DEF OnDisk
  <2> QED BY <2>1, <2>3, <2>4
<1> QED BY <1>7, <1>8, <1>10, <1>11, <1>12, <1>13, <1>14, <1>15 DEF IInv

---------------------------------------------------------------------------
(* A step that leaves most of the state alone. *)

\* Time only issues tokens and excuses seats.
Grown ==
  /\ world' = world /\ newest' \in [Seats -> Generations]
  /\ \A s \in Seats : newest[s] <= newest'[s]
  /\ excused \subseteq excused'
Others(p) == DOMAIN cmd' = Commands /\ \A q \in Commands : q # p => cmd'[q] = cmd[q]

LEMMA SetIs == ASSUME CommandsTyped, NEW p \in Commands, NEW c, cmd' = [cmd EXCEPT ![p] = c]
  PROVE Others(p) /\ cmd'[p] = c
BY DEF CommandsTyped, Others

LEMMA FileGrows == ASSUME StoreTyped, Grown, NEW f, GoodFile(f)
  PROVE FileIn(f, claims', newest')
<1>1. f.seat \in Seats /\ f.gen \in Nat BY GoodIs
<1>2. newest[f.seat] \in Nat /\ newest'[f.seat] \in Nat BY <1>1, WorldsAssumption DEF StoreTyped, Grown
<1>3. f.gen <= newest'[f.seat] BY <1>1, <1>2, GoodIs DEF Grown
<1>4. claims' = claims BY DEF Grown, claims
<1> QED BY <1>3, <1>4 DEF GoodFile, FileIn

LEMMA OptGrows == ASSUME StoreTyped, Grown, NEW f, OptFile(f)
  PROVE f = None \/ FileIn(f, claims', newest')
BY FileGrows DEF OptFile

LEMMA CommandsStep == ASSUME StoreTyped, CommandsTyped, Grown, NEW p \in Commands, Others(p),
  CommandShape(cmd'[p]), cmd'[p].source = None \/ FileIn(cmd'[p].source, claims', newest'),
  cmd'[p].snap = None \/ FileIn(cmd'[p].snap, claims', newest')
  PROVE CommandsTyped'
<1>1. \A q \in Commands : CommandShape(cmd'[q])
  BY DEF CommandsTyped, CommandOK, Others
<1>2. ASSUME NEW q \in Commands
      PROVE /\ cmd'[q].source = None \/ FileIn(cmd'[q].source, claims', newest')
            /\ cmd'[q].snap = None \/ FileIn(cmd'[q].snap, claims', newest')
  <2>1. CASE q = p BY <2>1
  <2>2. CASE q # p
    <3>1. cmd'[q] = cmd[q] /\ OptFile(cmd[q].source) /\ OptFile(cmd[q].snap)
      BY <2>2 DEF Others, CommandsTyped, CommandOK
    <3> QED BY <3>1, OptGrows
  <2> QED BY <2>1, <2>2
<1> QED BY <1>1, <1>2 DEF CommandsTyped, CommandOK, OptFile, GoodFile, Others

LEMMA MutexStep == ASSUME Mutex, NEW p \in Commands, Others(p),
  cmd'[p].pc \in Locked => cmd[p].pc \in Locked \/ LockFree
  PROVE Mutex'
BY DEF Mutex, Others, LockFree

\* What a command that did not move knows.
SameAuth == \A a \in Aliases : prof'[a].auth = prof[a].auth
LEMMA HeldFree == ASSUME NEW q \in Commands, cmd'[q].pc \notin Locked PROVE Held(q)'
BY DEF Locked, Held, Folding, Keeps, Snapped, Answers, Alone, Verifying, Saving

LEMMA HeldFrame == ASSUME CommandsTyped, NEW q \in Commands, Held(q), cmd'[q] = cmd[q], SameAuth,
  world' = world, excused \subseteq excused', live'.seat = live.seat \/ live.seat \in excused'
  PROVE Held(q)'
<1>1. claims' = claims BY DEF claims
<1>2. AllDeclared' <=> AllDeclared BY <1>1 DEF AllDeclared
<1>3. cmd[q].pc # "idle" => cmd[q].target \in Aliases
  BY DEF CommandsTyped, CommandOK, CommandShape
<1>4. Folding(q)' BY DEF Held, Folding, SameAuth, Supersedes, Token
<1>5. Keeps(q)' BY <1>3 DEF Held, Keeps, SameAuth
<1>6. Snapped(q)' BY <1>2 DEF Held, Snapped, SameAuth
<1>7. Answers(q)'
  <2>1. CASE cmd[q].pc = "idle" BY <2>1 DEF Answers, Saving
  <2>2. CASE cmd[q].pc # "idle"
    <3>1. prof'[cmd[q].target].auth = prof[cmd[q].target].auth BY <1>3, <2>2 DEF SameAuth
    <3>2. SaysWhose(prof[cmd[q].target].auth)' <=> SaysWhose(prof[cmd[q].target].auth)
      BY <1>1, <3>1 DEF SaysWhose, Logins, Token, Unknown
    <3> QED BY <3>1, <3>2 DEF Held, Answers, Saving
  <2> QED BY <2>1, <2>2
<1>8. Alone(q)' BY <1>2 DEF Held, Alone, SameAuth, Saving
<1>9. Verifying(q)' BY DEF Held, Verifying
<1> QED BY <1>4, <1>5, <1>6, <1>7, <1>8, <1>9 DEF Held

\* A step after which no login that is not saved yet meets its token elsewhere.
LEMMA FreshStep == ASSUME StoreTyped, CommandsTyped, Fresh, NEW p \in Commands, Others(p),
  newest' = newest, excused \subseteq excused',
  Unsaved(p)' => Unsaved(p) /\ cmd'[p].source = cmd[p].source,
  \A r \in Commands : Unsaved(r) /\ Unsaved(r)' /\ Unique(r) =>
    /\ Older(live', cmd[r].source)
    /\ \A a \in Aliases : Older(prof'[a].auth, cmd[r].source) /\ Older(exec'[a], cmd[r].source)
    /\ Older(cmd'[p].snap, cmd[r].source)
    /\ r # p => Older(cmd'[p].source, cmd[r].source)
  PROVE Fresh'
<1> SUFFICES ASSUME NEW r \in Commands, Unsaved(r)' PROVE (cmd[r].source.seat \in excused \/ Unique(r))'
  BY DEF Fresh
<1>1. Unsaved(r) /\ cmd'[r].source = cmd[r].source BY DEF Others, Unsaved
<1>2. CASE cmd[r].source.seat \in excused BY <1>1, <1>2
<1>3. CASE Unique(r)
  <2>1. /\ Older(live', cmd[r].source)
        /\ \A a \in Aliases : Older(prof'[a].auth, cmd[r].source) /\ Older(exec'[a], cmd[r].source)
        /\ Older(cmd'[p].snap, cmd[r].source)
        /\ r # p => Older(cmd'[p].source, cmd[r].source)
    BY <1>1, <1>3
  <2>2. \A q \in Commands : Older(cmd'[q].snap, cmd[r].source)
    BY <1>3, <2>1 DEF Unique, Others
  <2>3. \A q \in Commands : q # r => Older(cmd'[q].source, cmd[r].source)
    BY <1>3, <2>1 DEF Unique, Others
  <2>4. cmd'[r].source.gen = newest'[cmd'[r].source.seat] BY <1>1, <1>3 DEF Unique
  <2> QED BY <1>1, <2>1, <2>2, <2>3, <2>4 DEF Unique, Older
<1> QED BY <1>1, <1>2, <1>3 DEF Fresh

LEMMA DeclaredSame == ASSUME world' = world PROVE (AllDeclared' <=> AllDeclared) /\ claims' = claims
BY DEF AllDeclared, claims

LEMMA GrownSame == ASSUME StoreTyped, world' = world, newest' = newest, excused \subseteq excused'
  PROVE Grown
<1>1. newest' \in [Seats -> Generations] BY DEF StoreTyped
<1>2. \A s \in Seats : newest[s] \in Nat BY WorldsAssumption DEF StoreTyped
<1>3. \A s \in Seats : newest[s] <= newest'[s] BY <1>2
<1> QED BY <1>1, <1>3 DEF Grown

\* A step of one command that changes no credential.
LEMMA CommandStep == ASSUME IInv, NEW p \in Commands, Others(p), SameAuth, StoreTyped',
  world' = world, newest' = newest, exec' = exec, live' = live, excused \subseteq excused',
  CommandShape(cmd'[p]),
  cmd'[p].source \in {None, live, cmd[p].source},
  cmd'[p].snap \in {None, live, cmd[p].snap} \cup {exec[a] : a \in Aliases},
  cmd'[p].pc \in Locked => cmd[p].pc \in Locked \/ LockFree,
  Unsaved(p)' => Unsaved(p) /\ cmd'[p].source = cmd[p].source,
  cmd[p].kind = "login" =>
    \/ cmd'[p].kind = "login" /\ cmd'[p].source = cmd[p].source
    \/ cmd[p].source.seat \in excused'
    \/ \E a \in Aliases : prof[a].auth = cmd[p].source,
  Held(p)'
  PROVE IInv'
<1>1. StoreTyped /\ CommandsTyped BY DEF IInv
<1>2. Grown BY <1>1, GrownSame
<1>3. OptFile(cmd[p].source) /\ OptFile(cmd[p].snap) BY <1>1 DEF CommandsTyped, CommandOK
<1>4. GoodFile(live) /\ \A a \in Aliases : OptFile(exec[a]) BY <1>1 DEF StoreTyped
<1>5. CommandsTyped'
  <2>1. cmd'[p].source = None \/ FileIn(cmd'[p].source, claims', newest')
    <3>1. OptFile(cmd'[p].source) BY <1>3, <1>4 DEF OptFile
    <3> QED BY <1>1, <1>2, <3>1, OptGrows
  <2>2. cmd'[p].snap = None \/ FileIn(cmd'[p].snap, claims', newest')
    <3>1. OptFile(cmd'[p].snap) BY <1>3, <1>4 DEF OptFile
    <3> QED BY <1>1, <1>2, <3>1, OptGrows
  <2> QED BY <1>1, <1>2, <2>1, <2>2, CommandsStep
<1>6. Mutex' BY MutexStep DEF IInv
<1>7. \A q \in Commands : Held(q)'
  <2>1. ASSUME NEW q \in Commands, q # p PROVE Held(q)'
    BY <1>1, <2>1, HeldFrame DEF IInv, Others
  <2> QED BY <2>1
<1>8. Fresh'
  <2>1. ASSUME NEW r \in Commands, Unique(r)
        PROVE /\ Older(live', cmd[r].source)
              /\ \A a \in Aliases : Older(prof'[a].auth, cmd[r].source) /\ Older(exec'[a], cmd[r].source)
              /\ Older(cmd'[p].snap, cmd[r].source)
              /\ r # p => Older(cmd'[p].source, cmd[r].source)
    <3>1. /\ Older(live, cmd[r].source)
          /\ \A a \in Aliases : Older(prof[a].auth, cmd[r].source) /\ Older(exec[a], cmd[r].source)
          /\ Older(cmd[p].snap, cmd[r].source)
          /\ r # p => Older(cmd[p].source, cmd[r].source)
      BY <2>1 DEF Unique
    <3>2. Older(None, cmd[r].source) BY DEF Older
    <3>3. Older(cmd'[p].snap, cmd[r].source) BY <3>1, <3>2
    <3>4. r # p => Older(cmd'[p].source, cmd[r].source) BY <3>1, <3>2
    <3> QED BY <3>1, <3>3, <3>4 DEF SameAuth
  <2> QED BY <1>1, <2>1, FreshStep DEF IInv
<1>9. OneAlias' BY DeclaredSame DEF IInv, OneAlias, SameAuth
<1>10. \A s : Saved(s)' <=> Saved(s) BY DEF Saved, SameAuth
<1>11. ExecSaved' BY <1>10, DeclaredSame DEF IInv, ExecSaved
<1>12. ASSUME NEW s \in Seats, s \notin excused', OnDisk(s) PROVE OnDisk(s)'
  <2>1. CASE Latest(live, s) BY <2>1 DEF OnDisk, Latest
  <2>2. ASSUME NEW a \in Aliases, Latest(prof[a].auth, s) \/ Latest(exec[a], s) PROVE OnDisk(s)'
    BY <2>2 DEF OnDisk, Latest, SameAuth
  <2>3. ASSUME NEW q \in Commands, cmd[q].kind = "login", Latest(cmd[q].source, s) PROVE OnDisk(s)'
    <3>1. CASE cmd'[q].kind = "login" /\ cmd'[q].source = cmd[q].source
      BY <2>3, <3>1 DEF OnDisk, Latest
    <3>2. CASE ~(cmd'[q].kind = "login" /\ cmd'[q].source = cmd[q].source)
      <4>1. q = p BY <2>3, <3>2 DEF Others
      <4>2. cmd[p].source.seat = s BY <2>3, <4>1 DEF Latest
      <4>3. PICK a \in Aliases : prof[a].auth = cmd[p].source BY <1>12, <2>3, <3>2, <4>1, <4>2
      <4> QED BY <2>2, <2>3, <4>1, <4>3
    <3> QED BY <3>1, <3>2
  <2> QED BY <1>12, <2>1, <2>2, <2>3 DEF OnDisk
<1>13. Kept'
  <2>1. SUFFICES ASSUME AllDeclared', NEW s \in Seats, s \notin excused', Saved(s)' \/ live'.seat = s
                 PROVE OnDisk(s)'
    BY DEF Kept
  <2>2. AllDeclared /\ s \notin excused /\ (Saved(s) \/ live.seat = s) BY <1>10, <2>1, DeclaredSame
  <2>3. OnDisk(s) BY <2>2 DEF IInv, Kept
  <2> QED BY <1>12, <2>1, <2>3
<1> QED BY <1>5, <1>6, <1>7, <1>8, <1>9, <1>11, <1>13 DEF IInv

---------------------------------------------------------------------------
(* The steps of a command that change no credential. *)

LEMMA StoreSame == ASSUME StoreTyped, world' = world, newest' = newest, live' = live,
  exec' = exec, prof' = prof, marker' \in Aliases \cup {None}
  PROVE StoreTyped' /\ SameAuth
BY DEF StoreTyped, SameAuth, ProfileOK, OptFile, GoodFile, claims, NoDir

LEMMA CommandIs == ASSUME CommandsTyped, NEW p \in Commands PROVE
  /\ CommandShape(cmd[p]) /\ OptFile(cmd[p].source) /\ OptFile(cmd[p].snap)
  /\ cmd[p].pc # "idle" => cmd[p].target \in Aliases
BY DEF CommandsTyped, CommandOK, CommandShape

\* A step of one command that changes nothing else but what is excused.
LEMMA QuietStep == ASSUME IInv, NEW p \in Commands, Others(p),
  UNCHANGED <<world, storeVars, exec, newest>>, excused \subseteq excused',
  CommandShape(cmd'[p]),
  cmd'[p].source \in {None, live, cmd[p].source},
  cmd'[p].snap \in {None, live, cmd[p].snap} \cup {exec[a] : a \in Aliases},
  cmd'[p].pc \in Locked => cmd[p].pc \in Locked \/ LockFree,
  Unsaved(p)' => Unsaved(p) /\ cmd'[p].source = cmd[p].source,
  cmd[p].kind = "login" =>
    \/ cmd'[p].kind = "login" /\ cmd'[p].source = cmd[p].source
    \/ cmd[p].source.seat \in excused'
    \/ \E a \in Aliases : prof[a].auth = cmd[p].source,
  Held(p)'
  PROVE IInv'
<1>1. StoreTyped' /\ SameAuth BY StoreSame DEF IInv, storeVars, StoreTyped
<1> QED BY <1>1, CommandStep DEF storeVars

LEMMA StepBegin == ASSUME IInv, NEW p \in Commands, NEW kind \in {"switch", "seed"}, NEW a \in Aliases,
  At(p, "idle"), Begin(p, kind, a)
  PROVE IInv'
<1> DEFINE c == [Idle EXCEPT !.pc = "capture", !.kind = kind, !.target = a]
<1>1. CommandsTyped BY DEF IInv
<1>2. Others(p) /\ cmd'[p] = c BY <1>1, SetIs DEF Begin, Set
<1>3. /\ c.pc = "capture" /\ c.kind = kind /\ c.target = a /\ c.source = None /\ c.snap = None
      /\ CommandShape(c)
  BY NamesAssumption DEF Idle, CommandShape, Phases, Kinds, Locked
<1> HIDE DEF c
<1>4. UNCHANGED <<world, storeVars, exec, newest>> /\ excused' = excused /\ LockFree
      /\ prof[a].auth # None
  BY DEF Begin, Unchanging
<1>5. cmd[p].kind # "login" BY <1>1, CommandIs DEF At, CommandShape
<1>6. Held(p)' BY <1>2, <1>3, <1>4
  DEF Held, Folding, Keeps, Snapped, Answers, Alone, Verifying, Saving, storeVars
<1>7. ~Unsaved(p)' BY <1>2, <1>3 DEF Unsaved
<1> QED BY <1>2, <1>3, <1>4, <1>5, <1>6, <1>7, QuietStep

LEMMA StepExecReturns == ASSUME IInv, NEW p \in Commands, ExecReturns(p) PROVE IInv'
<1>1. CommandsTyped BY DEF IInv
<1>2. cmd[p].pc = "child" /\ CommandShape(cmd[p]) /\ cmd[p].kind = "seed" /\ cmd[p].target \in Aliases
  BY <1>1, CommandIs DEF ExecReturns, At, CommandShape
<1>3. /\ Others(p)
      /\ cmd'[p] = [[cmd[p] EXCEPT !.pc = "capture"] EXCEPT !.kind = "return"]
  BY <1>1 DEF ExecReturns, CommandsTyped, Others
<1>4. /\ cmd'[p].pc = "capture" /\ cmd'[p].kind = "return"
      /\ cmd'[p].source = cmd[p].source /\ cmd'[p].snap = cmd[p].snap
      /\ CommandShape(cmd'[p])
  BY <1>2, <1>3 DEF CommandShape, Phases, Kinds, Locked
<1>5. UNCHANGED <<world, storeVars, exec, newest>> /\ excused' = excused /\ LockFree
  BY DEF ExecReturns, Unchanging
<1>6. Held(p)' BY <1>4 DEF Held, Folding, Keeps, Snapped, Answers, Alone, Verifying, Saving
<1>7. ~Unsaved(p)' BY <1>4 DEF Unsaved
<1> QED BY <1>2, <1>3, <1>4, <1>5, <1>6, <1>7, QuietStep

LEMMA StepSaveBegin == ASSUME IInv, NEW p \in Commands, NEW a \in Aliases, At(p, "idle"), SaveBegin(p, a)
  PROVE IInv'
<1>1. CommandsTyped BY DEF IInv
<1>2. PICK c : c = [Idle EXCEPT !.pc = "asked", !.kind = "save", !.target = a, !.source = live,
               !.confirmed = prof[a].dir, !.approved = (Conflict(a, live) = "unprovable"),
               !.shown = IF prof[a].dir THEN <<prof[a].auth>> ELSE <<>>]
  OBVIOUS
<1>3. Others(p) /\ cmd'[p] = c BY <1>1, <1>2, SetIs DEF SaveBegin, Set
<1>4. live # None /\ prof[a].dir \in BOOLEAN BY DEF SaveBegin, IInv, StoreTyped, ProfileOK
<1>5. c.pc = "asked" /\ c.kind = "save" /\ c.target = a /\ c.source = live /\ c.snap = None
      /\ c.owner = None
  BY <1>2 DEF Idle
<1>6. CommandShape(c)
  <2>1. PICK confirmed \in BOOLEAN : confirmed = prof[a].dir
    BY <1>4
  <2>2. PICK approved \in BOOLEAN : approved = (Conflict(a, live) = "unprovable")
    OBVIOUS
  <2>3. PICK shown : shown = IF prof[a].dir THEN <<prof[a].auth>> ELSE <<>>
    OBVIOUS
  <2>4. c = [Idle EXCEPT !.pc = "asked", !.kind = "save", !.target = a, !.source = live,
               !.confirmed = confirmed, !.approved = approved, !.shown = shown]
    BY <1>2, <2>1, <2>2, <2>3
  <2> QED
    BY <1>4, <1>5, <2>4 DEF Idle, CommandShape, Phases, Kinds, Locked
<1>7. UNCHANGED <<world, storeVars, exec, newest>> /\ excused' = excused BY DEF SaveBegin
<1>8. cmd[p].kind # "login" BY <1>1, CommandIs DEF At, CommandShape
<1>9. cmd'[p].pc \notin Locked BY <1>3, <1>5 DEF Locked
<1>10. Held(p)' BY <1>9, HeldFree
<1>11. ~Unsaved(p)' BY <1>3, <1>5 DEF Unsaved
<1> QED BY <1>3, <1>5, <1>6, <1>7, <1>8, <1>9, <1>10, <1>11, QuietStep

\* A command that ends.
LEMMA StepEnd == ASSUME IInv, NEW p \in Commands, End(p),
  UNCHANGED <<world, storeVars, exec, newest>>, excused \subseteq excused',
  cmd[p].kind = "login" => cmd[p].source.seat \in excused'
  PROVE IInv'
<1>1. Others(p) /\ cmd'[p] = Idle BY SetIs DEF End, Set, IInv
<1>2. cmd'[p].pc \notin Locked /\ ~Unsaved(p)' BY <1>1, IdleShape DEF Unsaved, Locked
<1>3. Held(p)' BY <1>2, HeldFree
<1> QED BY <1>1, <1>2, <1>3, IdleShape, QuietStep

LEMMA LaneIs == ASSUME StoreTyped, CommandsTyped, NEW p \in Commands, cmd[p].pc # "idle" PROVE
  /\ OptFile(Lane(p)) /\ Hint(p) \in Aliases \cup {None}
  /\ Lane(p) \in {live} \cup {exec[a] : a \in Aliases}
BY CommandIs DEF Lane, Hint, StoreTyped, OptFile

\* The file a capture folds is folded into a profile of its seat.
LEMMA OwnerIs == ASSUME IInv, NEW p \in Commands, cmd[p].pc # "idle", Owner(p) # None PROVE
  /\ Lane(p) # None /\ Owner(p) \in Aliases /\ prof[Owner(p)].auth # None
  /\ prof[Owner(p)].auth.ws # None => prof[Owner(p)].auth.seat = Lane(p).seat
  /\ cmd[p].kind = "login" => Owner(p) # cmd[p].target
<1>1. StoreTyped /\ CommandsTyped BY DEF IInv
<1>2. Lane(p) # None /\ Owner(p) = AliasWithHint(Lane(p), Hint(p))
      /\ (cmd[p].kind = "login" => Owner(p) # cmd[p].target)
  BY Zenon DEF Owner
<1>3. GoodFile(Lane(p)) /\ Hint(p) \in Aliases \cup {None} BY <1>1, <1>2, LaneIs DEF OptFile
<1> QED BY <1>1, <1>2, <1>3, Attributed

\* What a capture leaves alone is saved already.
LEMMA OwnerFound == ASSUME IInv, AllDeclared, NEW p \in Commands, cmd[p].pc # "idle", Lane(p) # None,
  NEW b \in Aliases, prof[b].auth # None, prof[b].auth.seat = Lane(p).seat,
  cmd[p].kind = "login" => b # cmd[p].target,
  ~(Owner(p) # None /\ Supersedes(Lane(p), prof[Owner(p)].auth))
  PROVE prof[b].auth.gen >= Lane(p).gen
<1>1. StoreTyped /\ CommandsTyped /\ OneAlias BY DEF IInv
<1>2. GoodFile(Lane(p)) /\ Hint(p) \in Aliases \cup {None} BY <1>1, LaneIs DEF OptFile
<1>3. AliasWithHint(Lane(p), Hint(p)) = b BY <1>1, <1>2, Found
<1>4. Owner(p) = b BY <1>3, Zenon DEF Owner
<1>5. ~Supersedes(Lane(p), prof[b].auth) BY <1>4, NamesAssumption
<1>6. Lane(p).gen \in Nat /\ prof[b].auth.gen \in Nat BY <1>1, <1>2, ProfileIs, GoodIs
<1> QED BY <1>5, <1>6 DEF Supersedes, Token

LEMMA StepCapture == ASSUME IInv, NEW p \in Commands, Capture(p) PROVE IInv'
<1>1. StoreTyped /\ CommandsTyped /\ Held(p) BY DEF IInv
<1>2. /\ cmd[p].pc = "capture" /\ CommandShape(cmd[p]) /\ cmd[p].target \in Aliases
      /\ cmd[p].kind \in {"switch", "seed", "return", "login"}
  BY <1>1, CommandIs DEF Capture, At, CommandShape
<1>3. UNCHANGED <<world, storeVars, exec, newest>> /\ excused' = excused BY DEF Capture, Unchanging
<1>4. Lane(p) \in {live} \cup {exec[a] : a \in Aliases} BY <1>1, <1>2, LaneIs
<1>5. cmd[p].pc \in Locked BY <1>2 DEF Locked
<1>6. CASE Owner(p) # None /\ Supersedes(Lane(p), prof[Owner(p)].auth)
  <2>1. cmd' = [cmd EXCEPT ![p].pc = "fold", ![p].snap = Lane(p), ![p].owner = Owner(p)]
    BY <1>6 DEF Capture
  <2>2. Others(p) /\ cmd'[p] = [cmd[p] EXCEPT !.pc = "fold", !.snap = Lane(p), !.owner = Owner(p)]
    BY <1>1, <2>1 DEF CommandsTyped, Others
  <2>3. /\ cmd'[p].pc = "fold" /\ cmd'[p].snap = Lane(p) /\ cmd'[p].owner = Owner(p)
        /\ cmd'[p].kind = cmd[p].kind /\ cmd'[p].target = cmd[p].target
        /\ cmd'[p].source = cmd[p].source /\ cmd'[p].approved = cmd[p].approved
        /\ cmd'[p].shown = cmd[p].shown
    BY <1>2, <2>2 DEF CommandShape
  <2>4. /\ Lane(p) # None /\ Owner(p) \in Aliases /\ prof[Owner(p)].auth # None
        /\ prof[Owner(p)].auth.ws # None => prof[Owner(p)].auth.seat = Lane(p).seat
        /\ cmd[p].kind = "login" => Owner(p) # cmd[p].target
    BY <1>2, <1>6, OwnerIs
  <2>5. CommandShape(cmd'[p]) BY <1>2, <2>2, <2>3, <2>4 DEF CommandShape, Phases, Locked
  <2>6. Held(p)'
    <3>1. Folding(p)' BY <1>3, <1>6, <2>3, <2>4 DEF Folding, storeVars, Supersedes, Token
    <3>2. Keeps(p)' BY <1>1, <1>2, <1>3, <2>3 DEF Held, Keeps, storeVars
    <3>3. Snapped(p)' /\ Verifying(p)' BY <2>3 DEF Snapped, Verifying
    <3>4. Answers(p)'
      BY <1>1, <1>2, <1>3, <2>3 DEF Held, Answers, Saving, storeVars, SaysWhose, Logins, claims
    <3>5. Alone(p)' BY <1>1, <1>2, <1>3, <2>3, DeclaredSame DEF Held, Alone, Saving, storeVars
    <3> QED BY <3>1, <3>2, <3>3, <3>4, <3>5 DEF Held
  <2>7. Unsaved(p)' => Unsaved(p) BY <1>2, <2>3 DEF Unsaved
  <2> QED BY <1>3, <1>4, <1>5, <2>2, <2>3, <2>5, <2>6, <2>7, QuietStep
<1>7. CASE ~(Owner(p) # None /\ Supersedes(Lane(p), prof[Owner(p)].auth)) /\ cmd[p].kind = "return"
  <2>1. End(p) BY <1>7 DEF Capture, Captured
  <2> QED BY <1>3, <1>7, <2>1, StepEnd
<1>8. CASE ~(Owner(p) # None /\ Supersedes(Lane(p), prof[Owner(p)].auth)) /\ cmd[p].kind # "return"
  <2>1. cmd' = [cmd EXCEPT ![p].pc = IF cmd[p].kind = "login" THEN "auth" ELSE "install",
                           ![p].snap = Lane(p), ![p].owner = None]
    BY <1>8 DEF Capture, Captured
  <2>2. Others(p) /\ cmd'[p] = [cmd[p] EXCEPT !.pc = IF cmd[p].kind = "login" THEN "auth" ELSE "install",
                                              !.snap = Lane(p), !.owner = None]
    BY <1>1, <2>1 DEF CommandsTyped, Others
  <2>3. /\ cmd'[p].pc = IF cmd[p].kind = "login" THEN "auth" ELSE "install"
        /\ cmd'[p].snap = Lane(p)
        /\ cmd'[p].kind = cmd[p].kind /\ cmd'[p].target = cmd[p].target
        /\ cmd'[p].source = cmd[p].source /\ cmd'[p].approved = cmd[p].approved
        /\ cmd'[p].shown = cmd[p].shown
    BY <1>2, <2>2 DEF CommandShape
  <2>4. CommandShape(cmd'[p]) BY <1>2, <1>8, <2>2, <2>3 DEF CommandShape, Phases, Locked
  <2>5. Held(p)'
    <3>1. Folding(p)' /\ Verifying(p)' BY <1>2, <2>3 DEF Folding, Verifying
    <3>2. Keeps(p)' BY <1>1, <1>2, <1>3, <2>3 DEF Held, Keeps, storeVars
    <3>3. Snapped(p)'
      <4>1. SUFFICES ASSUME AllDeclared', Lane(p) # None, NEW b \in Aliases,
                            prof[b].auth # None, prof[b].auth.seat = Lane(p).seat,
                            cmd[p].kind = "login" => b # cmd[p].target
                     PROVE prof[b].auth.gen >= Lane(p).gen
        BY <1>3, <2>3 DEF Snapped, storeVars
      <4>2. AllDeclared BY <1>3, <4>1, DeclaredSame
      <4> QED BY <1>2, <1>8, <4>1, <4>2, OwnerFound
    <3>4. Answers(p)'
      BY <1>1, <1>2, <1>3, <2>3 DEF Held, Answers, Saving, storeVars, SaysWhose, Logins, claims
    <3>5. Alone(p)' BY <1>1, <1>2, <1>3, <2>3, DeclaredSame DEF Held, Alone, Saving, storeVars
    <3> QED BY <3>1, <3>2, <3>3, <3>4, <3>5 DEF Held
  <2>6. Unsaved(p)' => Unsaved(p) BY <1>2, <2>3 DEF Unsaved
  <2> QED BY <1>3, <1>4, <1>5, <2>2, <2>3, <2>4, <2>5, <2>6, QuietStep
<1> QED BY <1>6, <1>7, <1>8

---------------------------------------------------------------------------
(* save and login take the lock. *)

LEMMA StepSaveLocked == ASSUME IInv, NEW p \in Commands, SaveLocked(p) PROVE IInv'
<1>1. StoreTyped /\ CommandsTyped /\ OneAlias BY DEF IInv
<1>2. /\ cmd[p].pc = "asked" /\ CommandShape(cmd[p]) /\ cmd[p].target \in Aliases
      /\ cmd[p].kind = "save" /\ cmd[p].snap = None
  BY <1>1, CommandIs DEF SaveLocked, At, CommandShape
<1>3. UNCHANGED <<world, storeVars, exec, newest>> /\ excused' = excused /\ LockFree
  BY DEF SaveLocked, Unchanging
<1>4. CASE Verified(p)
  <2>1. cmd' = [cmd EXCEPT ![p].pc = "auth"] BY <1>4 DEF SaveLocked, Goto
  <2>2. Others(p) /\ cmd'[p] = [cmd[p] EXCEPT !.pc = "auth"]
    BY <1>1, <2>1 DEF CommandsTyped, Others
  <2>3. /\ cmd'[p].pc = "auth" /\ cmd'[p].kind = "save" /\ cmd'[p].target = cmd[p].target
        /\ cmd'[p].source = cmd[p].source /\ cmd'[p].snap = None
        /\ cmd'[p].confirmed = cmd[p].confirmed /\ cmd'[p].shown = cmd[p].shown
    BY <1>2, <2>2 DEF CommandShape
  <2>4. CommandShape(cmd'[p]) BY <1>2, <2>2, <2>3 DEF CommandShape, Phases, Locked
  <2>5. Held(p)'
    <3>1. Folding(p)' /\ Keeps(p)' /\ Snapped(p)' BY <2>3 DEF Folding, Keeps, Snapped
    <3>2. prof[cmd[p].target].auth # None => cmd[p].confirmed /\ cmd[p].shown = <<prof[cmd[p].target].auth>>
      BY <1>1, <1>2, <1>4, ProfileIs DEF Verified
    <3>3. Answers(p)' BY <1>3, <2>3, <3>2 DEF Answers, storeVars
    <3>4. live = cmd[p].source /\ ~Elsewhere(cmd[p].target, live) BY <1>4 DEF Verified
    <3>5. Verifying(p)' BY <1>3, <2>3, <3>4 DEF Verifying, storeVars
    <3>6. Alone(p)'
      <4>1. SUFFICES ASSUME AllDeclared, NEW b \in Aliases \ {cmd[p].target}, prof[b].auth # None,
                            prof[b].auth.seat = live.seat
                     PROVE FALSE
        BY <1>3, <2>3, <3>4, DeclaredSame DEF Alone, storeVars
      <4>2. ExistingSeat(live) = {a \in Aliases : prof[a].auth # None /\ prof[a].auth.seat = live.seat}
        BY <1>1, <4>1, SeatExists DEF StoreTyped
      <4>3. cmd[p].target \in ExistingSeat(live) BY <3>4, <4>1, <4>2 DEF Elsewhere
      <4> QED BY <1>1, <4>1, <4>2, <4>3 DEF OneAlias
    <3> QED BY <3>1, <3>3, <3>5, <3>6 DEF Held
  <2>6. ~Unsaved(p)' BY <2>3 DEF Unsaved
  <2> QED BY <1>2, <1>3, <2>2, <2>3, <2>4, <2>5, <2>6, QuietStep
<1>5. CASE ~Verified(p)
  <2>1. End(p) BY <1>5 DEF SaveLocked
  <2> QED BY <1>2, <1>3, <2>1, StepEnd
<1> QED BY <1>4, <1>5

LEMMA StepRefused == ASSUME IInv, NEW p \in Commands, LoginRefused(p),
  UNCHANGED <<world, storeVars, exec, newest>>
  PROVE IInv'
BY StepEnd DEF LoginRefused

\* A login takes the lock and goes on to write the alias it resolved.
LEMMA StepGranted == ASSUME IInv, NEW p \in Commands, cmd[p].pc \in {"home", "asked"},
  cmd[p].kind = "login", LockFree, UNCHANGED <<world, storeVars, exec, newest, excused>>,
  NEW r, r = ResolveTargetAlias(cmd[p].target, cmd[p].label, cmd[p].source),
  r.kind \in {"ready", "ask"}, Others(p), CommandShape(cmd'[p]),
  cmd'[p].pc = "capture", cmd'[p].kind = "login", cmd'[p].target = r.alias,
  cmd'[p].source = cmd[p].source, cmd'[p].snap = cmd[p].snap,
  cmd'[p].approved <=> r.kind = "ask",
  r.kind = "ask" => cmd'[p].shown = <<prof[r.alias].auth>>
  PROVE IInv'
<1>1. StoreTyped /\ CommandsTyped /\ OneAlias BY DEF IInv
<1>2. CommandShape(cmd[p]) /\ cmd[p].target \in Aliases /\ OptFile(cmd[p].source) BY <1>1, CommandIs
<1>3. GoodFile(cmd[p].source) /\ cmd[p].label \in BOOLEAN BY <1>2 DEF CommandShape, OptFile
<1>4. /\ r.alias \in Aliases
      /\ AllDeclared => \A b \in Aliases \ {r.alias} :
           prof[b].auth # None => prof[b].auth.seat # cmd[p].source.seat
      /\ r.kind = "ready" /\ prof[r.alias].auth # None /\ SaysWhose(prof[r.alias].auth)
             => prof[r.alias].auth.seat = cmd[p].source.seat
  BY <1>1, <1>2, <1>3, Resolved
<1>5. Held(p)'
  <2>1. Folding(p)' /\ Keeps(p)' /\ Snapped(p)' /\ Verifying(p)'
    BY DEF Folding, Keeps, Snapped, Verifying
  <2>2. Alone(p)' BY <1>4, DeclaredSame DEF Alone, storeVars
  <2>3. Answers(p)' BY <1>4 DEF Answers, storeVars, SaysWhose, Logins, claims
  <2> QED BY <2>1, <2>2, <2>3 DEF Held
<1>6. Unsaved(p) BY DEF Unsaved
<1> QED BY <1>5, <1>6, QuietStep

LEMMA StepLoginResolve == ASSUME IInv, NEW p \in Commands, LoginResolve(p) PROVE IInv'
<1>1. StoreTyped /\ CommandsTyped /\ OneAlias BY DEF IInv
<1>2. /\ cmd[p].pc = "home" /\ CommandShape(cmd[p]) /\ cmd[p].target \in Aliases
      /\ cmd[p].kind = "login" /\ ~cmd[p].approved /\ OptFile(cmd[p].source)
  BY <1>1, CommandIs DEF LoginResolve, At, CommandShape
<1>3. UNCHANGED <<world, storeVars, exec, newest>> /\ LockFree BY DEF LoginResolve, Unchanging
<1>4. PICK r : r = ResolveTargetAlias(cmd[p].target, cmd[p].label, cmd[p].source) OBVIOUS
<1>5. r.kind \in {"ready", "ask", "refuse"} /\ (r.kind # "refuse" => r.alias \in Aliases)
  <2>1. GoodFile(cmd[p].source) /\ cmd[p].label \in BOOLEAN BY <1>2 DEF CommandShape, OptFile
  <2> QED BY <1>1, <1>2, <1>4, <2>1, Resolved
<1>6. CASE r.kind = "ready"
  <2>1. cmd' = [cmd EXCEPT ![p].pc = "capture", ![p].target = r.alias] /\ UNCHANGED excused
    BY <1>4, <1>6, Zenon DEF LoginResolve
  <2>2. Others(p) /\ cmd'[p] = [cmd[p] EXCEPT !.pc = "capture", !.target = r.alias]
    BY <1>1, <2>1 DEF CommandsTyped, Others
  <2>3. /\ cmd'[p].pc = "capture" /\ cmd'[p].kind = "login" /\ cmd'[p].target = r.alias
        /\ cmd'[p].source = cmd[p].source /\ cmd'[p].snap = cmd[p].snap /\ ~cmd'[p].approved
    BY <1>2, <2>2 DEF CommandShape
  <2>4. CommandShape(cmd'[p]) BY <1>2, <1>5, <1>6, <2>2, <2>3 DEF CommandShape, Phases, Locked
  <2> QED BY <1>2, <1>3, <1>4, <1>6, <2>1, <2>2, <2>3, <2>4, StepGranted
<1>7. CASE r.kind = "ask"
  <2>1. /\ cmd' = [cmd EXCEPT ![p].pc = "asked", ![p].owner = r.alias,
                              ![p].shown = <<prof[r.alias].auth, Stored(r.alias)>>]
        /\ UNCHANGED excused
    BY <1>4, <1>7, Zenon DEF LoginResolve
  <2>2. Others(p) /\ cmd'[p] = [cmd[p] EXCEPT !.pc = "asked", !.owner = r.alias,
                                !.shown = <<prof[r.alias].auth, Stored(r.alias)>>]
    BY <1>1, <2>1 DEF CommandsTyped, Others
  <2>3. /\ cmd'[p].pc = "asked" /\ cmd'[p].kind = "login"
        /\ cmd'[p].source = cmd[p].source /\ cmd'[p].snap = cmd[p].snap
    BY <1>2, <2>2 DEF CommandShape
  <2>4. CommandShape(cmd'[p]) BY <1>2, <1>5, <1>7, <2>2, <2>3 DEF CommandShape, Phases, Locked
  <2>5. Held(p)'
    <3>1. cmd'[p].pc \notin Locked BY <2>3 DEF Locked
    <3> QED BY <3>1, HeldFree
  <2>6. Unsaved(p) BY <1>2 DEF Unsaved
  <2>7. ~(cmd'[p].pc \in Locked) BY <2>3 DEF Locked
  <2> QED BY <1>3, <2>1, <2>2, <2>3, <2>4, <2>5, <2>6, <2>7, QuietStep
<1>8. CASE r.kind = "refuse"
  <2>1. LoginRefused(p) BY <1>4, <1>8, Zenon DEF LoginResolve
  <2> QED BY <1>3, <2>1, StepRefused
<1> QED BY <1>5, <1>6, <1>7, <1>8

LEMMA StepLoginApproved == ASSUME IInv, NEW p \in Commands, LoginApproved(p) PROVE IInv'
<1>1. StoreTyped /\ CommandsTyped /\ OneAlias BY DEF IInv
<1>2. /\ cmd[p].pc = "asked" /\ CommandShape(cmd[p]) /\ cmd[p].target \in Aliases
      /\ cmd[p].kind = "login" /\ OptFile(cmd[p].source)
  BY <1>1, CommandIs DEF LoginApproved, At, CommandShape
<1>3. UNCHANGED <<world, storeVars, exec, newest>> /\ LockFree BY DEF LoginApproved, Unchanging
<1>4. PICK r : r = ResolveTargetAlias(cmd[p].target, cmd[p].label, cmd[p].source) OBVIOUS
<1>5. r.kind \in {"ready", "ask", "refuse"} /\ (r.kind # "refuse" => r.alias \in Aliases)
  <2>1. GoodFile(cmd[p].source) /\ cmd[p].label \in BOOLEAN BY <1>2 DEF CommandShape, OptFile
  <2> QED BY <1>1, <1>2, <1>4, <2>1, Resolved
<1>6. CASE r.kind = "ready" \/ (r.kind = "ask" /\ AnswerApplies(p, r))
  <2>1. /\ cmd' = [cmd EXCEPT ![p].pc = "capture", ![p].target = r.alias,
                     ![p].owner = None, ![p].approved = (r.kind = "ask"),
                     ![p].shown = IF r.kind = "ask" THEN <<@[1]>> ELSE <<>>]
        /\ UNCHANGED excused
    BY <1>4, <1>6, Zenon DEF LoginApproved
  <2>2. PICK sh : sh = IF r.kind = "ask" THEN <<cmd[p].shown[1]>> ELSE <<>> OBVIOUS
  <2>3. PICK ask \in BOOLEAN : ask <=> r.kind = "ask" OBVIOUS
  <2>4. Others(p) BY <1>1, <2>1 DEF CommandsTyped, Others
  <2>5. cmd'[p] = [cmd[p] EXCEPT !.pc = "capture", !.target = r.alias, !.owner = None,
                                 !.approved = (r.kind = "ask"), !.shown = sh]
    BY <1>1, <1>2, <2>1, <2>2 DEF CommandsTyped, CommandShape
  <2>6. /\ cmd'[p].pc = "capture" /\ cmd'[p].kind = "login" /\ cmd'[p].target = r.alias
        /\ cmd'[p].source = cmd[p].source /\ cmd'[p].snap = cmd[p].snap
        /\ cmd'[p].owner = None /\ cmd'[p].shown = sh
    BY <1>2, <2>5 DEF CommandShape
  <2>7. cmd'[p].approved <=> r.kind = "ask" BY <1>2, <2>5 DEF CommandShape
  <2>8. CommandShape(cmd'[p])
    BY <1>2, <1>5, <1>6, <2>5, <2>6 DEF CommandShape, Phases, Locked
  <2>9. r.kind = "ask" => cmd'[p].shown = <<prof[r.alias].auth>>
    BY <1>6, <2>2, <2>6 DEF AnswerApplies
  <2> QED BY <1>2, <1>3, <1>4, <1>6, <2>1, <2>4, <2>6, <2>7, <2>8, <2>9, StepGranted
<1>7. CASE ~(r.kind = "ready" \/ (r.kind = "ask" /\ AnswerApplies(p, r)))
  <2>1. LoginRefused(p) BY <1>4, <1>7, Zenon DEF LoginApproved
  <2> QED BY <1>3, <2>1, StepRefused
<1> QED BY <1>6, <1>7

LEMMA StepLoginDeclined == ASSUME IInv, NEW p \in Commands, LoginDeclined(p) PROVE IInv'
BY StepRefused DEF LoginDeclined, Unchanging

---------------------------------------------------------------------------
(* The steps that change a marker, a directory or the metadata alone. *)

\* A profile whose metadata is replaced, or that gets a directory.
LEMMA ProfileKept == ASSUME StoreTyped, NEW a \in Aliases, NEW d \in BOOLEAN, NEW m,
  world' = world, newest' = newest, live' = live, exec' = exec, marker' = marker,
  prof' = [prof EXCEPT ![a].dir = d, ![a].meta = m],
  d, prof[a].auth = None => m = None
  PROVE StoreTyped' /\ SameAuth
<1>1. ProfileOK(prof[a]) BY DEF StoreTyped
<1>2. prof'[a] = [prof[a] EXCEPT !.dir = d, !.meta = m] /\ DOMAIN prof' = Aliases
      /\ \A b \in Aliases \ {a} : prof'[b] = prof[b]
  BY DEF StoreTyped
<1>3. prof'[a].auth = prof[a].auth /\ prof'[a].dir = d /\ prof'[a].meta = m
      /\ prof'[a] \in [dir : BOOLEAN, auth : {prof'[a].auth}, meta : {prof'[a].meta}]
  BY <1>1, <1>2 DEF ProfileOK
<1>4. SameAuth BY <1>2, <1>3 DEF SameAuth
<1>5. claims' = claims BY DEF claims
<1>6. \A b \in Aliases : ProfileOK(prof[b])'
  <2>1. ProfileOK(prof[a])' BY <1>1, <1>3, <1>5 DEF ProfileOK, OptFile, GoodFile
  <2>2. ASSUME NEW b \in Aliases, b # a PROVE ProfileOK(prof[b])'
    BY <1>2, <1>5, <2>2 DEF StoreTyped, ProfileOK, OptFile, GoodFile
  <2> QED BY <2>1, <2>2
<1>7. StoreTyped' BY <1>2, <1>5, <1>6 DEF StoreTyped, OptFile, GoodFile
<1> QED BY <1>4, <1>7

LEMMA StepMark == ASSUME IInv, NEW p \in Commands, Mark(p) PROVE IInv'
<1>1. StoreTyped /\ CommandsTyped /\ Held(p) BY DEF IInv
<1>2. cmd[p].pc = "mark" /\ cmd[p].target \in Aliases BY <1>1, CommandIs DEF Mark, At
<1>3. UNCHANGED <<world, prof, live, exec, newest>> /\ excused' = excused
      /\ marker' \in Aliases \cup {None}
  BY <1>2 DEF Mark, Unchanging
<1>4. StoreTyped' /\ SameAuth BY <1>1, <1>3, StoreSame
<1>5. Others(p) /\ cmd'[p] = Idle BY <1>1, SetIs DEF Mark, End, Set
<1>6. cmd'[p].pc \notin Locked /\ ~Unsaved(p)' BY <1>5, IdleShape DEF Unsaved, Locked
<1>7. Held(p)' BY <1>6, HeldFree
<1>8. cmd[p].kind = "login" => prof[cmd[p].target].auth = cmd[p].source
  BY <1>1, <1>2 DEF Held, Keeps
<1> QED BY <1>2, <1>3, <1>4, <1>5, <1>6, <1>7, <1>8, IdleShape, CommandStep

LEMMA StepUnmark == ASSUME IInv, NEW p \in Commands, Unmark(p) PROVE IInv'
<1>1. StoreTyped /\ CommandsTyped BY DEF IInv
<1>2. cmd[p].pc = "unmark" /\ cmd[p].kind = "none" BY <1>1, CommandIs DEF Unmark, At, CommandShape
<1>3. UNCHANGED <<world, prof, live, exec, newest>> /\ excused' = excused
      /\ marker' \in Aliases \cup {None}
  BY <1>1 DEF Unmark, Unchanging, StoreTyped
<1>4. StoreTyped' /\ SameAuth BY <1>1, <1>3, StoreSame
<1>5. Others(p) /\ cmd'[p] = Idle BY <1>1, SetIs DEF Unmark, End, Set
<1>6. cmd'[p].pc \notin Locked /\ ~Unsaved(p)' BY <1>5, IdleShape DEF Unsaved, Locked
<1>7. Held(p)' BY <1>6, HeldFree
<1> QED BY <1>2, <1>3, <1>4, <1>5, <1>6, <1>7, IdleShape, CommandStep

\* A workspace record, whether or not the capture goes on, moves no credential.
LEMMA RecordKept == ASSUME StoreTyped, NEW p \in Commands,
  cmd[p].owner \in Aliases, prof[cmd[p].owner].auth # None,
  prof' = prof \/ prof' = Recorded(p), UNCHANGED <<world, live, marker, exec, newest>>
  PROVE StoreTyped' /\ SameAuth
<1> DEFINE a == cmd[p].owner
<1>1. CASE prof' = prof BY <1>1, StoreSame DEF StoreTyped
<1>2. CASE prof' # prof
  <2>1. PICK m : prof' = [prof EXCEPT ![a].meta = m] BY <1>2, Zenon DEF Recorded
  <2>2. prof[a].dir /\ ProfileOK(prof[a]) BY ProfileIs DEF StoreTyped
  <2>3. prof' = [prof EXCEPT ![a].dir = TRUE, ![a].meta = m]
    <3>1. [prof[a] EXCEPT !.meta = m] = [prof[a] EXCEPT !.dir = TRUE, !.meta = m]
      BY <2>2 DEF ProfileOK
    <3> QED BY <2>1, <3>1 DEF StoreTyped
  <2> QED BY <2>3, ProfileKept
<1> QED BY <1>1, <1>2

LEMMA StepFold == ASSUME IInv, NEW p \in Commands, Fold(p) PROVE IInv'
<1> DEFINE a == cmd[p].owner
<1>1. StoreTyped /\ CommandsTyped /\ Held(p) BY DEF IInv
<1>2. /\ cmd[p].pc = "fold" /\ CommandShape(cmd[p]) /\ cmd[p].target \in Aliases
      /\ cmd[p].kind \in {"switch", "seed", "return", "login"}
  BY <1>1, CommandIs DEF Fold, At, CommandShape
<1>3. UNCHANGED <<world, live, marker, exec, newest>> /\ excused' = excused BY DEF Fold, Unchanging
<1>4. a \in Aliases /\ prof[a].auth # None BY <1>1, <1>2 DEF Held, Folding
<1>5. StoreTyped' /\ SameAuth BY <1>1, <1>3, <1>4, RecordKept DEF Fold
<1>6. Others(p) /\ cmd'[p] = [cmd[p] EXCEPT !.pc = "copy"]
  BY <1>1 DEF Fold, Goto, CommandsTyped, Others
<1>7. /\ cmd'[p].pc = "copy" /\ cmd'[p].snap = cmd[p].snap /\ cmd'[p].owner = cmd[p].owner
      /\ cmd'[p].kind = cmd[p].kind /\ cmd'[p].target = cmd[p].target
      /\ cmd'[p].source = cmd[p].source /\ cmd'[p].approved = cmd[p].approved
      /\ cmd'[p].shown = cmd[p].shown
  BY <1>2, <1>6 DEF CommandShape
<1>8. CommandShape(cmd'[p]) BY <1>2, <1>6, <1>7 DEF CommandShape, Phases, Locked
<1>9. claims' = claims BY <1>3 DEF claims
<1>10. Held(p)'
  <2>1. Folding(p)' BY <1>1, <1>2, <1>4, <1>5, <1>7 DEF Held, Folding, SameAuth, Supersedes, Token
  <2>2. Keeps(p)' BY <1>1, <1>2, <1>5, <1>7 DEF Held, Keeps, SameAuth
  <2>3. Snapped(p)' /\ Verifying(p)' BY <1>7 DEF Snapped, Verifying
  <2>4. Answers(p)'
    BY <1>1, <1>2, <1>5, <1>7, <1>9 DEF Held, Answers, Saving, SameAuth, SaysWhose, Logins, Token
  <2>5. Alone(p)' BY <1>1, <1>2, <1>3, <1>5, <1>7, DeclaredSame DEF Held, Alone, Saving, SameAuth
  <2> QED BY <2>1, <2>2, <2>3, <2>4, <2>5 DEF Held
<1>11. Unsaved(p)' => Unsaved(p) BY <1>2, <1>7 DEF Unsaved
<1>12. cmd[p].pc \in Locked BY <1>2 DEF Locked
<1> QED BY <1>2, <1>3, <1>5, <1>6, <1>7, <1>8, <1>10, <1>11, <1>12, CommandStep

\* A capture that fails: the command goes on, and knows nothing of its lane.
LEMMA StepCaptureFails == ASSUME IInv, NEW p \in Commands, CaptureFails(p) PROVE IInv'
<1>1. StoreTyped /\ CommandsTyped /\ Held(p) BY DEF IInv
<1>2. /\ cmd[p].pc \in {"capture", "fold", "copy"} /\ CommandShape(cmd[p]) /\ cmd[p].target \in Aliases
      /\ cmd[p].kind \in {"switch", "seed", "return", "login"}
  BY <1>1, CommandIs DEF CaptureFails, CommandShape
<1>3. UNCHANGED <<world, live, marker, exec, newest>> /\ excused' = excused BY DEF CaptureFails
<1>4. StoreTyped' /\ SameAuth
  <2>1. CASE prof' = prof BY <1>1, <1>3, <2>1, StoreSame DEF StoreTyped
  <2>2. CASE prof' # prof
    <3>1. cmd[p].pc = "fold" /\ prof' = Recorded(p) BY <2>2 DEF CaptureFails, At
    <3>2. cmd[p].owner \in Aliases /\ prof[cmd[p].owner].auth # None
      BY <1>1, <3>1 DEF Held, Folding
    <3> QED BY <1>1, <1>3, <3>1, <3>2, RecordKept
  <2> QED BY <2>1, <2>2
<1>5. claims' = claims BY <1>3 DEF claims
<1>6. CASE cmd[p].kind = "return"
  <2>1. Others(p) /\ cmd'[p] = Idle BY <1>1, <1>6, SetIs DEF CaptureFails, Captured, End, Set
  <2>2. cmd'[p].pc \notin Locked /\ ~Unsaved(p)' BY <2>1, IdleShape DEF Unsaved, Locked
  <2>3. Held(p)' BY <2>2, HeldFree
  <2> QED BY <1>3, <1>4, <1>6, <2>1, <2>2, <2>3, IdleShape, CommandStep
<1>7. CASE cmd[p].kind # "return"
  <2>1. PICK to : to = IF cmd[p].kind = "login" THEN "auth" ELSE "install" OBVIOUS
  <2>2. cmd' = [cmd EXCEPT ![p].pc = to, ![p].snap = None, ![p].owner = None]
    BY <1>7, <2>1 DEF CaptureFails, Captured
  <2>3. Others(p) /\ cmd'[p] = [cmd[p] EXCEPT !.pc = to, !.snap = None, !.owner = None]
    BY <1>1, <2>2 DEF CommandsTyped, Others
  <2>4. /\ cmd'[p].pc = to /\ cmd'[p].snap = None
        /\ cmd'[p].kind = cmd[p].kind /\ cmd'[p].target = cmd[p].target
        /\ cmd'[p].source = cmd[p].source /\ cmd'[p].approved = cmd[p].approved
        /\ cmd'[p].shown = cmd[p].shown
    BY <1>2, <2>3 DEF CommandShape
  <2>5. CommandShape(cmd'[p]) BY <1>2, <1>7, <2>1, <2>3, <2>4 DEF CommandShape, Phases, Locked
  <2>6. Held(p)'
    <3>1. Folding(p)' /\ Snapped(p)' /\ Verifying(p)'
      BY <1>2, <2>1, <2>4 DEF Folding, Snapped, Verifying
    <3>2. Keeps(p)' BY <1>1, <1>2, <1>4, <2>1, <2>4 DEF Held, Keeps, SameAuth
    <3>3. Answers(p)'
      BY <1>1, <1>2, <1>4, <1>5, <2>1, <2>4 DEF Held, Answers, Saving, SameAuth, SaysWhose, Logins, Token
    <3>4. Alone(p)'
      BY <1>1, <1>2, <1>3, <1>4, <2>1, <2>4, DeclaredSame DEF Held, Alone, Saving, SameAuth
    <3> QED BY <3>1, <3>2, <3>3, <3>4 DEF Held
  <2>7. Unsaved(p)' => Unsaved(p) BY <1>2, <2>1, <2>4 DEF Unsaved
  <2>8. cmd[p].pc \in Locked BY <1>2 DEF Locked
  <2> QED BY <1>2, <1>3, <1>4, <2>3, <2>4, <2>5, <2>6, <2>7, <2>8, CommandStep
<1> QED BY <1>6, <1>7

LEMMA StepWriteMeta == ASSUME IInv, NEW p \in Commands, WriteMeta(p) PROVE IInv'
<1> DEFINE a == cmd[p].target
<1>1. StoreTyped /\ CommandsTyped /\ Held(p) BY DEF IInv
<1>2. /\ cmd[p].pc = "meta" /\ CommandShape(cmd[p]) /\ a \in Aliases
      /\ cmd[p].kind \in {"save", "login"} /\ cmd[p].source # None
  BY <1>1, CommandIs DEF WriteMeta, At, CommandShape
<1>3. UNCHANGED <<world, live, marker, exec, newest>> /\ excused' = excused
  BY DEF WriteMeta, Unchanging
<1>4. prof[a].auth = cmd[p].source BY <1>1, <1>2 DEF Held, Keeps
<1>5. StoreTyped' /\ SameAuth
  <2>1. PICK m : prof' = [prof EXCEPT ![a].meta = m] BY DEF WriteMeta
  <2>2. prof[a].dir /\ ProfileOK(prof[a]) BY <1>1, <1>2, <1>4, ProfileIs DEF StoreTyped
  <2>3. prof' = [prof EXCEPT ![a].dir = TRUE, ![a].meta = m]
    <3>1. [prof[a] EXCEPT !.meta = m] = [prof[a] EXCEPT !.dir = TRUE, !.meta = m]
      BY <2>2 DEF ProfileOK
    <3> QED BY <1>1, <1>2, <2>1, <3>1 DEF StoreTyped
  <2> QED BY <1>1, <1>2, <1>3, <1>4, <2>3, ProfileKept
<1>6. PICK to : to = IF cmd[p].kind = "save" THEN "mark" ELSE "install" OBVIOUS
<1>7. Others(p) /\ cmd'[p] = [cmd[p] EXCEPT !.pc = to]
  BY <1>1, <1>6 DEF WriteMeta, Goto, CommandsTyped, Others
<1>8. /\ cmd'[p].pc = to /\ cmd'[p].snap = cmd[p].snap
      /\ cmd'[p].kind = cmd[p].kind /\ cmd'[p].target = cmd[p].target
      /\ cmd'[p].source = cmd[p].source
  BY <1>2, <1>7 DEF CommandShape
<1>9. CommandShape(cmd'[p]) BY <1>2, <1>6, <1>7, <1>8 DEF CommandShape, Phases, Locked
<1>10. Held(p)'
  <2>1. Folding(p)' /\ Answers(p)' /\ Alone(p)' /\ Verifying(p)'
    BY <1>2, <1>6, <1>8 DEF Folding, Answers, Alone, Verifying, Saving
  <2>2. Keeps(p)' BY <1>2, <1>4, <1>5, <1>6, <1>8 DEF Keeps, SameAuth
  <2>3. Snapped(p)' BY <1>1, <1>2, <1>3, <1>5, <1>6, <1>8, DeclaredSame DEF Held, Snapped, SameAuth
  <2> QED BY <2>1, <2>2, <2>3 DEF Held
<1>11. ~Unsaved(p)' BY <1>6, <1>8 DEF Unsaved
<1>12. cmd[p].pc \in Locked BY <1>2 DEF Locked
<1> QED BY <1>2, <1>3, <1>5, <1>7, <1>8, <1>9, <1>10, <1>11, <1>12, CommandStep

LEMMA StepCrash == ASSUME IInv, NEW p \in Commands, Crash(p) PROVE IInv'
<1>1. StoreTyped /\ CommandsTyped BY DEF IInv
<1>2. UNCHANGED <<world, live, marker, exec, newest>> /\ excused \subseteq excused'
      /\ (cmd[p].kind = "login" => cmd[p].source.seat \in excused')
  BY DEF Crash
<1>3. StoreTyped' /\ SameAuth
  <2>1. CASE prof' = prof BY <1>1, <1>2, <2>1, StoreSame DEF StoreTyped
  <2>2. CASE prof' # prof
    <3>1. cmd[p].pc = "auth" /\ prof' = [prof EXCEPT ![cmd[p].target].dir = TRUE]
      BY <2>2, Zenon DEF Crash, At
    <3>2. PICK a \in Aliases : a = cmd[p].target BY <1>1, <3>1, CommandIs
    <3>3. ProfileOK(prof[a]) BY <1>1 DEF StoreTyped
    <3>4. prof' = [prof EXCEPT ![a].dir = TRUE, ![a].meta = prof[a].meta]
      <4>1. [prof[a] EXCEPT !.dir = TRUE] = [prof[a] EXCEPT !.dir = TRUE, !.meta = prof[a].meta]
        BY <3>3 DEF ProfileOK
      <4> QED BY <1>1, <3>1, <3>2, <4>1 DEF StoreTyped
    <3> QED BY <1>1, <1>2, <3>3, <3>4, ProfileKept DEF ProfileOK
  <2> QED BY <2>1, <2>2
<1>4. Others(p) /\ cmd'[p] = Idle BY <1>1, SetIs DEF Crash, End, Set
<1>5. cmd'[p].pc \notin Locked /\ ~Unsaved(p)' BY <1>4, IdleShape DEF Unsaved, Locked
<1>6. Held(p)' BY <1>5, HeldFree
<1> QED BY <1>2, <1>3, <1>4, <1>5, <1>6, IdleShape, CommandStep

---------------------------------------------------------------------------
(* The steps that move a credential, under the lock. *)

LEMMA LockedStep == ASSUME IInv, NEW p \in Commands, Others(p), cmd[p].pc \in Locked, Grown,
  CommandShape(cmd'[p]), cmd'[p].source \in {None, cmd[p].source},
  cmd'[p].snap \in {None, cmd[p].snap}, Held(p)'
  PROVE CommandsTyped' /\ Mutex' /\ \A q \in Commands : Held(q)'
<1>1. StoreTyped /\ CommandsTyped /\ Mutex BY DEF IInv
<1>2. OptFile(cmd'[p].source) /\ OptFile(cmd'[p].snap) BY <1>1, CommandIs DEF OptFile
<1>3. CommandsTyped' BY <1>1, <1>2, OptGrows, CommandsStep
<1>4. Mutex' BY <1>1, MutexStep
<1>5. ASSUME NEW q \in Commands, q # p PROVE Held(q)'
  <2>1. cmd'[q].pc \notin Locked BY <1>1, <1>5 DEF Mutex, Others
  <2> QED BY <2>1, HeldFree
<1> QED BY <1>3, <1>4, <1>5

\* The token on disk is one that is saved, if the copy in the way of a command
\* is what the command had seen.
LEMMA InTheWay == ASSUME IInv, AllDeclared, NEW p \in Commands, cmd[p].pc = "install",
  NEW s \in Seats, s \notin excused, s \notin Overwritten(p), Latest(Lane(p), s), Saved(s)
  PROVE \E b \in Aliases : Latest(prof[b].auth, s)
<1>1. StoreTyped /\ CommandsTyped /\ Held(p) BY DEF IInv
<1>2. Lane(p) = cmd[p].snap /\ cmd[p].snap # None BY Zenon DEF Overwritten, Latest
<1>3. PICK b \in Aliases : prof[b].auth # None /\ prof[b].auth.seat = s BY DEF Saved
<1>4. prof[b].auth.gen >= cmd[p].snap.gen BY <1>1, <1>2, <1>3 DEF Held, Snapped, Latest
<1>5. GoodFile(prof[b].auth) BY <1>1, <1>3, ProfileIs
<1>6. prof[b].auth.gen <= newest[s] /\ prof[b].auth.gen \in Nat /\ newest[s] \in Nat
  BY <1>1, <1>3, <1>5, GoodIs, WorldsAssumption DEF StoreTyped
<1>7. cmd[p].snap.gen = newest[s] BY <1>2 DEF Latest
<1> QED BY <1>3, <1>4, <1>6, <1>7 DEF Latest

LEMMA StepInstall == ASSUME IInv, NEW p \in Commands, Install(p) PROVE IInv'
<1> DEFINE a == cmd[p].target
<1>1. StoreTyped /\ CommandsTyped /\ Held(p) /\ OneAlias /\ Fresh /\ ExecSaved /\ Kept BY DEF IInv
<1>2. /\ cmd[p].pc = "install" /\ CommandShape(cmd[p]) /\ a \in Aliases
      /\ cmd[p].kind \in {"switch", "seed", "login"} /\ (cmd[p].kind = "login" => cmd[p].source # None)
  BY <1>1, CommandIs DEF Install, At, CommandShape
<1>3. /\ world' = world /\ prof' = prof /\ marker' = marker /\ newest' = newest
      /\ excused' = excused \cup Overwritten(p)
  BY DEF Install
<1>4. prof[a].auth # None /\ GoodFile(prof[a].auth)
      /\ (cmd[p].kind = "login" => prof[a].auth = cmd[p].source)
  <2>1. cmd[p].kind = "login" => prof[a].auth = cmd[p].source BY <1>1, <1>2 DEF Held, Keeps
  <2>2. prof[a].auth # None BY <1>1, <1>2, <2>1 DEF Held, Keeps
  <2> QED BY <1>1, <1>2, <2>1, <2>2, ProfileIs
<1>5. Grown BY <1>1, <1>3, GrownSame
<1>6. claims' = claims /\ (AllDeclared' <=> AllDeclared) BY <1>3, DeclaredSame
<1>7. /\ Others(p) /\ CommandShape(cmd'[p]) /\ cmd'[p].pc \in {"child", "mark"}
      /\ cmd'[p].source \in {None, cmd[p].source} /\ cmd'[p].snap \in {None, cmd[p].snap}
      /\ cmd[p].kind = "login" => cmd'[p].kind = "login" /\ cmd'[p].source = cmd[p].source
      /\ Held(p)'
  <2>1. CASE Pinned(p)
    <3>1. PICK c : c = [Idle EXCEPT !.pc = "child", !.kind = "seed", !.target = a] OBVIOUS
    <3>2. Others(p) /\ cmd'[p] = c BY <1>1, <2>1, <3>1, SetIs DEF Install, Set
    <3>3. c.pc = "child" /\ c.source = None /\ c.snap = None /\ CommandShape(c)
      BY <1>2, <3>1 DEF Idle, CommandShape, Phases, Kinds
    <3>4. Held(p)' BY <3>2, <3>3, HeldFree DEF Locked
    <3> QED BY <2>1, <3>2, <3>3, <3>4 DEF Pinned
  <2>2. CASE ~Pinned(p)
    <3>1. Others(p) /\ cmd'[p] = [cmd[p] EXCEPT !.pc = "mark"]
      BY <1>1, <2>2 DEF Install, Goto, CommandsTyped, Others
    <3>2. /\ cmd'[p].pc = "mark" /\ cmd'[p].source = cmd[p].source /\ cmd'[p].snap = cmd[p].snap
          /\ cmd'[p].kind = cmd[p].kind /\ cmd'[p].target = a
      BY <1>2, <3>1 DEF CommandShape
    <3>3. CommandShape(cmd'[p]) BY <1>2, <2>2, <3>1, <3>2 DEF CommandShape, Phases, Locked, Pinned
    <3>4. Held(p)' BY <1>2, <1>3, <1>4, <3>2
      DEF Held, Folding, Keeps, Snapped, Answers, Alone, Verifying, Saving
    <3> QED BY <3>1, <3>2, <3>3, <3>4
  <2> QED BY <2>1, <2>2
<1>8. CommandsTyped' /\ Mutex' /\ \A q \in Commands : Held(q)'
  <2>1. cmd[p].pc \in Locked BY <1>2 DEF Locked
  <2> QED BY <1>5, <1>7, <2>1, LockedStep
<1>9. /\ live' = (IF Pinned(p) THEN live ELSE prof[a].auth)
      /\ DOMAIN exec' = Aliases
      /\ \A b \in Aliases : exec'[b] = (IF Pinned(p) /\ b = a THEN prof[a].auth ELSE exec[b])
  BY <1>1 DEF Install, StoreTyped
<1>10. StoreTyped'
  <2>1. GoodFile(live)' BY <1>1, <1>3, <1>4, <1>6, <1>9 DEF StoreTyped, GoodFile
  <2>2. \A b \in Aliases : OptFile(exec[b])'
    BY <1>1, <1>3, <1>4, <1>6, <1>9 DEF StoreTyped, GoodFile, OptFile
  <2>3. \A b \in Aliases : ProfileOK(prof[b])'
    BY <1>1, <1>3, <1>6 DEF StoreTyped, GoodFile, OptFile, ProfileOK
  <2> QED BY <1>1, <1>3, <1>9, <2>1, <2>2, <2>3 DEF StoreTyped
<1>11. Fresh'
  <2>1. ASSUME NEW r \in Commands, Unique(r)
        PROVE /\ Older(live', cmd[r].source)
              /\ \A b \in Aliases : Older(prof'[b].auth, cmd[r].source) /\ Older(exec'[b], cmd[r].source)
              /\ Older(cmd'[p].snap, cmd[r].source)
              /\ r # p => Older(cmd'[p].source, cmd[r].source)
    <3>1. Older(None, cmd[r].source) BY DEF Older
    <3> QED BY <1>2, <1>3, <1>7, <1>9, <2>1, <3>1 DEF Unique
  <2>2. ~Unsaved(p)' BY <1>7 DEF Unsaved
  <2> QED BY <1>1, <1>3, <1>7, <2>1, <2>2, FreshStep
<1>12. OneAlias' BY <1>1, <1>3, <1>6 DEF OneAlias
<1>13. Saved(prof[a].auth.seat) BY <1>2, <1>4 DEF Saved
<1>14. \A s : Saved(s)' <=> Saved(s) BY <1>3 DEF Saved
<1>15. ExecSaved' BY <1>1, <1>3, <1>6, <1>9, <1>13, <1>14 DEF ExecSaved
<1>16. Kept'
  <2>1. SUFFICES ASSUME AllDeclared', NEW s \in Seats, s \notin excused', Saved(s)' \/ live'.seat = s
                 PROVE OnDisk(s)'
    BY DEF Kept
  <2>2. AllDeclared /\ s \notin excused /\ s \notin Overwritten(p) BY <1>3, <1>6, <2>1
  <2>3. Saved(s) \/ live.seat = s BY <1>9, <1>13, <1>14, <2>1
  <2>4. OnDisk(s) BY <1>1, <2>2, <2>3 DEF Kept
  <2>5. ASSUME NEW b \in Aliases, Latest(prof[b].auth, s) PROVE OnDisk(s)'
    BY <1>3, <2>5 DEF OnDisk, Latest
  <2>6. CASE Latest(Lane(p), s)
    <3>1. Saved(s)
      <4>1. CASE Pinned(p)
        <5>1. exec[a] # None /\ exec[a].seat = s BY <2>6, <4>1 DEF Lane, Latest
        <5> QED BY <1>1, <1>2, <2>2, <5>1 DEF ExecSaved
      <4>2. CASE ~Pinned(p) BY <1>9, <1>13, <1>14, <2>1, <4>2
      <4> QED BY <4>1, <4>2
    <3> QED BY <1>2, <2>2, <2>5, <2>6, <3>1, InTheWay
  <2>7. CASE Latest(live, s) /\ Pinned(p) BY <1>3, <1>9, <2>7 DEF OnDisk, Latest
  <2>8. ASSUME NEW b \in Aliases, Latest(exec[b], s), ~(Pinned(p) /\ b = a) PROVE OnDisk(s)'
    BY <1>3, <1>9, <2>8 DEF OnDisk, Latest
  <2>9. ASSUME NEW q \in Commands, cmd[q].kind = "login", Latest(cmd[q].source, s) PROVE OnDisk(s)'
    <3>1. cmd'[q].kind = "login" /\ cmd'[q].source = cmd[q].source BY <1>7, <2>9 DEF Others
    <3> QED BY <1>3, <2>9, <3>1 DEF OnDisk, Latest
  <2>10. Latest(live, s) /\ ~Pinned(p) => Latest(Lane(p), s) BY DEF Lane
  <2>11. \A b \in Aliases : Latest(exec[b], s) /\ Pinned(p) /\ b = a => Latest(Lane(p), s) BY DEF Lane
  <2> QED BY <2>4, <2>5, <2>6, <2>7, <2>8, <2>9, <2>10, <2>11 DEF OnDisk
<1> QED BY <1>8, <1>10, <1>11, <1>12, <1>15, <1>16 DEF IInv

LEMMA SupersedesGen == ASSUME StoreTyped, NEW f, NEW g, GoodFile(f), GoodFile(g), Supersedes(f, g)
  PROVE f.gen >= g.gen
<1>1. f.gen \in Nat /\ g.gen \in Nat BY GoodIs
<1>2. g # None BY GoodNotNone
<1> QED BY <1>1, <1>2 DEF Supersedes, Token

LEMMA CopyInto == ASSUME IInv, NEW p \in Commands, Copy(p), NEW a, a = cmd[p].owner,
  NEW f, f = cmd[p].snap
  PROVE IInv'
<1>1. StoreTyped /\ CommandsTyped /\ Held(p) /\ OneAlias /\ Fresh /\ ExecSaved /\ Kept BY DEF IInv
<1>2. /\ cmd[p].pc = "copy" /\ CommandShape(cmd[p]) /\ cmd[p].target \in Aliases
      /\ cmd[p].kind \in {"switch", "seed", "return", "login"} /\ OptFile(f)
  BY <1>1, CommandIs DEF Copy, At, CommandShape
<1>3. UNCHANGED <<world, live, marker, exec, newest, excused>> BY DEF Copy, Unchanging
<1>4. /\ a \in Aliases /\ f # None /\ prof[a].auth # None /\ Supersedes(f, prof[a].auth)
      /\ prof[a].auth.ws # None => prof[a].auth.seat = f.seat
      /\ cmd[p].kind = "login" => a # cmd[p].target
  BY <1>1, <1>2 DEF Held, Folding
<1>5. GoodFile(f) /\ GoodFile(prof[a].auth) BY <1>1, <1>2, <1>4, ProfileIs DEF OptFile
<1>6. Grown BY <1>1, <1>3, GrownSame
<1>7. claims' = claims /\ (AllDeclared' <=> AllDeclared) BY <1>3, DeclaredSame
<1>8. AllDeclared => prof[a].auth.seat = f.seat BY <1>4, <1>5, DeclaredNames
<1>9. /\ DOMAIN prof' = Aliases /\ prof'[a].auth = f
      /\ \A b \in Aliases \ {a} : prof'[b] = prof[b]
      /\ ProfileOK(prof[a])'
  <2>1. prof' = [prof EXCEPT ![a].auth = f] BY DEF Copy
  <2>2. ProfileOK(prof[a]) BY <1>1, <1>4 DEF StoreTyped
  <2>3. prof'[a] = [prof[a] EXCEPT !.auth = f] /\ DOMAIN prof' = Aliases
        /\ \A b \in Aliases \ {a} : prof'[b] = prof[b]
    BY <1>1, <1>4, <2>1 DEF StoreTyped
  <2>4. /\ prof'[a].auth = f /\ prof'[a].dir = prof[a].dir /\ prof'[a].meta = prof[a].meta
        /\ prof'[a] \in [dir : BOOLEAN, auth : {prof'[a].auth}, meta : {prof'[a].meta}]
    BY <2>2, <2>3 DEF ProfileOK
  <2>5. prof[a].dir BY <1>1, <1>4, ProfileIs
  <2>6. ProfileOK(prof[a])' BY <1>3, <1>4, <1>5, <1>7, <2>4, <2>5 DEF ProfileOK, OptFile, GoodFile
  <2> QED BY <2>3, <2>4, <2>6
<1>10. ASSUME AllDeclared, NEW b \in Aliases, prof'[b].auth # None
       PROVE prof[b].auth # None /\ prof'[b].auth.seat = prof[b].auth.seat
  BY <1>4, <1>8, <1>9, <1>10
<1>11. /\ Others(p) /\ CommandShape(cmd'[p]) /\ cmd'[p].pc \in {"idle", "auth", "install"}
       /\ cmd'[p].source \in {None, cmd[p].source} /\ cmd'[p].snap \in {None, f}
       /\ cmd[p].kind = "login" => /\ cmd'[p].kind = "login" /\ cmd'[p].source = cmd[p].source
       /\ cmd'[p].pc = "auth" => cmd[p].kind = "login"
       /\ Held(p)'
  <2>1. CASE cmd[p].kind = "return"
    <3>1. Others(p) /\ cmd'[p] = Idle BY <1>1, <2>1, SetIs DEF Copy, Captured, End, Set
    <3>2. Held(p)' BY <3>1, IdleShape, HeldFree DEF Locked
    <3> QED BY <2>1, <3>1, <3>2, IdleShape
  <2>2. CASE cmd[p].kind # "return"
    <3>1. PICK to : to = IF cmd[p].kind = "login" THEN "auth" ELSE "install" OBVIOUS
    <3>2. cmd' = [cmd EXCEPT ![p].pc = to, ![p].snap = f, ![p].owner = None]
      BY <2>2, <3>1 DEF Copy, Captured
    <3>3. Others(p) /\ cmd'[p] = [cmd[p] EXCEPT !.pc = to, !.snap = f, !.owner = None]
      BY <1>1, <3>2 DEF CommandsTyped, Others
    <3>4. /\ cmd'[p].pc = to /\ cmd'[p].source = cmd[p].source /\ cmd'[p].snap = f
          /\ cmd'[p].kind = cmd[p].kind /\ cmd'[p].target = cmd[p].target
          /\ cmd'[p].approved = cmd[p].approved /\ cmd'[p].shown = cmd[p].shown
      BY <1>2, <3>3 DEF CommandShape
    <3>5. CommandShape(cmd'[p])
      BY <1>2, <2>2, <3>1, <3>3, <3>4 DEF CommandShape, Phases, Locked
    <3>6. Folding(p)' /\ Verifying(p)' BY <1>2, <3>1, <3>4 DEF Folding, Verifying
    <3>7. Keeps(p)'
      <4>1. cmd[p].kind \in {"switch", "seed"} => prof'[cmd[p].target].auth # None
        BY <1>1, <1>2, <1>4, <1>9 DEF Held, Keeps
      <4> QED BY <1>2, <3>1, <3>4, <4>1 DEF Keeps
    <3>8. Snapped(p)'
      <4>1. SUFFICES ASSUME AllDeclared, NEW b \in Aliases, prof'[b].auth # None, prof'[b].auth.seat = f.seat
                     PROVE prof'[b].auth.gen >= f.gen
        BY <1>3, <1>7, <3>4 DEF Snapped
      <4>2. prof[b].auth # None /\ prof[b].auth.seat = f.seat BY <1>10, <4>1
      <4>3. b = a BY <1>1, <1>4, <1>8, <4>1, <4>2 DEF OneAlias
      <4> QED BY <1>5, <1>9, <4>3, GoodIs
    <3>9. Answers(p)' /\ Alone(p)'
      <4>1. CASE cmd[p].kind = "login"
        <5>1. prof'[cmd[p].target] = prof[cmd[p].target] BY <1>2, <1>4, <1>9, <4>1
        <5>2. Answers(p)'
          BY <1>1, <1>2, <1>7, <3>4, <4>1, <5>1 DEF Held, Answers, Saving, SaysWhose, Logins, Token
        <5>3. AllDeclared => \A b \in Aliases \ {cmd[p].target} :
                 prof'[b].auth # None => prof'[b].auth.seat # cmd[p].source.seat
          BY <1>1, <1>2, <1>10, <4>1 DEF Held, Alone, Saving
        <5>4. Alone(p)' BY <1>7, <3>4, <5>3 DEF Alone
        <5> QED BY <5>2, <5>4
      <4>2. CASE cmd[p].kind # "login" BY <3>1, <3>4, <4>2 DEF Answers, Alone, Saving
      <4> QED BY <4>1, <4>2
    <3>10. Held(p)' BY <3>6, <3>7, <3>8, <3>9 DEF Held
    <3> QED BY <2>2, <3>1, <3>3, <3>4, <3>5, <3>10
  <2> QED BY <2>1, <2>2
<1>12. CommandsTyped' /\ Mutex' /\ \A q \in Commands : Held(q)'
  <2>1. cmd[p].pc \in Locked BY <1>2 DEF Locked
  <2> QED BY <1>6, <1>11, <2>1, LockedStep
<1>13. StoreTyped'
  <2>1. \A b \in Aliases : ProfileOK(prof[b])'
    BY <1>1, <1>3, <1>7, <1>9 DEF StoreTyped, GoodFile, OptFile, ProfileOK
  <2>2. GoodFile(live)' /\ \A b \in Aliases : OptFile(exec[b])'
    BY <1>1, <1>3, <1>7 DEF StoreTyped, GoodFile, OptFile
  <2> QED BY <1>1, <1>3, <1>9, <2>1, <2>2 DEF StoreTyped
<1>14. Fresh'
  <2>1. ASSUME NEW r \in Commands, Unique(r)
        PROVE /\ Older(live', cmd[r].source)
              /\ \A b \in Aliases : Older(prof'[b].auth, cmd[r].source) /\ Older(exec'[b], cmd[r].source)
              /\ Older(cmd'[p].snap, cmd[r].source)
              /\ r # p => Older(cmd'[p].source, cmd[r].source)
    <3>1. Older(None, cmd[r].source) BY DEF Older
    <3>2. Older(f, cmd[r].source) BY <2>1 DEF Unique
    <3>3. \A b \in Aliases : Older(prof'[b].auth, cmd[r].source) BY <1>9, <2>1, <3>2 DEF Unique
    <3> QED BY <1>3, <1>11, <2>1, <3>1, <3>2, <3>3 DEF Unique
  <2>2. Unsaved(p)' => Unsaved(p) /\ cmd'[p].source = cmd[p].source BY <1>2, <1>11 DEF Unsaved
  <2> QED BY <1>1, <1>3, <1>11, <2>1, <2>2, FreshStep
<1>15. OneAlias' BY <1>1, <1>7, <1>10 DEF OneAlias
<1>16. ASSUME AllDeclared, NEW s PROVE Saved(s)' <=> Saved(s)
  <2>1. \A b \in Aliases : prof[b].auth # None => prof'[b].auth # None BY <1>4, <1>9
  <2> QED BY <1>10, <1>16, <2>1 DEF Saved
<1>17. ExecSaved' BY <1>1, <1>3, <1>7, <1>16 DEF ExecSaved
<1>18. Kept'
  <2>1. SUFFICES ASSUME AllDeclared', NEW s \in Seats, s \notin excused', Saved(s)' \/ live'.seat = s
                 PROVE OnDisk(s)'
    BY DEF Kept
  <2>2. AllDeclared /\ s \notin excused /\ (Saved(s) \/ live.seat = s) BY <1>3, <1>7, <1>16, <2>1
  <2>3. OnDisk(s) BY <1>1, <2>2 DEF Kept
  <2>4. CASE Latest(prof[a].auth, s)
    <3>1. f.seat = s /\ f.gen >= newest[s]
      BY <1>1, <1>4, <1>5, <1>8, <2>2, <2>4, SupersedesGen DEF Latest
    <3>2. f.gen <= newest[s] /\ f.gen \in Nat /\ newest[s] \in Nat
      BY <1>1, <1>5, <3>1, GoodIs, WorldsAssumption DEF StoreTyped
    <3>4. f.gen = newest'[s] BY <1>3, <3>1, <3>2
    <3>5. Latest(prof[a].auth, s)' BY <1>4, <1>9, <3>1, <3>4 DEF Latest
    <3> QED BY <1>4, <3>5 DEF OnDisk
  <2>5. ASSUME NEW b \in Aliases, b # a, Latest(prof[b].auth, s) PROVE OnDisk(s)'
    BY <1>3, <1>9, <2>5 DEF OnDisk, Latest
  <2>6. ASSUME NEW b \in Aliases, Latest(live, s) \/ Latest(exec[b], s) PROVE OnDisk(s)'
    BY <1>3, <2>6 DEF OnDisk, Latest
  <2>7. ASSUME NEW q \in Commands, cmd[q].kind = "login", Latest(cmd[q].source, s) PROVE OnDisk(s)'
    <3>1. cmd'[q].kind = "login" /\ cmd'[q].source = cmd[q].source BY <1>11, <2>7 DEF Others
    <3> QED BY <1>3, <2>7, <3>1 DEF OnDisk, Latest
  <2> QED BY <1>4, <2>3, <2>4, <2>5, <2>6, <2>7 DEF OnDisk
<1> QED BY <1>12, <1>13, <1>14, <1>15, <1>17, <1>18 DEF IInv

LEMMA StepCopy == ASSUME IInv, NEW p \in Commands, Copy(p) PROVE IInv'
<1>1. PICK a, f : a = cmd[p].owner /\ f = cmd[p].snap OBVIOUS
<1> QED BY <1>1, CopyInto

\* What the operator did not agree to replace is of the seat that is saved.
LEMMA Agreeing == ASSUME IInv, NEW p \in Commands, cmd[p].pc = "auth",
  NEW old, old = prof[cmd[p].target].auth, old # None, SaysWhose(old)
  PROVE cmd[p].approved \/ cmd[p].confirmed \/ old.seat = cmd[p].source.seat
<1>1. CommandsTyped /\ Held(p) BY DEF IInv
<1>2. cmd[p].kind \in {"save", "login"} BY <1>1, CommandIs DEF CommandShape
<1> QED BY <1>1, <1>2 DEF Held, Answers, Saving

LEMMA WriteInto == ASSUME IInv, NEW p \in Commands, WriteAuth(p), NEW a, a = cmd[p].target,
  NEW f, f = cmd[p].source
  PROVE IInv'
<1>1. StoreTyped /\ CommandsTyped /\ Held(p) /\ OneAlias /\ Fresh /\ ExecSaved /\ Kept BY DEF IInv
<1>2. /\ cmd[p].pc = "auth" /\ CommandShape(cmd[p]) /\ a \in Aliases
      /\ cmd[p].kind \in {"save", "login"} /\ OptFile(f) /\ f # None
  BY <1>1, CommandIs DEF WriteAuth, At, CommandShape
<1>3. UNCHANGED <<world, live, marker, exec, newest>> BY DEF WriteAuth, Unchanging
<1>4. PICK old : old = prof[a].auth OBVIOUS
<1>5. excused' = IF (cmd[p].approved \/ cmd[p].confirmed) /\ old # None
                 THEN excused \cup {old.seat} ELSE excused
  BY <1>4 DEF WriteAuth
<1>6. GoodFile(f) /\ OptFile(old) BY <1>1, <1>2, <1>4, ProfileIs DEF OptFile
<1>7. Grown BY <1>1, <1>3, <1>5, GrownSame
<1>8. claims' = claims /\ (AllDeclared' <=> AllDeclared) BY <1>3, DeclaredSame
<1>9. /\ DOMAIN prof' = Aliases /\ prof'[a].auth = f
      /\ \A b \in Aliases \ {a} : prof'[b] = prof[b]
      /\ ProfileOK(prof[a])'
  <2>1. prof' = [prof EXCEPT ![a].dir = TRUE, ![a].auth = f] BY DEF WriteAuth
  <2>2. ProfileOK(prof[a]) BY <1>1, <1>2 DEF StoreTyped
  <2>3. prof'[a] = [prof[a] EXCEPT !.dir = TRUE, !.auth = f] /\ DOMAIN prof' = Aliases
        /\ \A b \in Aliases \ {a} : prof'[b] = prof[b]
    BY <1>1, <1>2, <2>1 DEF StoreTyped
  <2>4. /\ prof'[a].auth = f /\ prof'[a].dir = TRUE /\ prof'[a].meta = prof[a].meta
        /\ prof'[a] \in [dir : BOOLEAN, auth : {prof'[a].auth}, meta : {prof'[a].meta}]
    BY <2>2, <2>3 DEF ProfileOK
  <2>5. ProfileOK(prof[a])' BY <1>2, <1>3, <1>6, <1>8, <2>4 DEF ProfileOK, OptFile, GoodFile
  <2> QED BY <2>3, <2>4, <2>5
<1>10. /\ Others(p) /\ cmd'[p] = [cmd[p] EXCEPT !.pc = "meta"]
  BY <1>1 DEF WriteAuth, Goto, CommandsTyped, Others
<1>11. /\ cmd'[p].pc = "meta" /\ cmd'[p].source = f /\ cmd'[p].snap = cmd[p].snap
       /\ cmd'[p].kind = cmd[p].kind /\ cmd'[p].target = a
       /\ CommandShape(cmd'[p])
  BY <1>2, <1>10 DEF CommandShape, Phases, Locked
\* The seat that is saved is the newest, or given up, or live.
<1>12. \/ f.seat \in excused
       \/ cmd[p].kind = "login" /\ Unique(p)
       \/ cmd[p].kind = "save" /\ live.seat = f.seat
  <2>1. CASE cmd[p].kind = "login" BY <1>1, <1>2, <2>1 DEF Fresh, Unsaved
  <2>2. CASE cmd[p].kind = "save" BY <1>1, <1>2, <2>2 DEF Held, Verifying
  <2> QED BY <1>2, <2>1, <2>2
<1>13. AllDeclared /\ old # None => old.seat \in excused' \/ old.seat = f.seat
  <2>1. SUFFICES ASSUME AllDeclared, old # None PROVE old.seat \in excused' \/ old.seat = f.seat
    OBVIOUS
  <2>2. SaysWhose(old) BY <1>6, <2>1, DeclaredNames DEF SaysWhose, OptFile
  <2> QED BY <1>2, <1>4, <1>5, <2>1, <2>2, Agreeing
<1>14. cmd[p].kind = "save" /\ old # None => old.seat \in excused'
  BY <1>1, <1>2, <1>4, <1>5 DEF Held, Answers
<1>15. Held(p)'
  <2>1. Folding(p)' /\ Answers(p)' /\ Alone(p)' /\ Verifying(p)'
    BY <1>11 DEF Folding, Answers, Alone, Verifying, Saving
  <2>2. Keeps(p)' BY <1>9, <1>11 DEF Keeps
  <2>3. Snapped(p)'
    <3>1. SUFFICES ASSUME AllDeclared, cmd[p].snap # None, NEW b \in Aliases, prof'[b].auth # None,
                          prof'[b].auth.seat = cmd[p].snap.seat
                   PROVE prof'[b].auth.gen >= cmd[p].snap.gen \/ cmd[p].snap.seat \in excused'
      BY <1>8, <1>11 DEF Snapped
    <3>2. CASE b # a BY <1>1, <1>2, <1>5, <1>9, <3>1, <3>2 DEF Held, Snapped
    <3>3. CASE b = a
      <4>1. f.seat = cmd[p].snap.seat BY <1>9, <3>1, <3>3
      <4>2. CASE f.seat \in excused BY <1>5, <4>1, <4>2
      <4>3. CASE Unique(p)
        <5>1. cmd[p].snap.gen < f.gen BY <3>1, <4>1, <4>3 DEF Unique, Older
        <5>2. cmd[p].snap.gen \in Nat /\ f.gen \in Nat
          BY <1>1, <1>6, <3>1, CommandIs, GoodIs DEF OptFile
        <5> QED BY <1>9, <3>3, <5>1, <5>2
      <4>4. cmd[p].kind # "save" BY <1>2, <3>1 DEF CommandShape
      <4> QED BY <1>12, <4>2, <4>3, <4>4
    <3> QED BY <3>2, <3>3
  <2> QED BY <2>1, <2>2, <2>3 DEF Held
<1>16. CommandsTyped' /\ Mutex' /\ \A q \in Commands : Held(q)'
  <2>1. cmd[p].pc \in Locked BY <1>2 DEF Locked
  <2> QED BY <1>7, <1>10, <1>11, <1>15, <2>1, LockedStep
<1>17. StoreTyped'
  <2>1. \A b \in Aliases : ProfileOK(prof[b])'
    BY <1>1, <1>3, <1>8, <1>9 DEF StoreTyped, GoodFile, OptFile, ProfileOK
  <2>2. GoodFile(live)' /\ \A b \in Aliases : OptFile(exec[b])'
    BY <1>1, <1>3, <1>8 DEF StoreTyped, GoodFile, OptFile
  <2> QED BY <1>1, <1>3, <1>9, <2>1, <2>2 DEF StoreTyped
<1>18. Fresh'
  <2>1. ASSUME NEW r \in Commands, Unique(r), r # p
        PROVE /\ Older(live', cmd[r].source)
              /\ \A b \in Aliases : Older(prof'[b].auth, cmd[r].source) /\ Older(exec'[b], cmd[r].source)
              /\ Older(cmd'[p].snap, cmd[r].source)
              /\ Older(cmd'[p].source, cmd[r].source)
    <3>1. Older(f, cmd[r].source) BY <2>1 DEF Unique
    <3>2. \A b \in Aliases : Older(prof'[b].auth, cmd[r].source) BY <1>9, <2>1, <3>1 DEF Unique
    <3> QED BY <1>3, <1>11, <2>1, <3>1, <3>2 DEF Unique
  <2>2. ~Unsaved(p)' BY <1>11 DEF Unsaved
  <2>3. excused \subseteq excused' BY <1>5
  <2> QED BY <1>1, <1>3, <1>10, <2>1, <2>2, <2>3, FreshStep
<1>19. OneAlias'
  <2>1. AllDeclared => \A b \in Aliases \ {a} : prof[b].auth # None => prof[b].auth.seat # f.seat
    BY <1>1, <1>2 DEF Held, Alone, Saving
  <2> QED BY <1>1, <1>8, <1>9, <2>1 DEF OneAlias
<1>20. Saved(f.seat)' BY <1>2, <1>9 DEF Saved
<1>21. ASSUME AllDeclared, NEW s, s \notin excused', s # f.seat PROVE Saved(s)' <=> Saved(s)
  BY <1>2, <1>4, <1>9, <1>13, <1>21 DEF Saved
<1>22. ExecSaved'
  <2>1. SUFFICES ASSUME AllDeclared, NEW b \in Aliases, exec[b] # None, NEW s, s = exec[b].seat,
                        s \notin excused'
                 PROVE Saved(s)'
    BY <1>3, <1>8 DEF ExecSaved
  <2>2. CASE s = f.seat BY <1>20, <2>2
  <2>3. CASE s # f.seat BY <1>1, <1>5, <1>21, <2>1, <2>3 DEF ExecSaved
  <2> QED BY <2>2, <2>3
<1>23. Kept'
  <2>1. SUFFICES ASSUME AllDeclared', NEW s \in Seats, s \notin excused', Saved(s)' \/ live'.seat = s
                 PROVE OnDisk(s)'
    BY DEF Kept
  <2>2. AllDeclared /\ s \notin excused BY <1>5, <1>8, <2>1
  <2>3. CASE s = f.seat /\ cmd[p].kind = "login"
    <3>1. f.gen = newest'[s] BY <1>2, <1>3, <1>12, <2>2, <2>3 DEF Unique
    <3>2. Latest(prof[a].auth, s)' BY <1>2, <1>9, <2>3, <3>1 DEF Latest
    <3> QED BY <1>2, <3>2 DEF OnDisk
  <2>4. CASE s # f.seat \/ cmd[p].kind = "save"
    <3>1. Saved(s) \/ live.seat = s
      <4>1. CASE s # f.seat BY <1>3, <1>21, <2>1, <2>2, <4>1
      <4>2. CASE s = f.seat /\ cmd[p].kind = "save" BY <1>12, <2>2, <4>2
      <4> QED BY <2>4, <4>1, <4>2
    <3>2. OnDisk(s) BY <1>1, <2>2, <3>1 DEF Kept
    <3>3. ~Latest(old, s) BY <1>13, <1>14, <2>1, <2>2, <2>4 DEF Latest
    <3>4. ASSUME NEW b \in Aliases, b # a, Latest(prof[b].auth, s) PROVE OnDisk(s)'
      BY <1>3, <1>9, <3>4 DEF OnDisk, Latest
    <3>5. ASSUME NEW b \in Aliases, Latest(live, s) \/ Latest(exec[b], s) PROVE OnDisk(s)'
      BY <1>3, <3>5 DEF OnDisk, Latest
    <3>6. ASSUME NEW q \in Commands, cmd[q].kind = "login", Latest(cmd[q].source, s) PROVE OnDisk(s)'
      <4>1. cmd'[q].kind = "login" /\ cmd'[q].source = cmd[q].source BY <1>10, <1>11, <3>6 DEF Others
      <4> QED BY <1>3, <3>6, <4>1 DEF OnDisk, Latest
    <3> QED BY <1>2, <1>4, <3>2, <3>3, <3>4, <3>5, <3>6 DEF OnDisk
  <2> QED BY <1>2, <2>3, <2>4
<1> QED BY <1>16, <1>17, <1>18, <1>19, <1>22, <1>23 DEF IInv

LEMMA StepWriteAuth == ASSUME IInv, NEW p \in Commands, WriteAuth(p) PROVE IInv'
<1>1. PICK a, f : a = cmd[p].target /\ f = cmd[p].source OBVIOUS
<1> QED BY <1>1, WriteInto

---------------------------------------------------------------------------
(* remove, and the tokens the provider issues. *)

LEMMA StepRemove == ASSUME IInv, NEW p \in Commands, NEW a \in Aliases, At(p, "idle"), Remove(p, a)
  PROVE IInv'
<1>1. StoreTyped /\ CommandsTyped /\ OneAlias /\ Fresh /\ ExecSaved /\ Kept BY DEF IInv
<1>2. UNCHANGED <<world, live, marker, exec, newest>> /\ LockFree BY DEF Remove, Unchanging
<1>3. PICK old : old = prof[a].auth OBVIOUS
<1>4. excused' = IF old = None THEN excused ELSE excused \cup {old.seat} BY <1>3 DEF Remove
<1>5. Grown BY <1>1, <1>2, <1>4, GrownSame
<1>6. claims' = claims /\ (AllDeclared' <=> AllDeclared) BY <1>2, DeclaredSame
<1>7. /\ DOMAIN prof' = Aliases /\ prof'[a] = NoDir /\ prof'[a].auth = None
      /\ \A b \in Aliases \ {a} : prof'[b] = prof[b]
  BY <1>1 DEF Remove, StoreTyped, NoDir
<1>8. PICK c : c = [Idle EXCEPT !.pc = "unmark", !.target = a] OBVIOUS
<1>9. Others(p) /\ cmd'[p] = c BY <1>1, <1>8, SetIs DEF Remove, Set
<1>10. c.pc = "unmark" /\ c.source = None /\ c.snap = None /\ CommandShape(c)
  BY <1>8, NamesAssumption DEF Idle, CommandShape, Phases, Kinds
<1>11. cmd[p].kind # "login" BY <1>1, CommandIs DEF At, CommandShape
<1>12. CommandsTyped' BY <1>1, <1>5, <1>9, <1>10, CommandsStep
<1>13. Mutex' BY <1>2, <1>9, MutexStep DEF IInv
<1>14. ASSUME NEW q \in Commands PROVE Held(q)'
  <2>1. cmd'[q].pc \notin Locked BY <1>2, <1>9, <1>10 DEF Others, LockFree, Locked
  <2> QED BY <2>1, HeldFree
<1>15. StoreTyped'
  <2>1. ASSUME NEW b \in Aliases PROVE ProfileOK(prof[b])'
    <3>1. CASE b = a
      <4>1. prof'[b] = NoDir /\ prof'[b].auth = None /\ prof'[b].meta = None
        BY <1>7, <3>1 DEF NoDir
      <4>2. prof'[b] \in [dir : BOOLEAN, auth : {prof'[b].auth}, meta : {prof'[b].meta}]
        BY <4>1 DEF NoDir
      <4> QED BY <4>1, <4>2 DEF ProfileOK, OptFile
    <3>2. CASE b # a BY <1>1, <1>2, <1>6, <1>7, <3>2 DEF StoreTyped, GoodFile, OptFile, ProfileOK
    <3> QED BY <3>1, <3>2
  <2>2. GoodFile(live)' /\ \A b \in Aliases : OptFile(exec[b])'
    BY <1>1, <1>2, <1>6 DEF StoreTyped, GoodFile, OptFile
  <2> QED BY <1>1, <1>2, <1>7, <2>1, <2>2 DEF StoreTyped
<1>16. Fresh'
  <2>1. ASSUME NEW r \in Commands, Unique(r)
        PROVE /\ Older(live', cmd[r].source)
              /\ \A b \in Aliases : Older(prof'[b].auth, cmd[r].source) /\ Older(exec'[b], cmd[r].source)
              /\ Older(cmd'[p].snap, cmd[r].source)
              /\ Older(cmd'[p].source, cmd[r].source)
    <3>1. Older(None, cmd[r].source) BY DEF Older
    <3>2. \A b \in Aliases : Older(prof'[b].auth, cmd[r].source) BY <1>7, <2>1, <3>1 DEF Unique
    <3> QED BY <1>2, <1>9, <1>10, <2>1, <3>1, <3>2 DEF Unique
  <2>2. ~Unsaved(p)' BY <1>9, <1>10 DEF Unsaved
  <2>3. excused \subseteq excused' BY <1>4
  <2> QED BY <1>1, <1>2, <1>9, <2>1, <2>2, <2>3, FreshStep
<1>17. OneAlias' BY <1>1, <1>6, <1>7 DEF OneAlias
<1>18. ASSUME NEW s, s \notin excused' PROVE Saved(s)' <=> Saved(s)
  BY <1>3, <1>4, <1>7, <1>18 DEF Saved
<1>19. ExecSaved'
  <2>1. SUFFICES ASSUME AllDeclared, NEW b \in Aliases, exec[b] # None, NEW s, s = exec[b].seat,
                        s \notin excused'
                 PROVE Saved(s)'
    BY <1>2, <1>6 DEF ExecSaved
  <2> QED BY <1>1, <1>4, <1>18, <2>1 DEF ExecSaved
<1>20. Kept'
  <2>1. SUFFICES ASSUME AllDeclared', NEW s \in Seats, s \notin excused', Saved(s)' \/ live'.seat = s
                 PROVE OnDisk(s)'
    BY DEF Kept
  <2>2. AllDeclared /\ s \notin excused /\ (Saved(s) \/ live.seat = s) BY <1>2, <1>4, <1>6, <1>18, <2>1
  <2>3. OnDisk(s) BY <1>1, <2>2 DEF Kept
  <2>4. ~Latest(old, s) BY <1>4, <2>1 DEF Latest
  <2>5. ASSUME NEW b \in Aliases, b # a, Latest(prof[b].auth, s) PROVE OnDisk(s)'
    BY <1>2, <1>7, <2>5 DEF OnDisk, Latest
  <2>6. ASSUME NEW b \in Aliases, Latest(live, s) \/ Latest(exec[b], s) PROVE OnDisk(s)'
    BY <1>2, <2>6 DEF OnDisk, Latest
  <2>7. ASSUME NEW q \in Commands, cmd[q].kind = "login", Latest(cmd[q].source, s) PROVE OnDisk(s)'
    <3>1. cmd'[q].kind = "login" /\ cmd'[q].source = cmd[q].source BY <1>9, <1>11, <2>7 DEF Others
    <3> QED BY <1>2, <2>7, <3>1 DEF OnDisk, Latest
  <2> QED BY <1>3, <2>3, <2>4, <2>5, <2>6, <2>7 DEF OnDisk
<1> QED BY <1>12, <1>13, <1>14, <1>15, <1>16, <1>17, <1>19, <1>20 DEF IInv

\* The provider issues a new token of a seat and refuses every other one of it.
LEMMA Issues == ASSUME StoreTyped, NEW s \in Seats, newest[s] + 1 \in Generations,
  newest' = [newest EXCEPT ![s] = @ + 1], world' = world, excused \subseteq excused'
  PROVE /\ Grown /\ newest'[s] = newest[s] + 1 /\ newest[s] \in Nat
        /\ \A t \in Seats \ {s} : newest'[t] = newest[t]
        /\ FileIn(Issued(s, newest[s] + 1), claims', newest')
        /\ Issued(s, newest[s] + 1).seat = s /\ Issued(s, newest[s] + 1).gen = newest[s] + 1
<1>1. newest' \in [Seats -> Generations] /\ newest'[s] = newest[s] + 1
      /\ \A t \in Seats \ {s} : newest'[t] = newest[t]
  BY DEF StoreTyped
<1>2. \A t \in Seats : newest[t] \in Nat BY WorldsAssumption DEF StoreTyped
<1>3. ASSUME NEW t \in Seats PROVE newest[t] <= newest'[t]
  <2>1. CASE t = s BY <1>1, <1>2, <2>1
  <2>2. CASE t # s BY <1>1, <1>2, <2>2
  <2> QED BY <2>1, <2>2
<1>4. Grown BY <1>1, <1>3 DEF Grown
<1>5. newest[s] + 1 <= newest'[s] BY <1>1, <1>2
<1>6. claims' = claims BY DEF claims
<1>7. FileIn(Issued(s, newest[s] + 1), claims, newest')
      /\ Issued(s, newest[s] + 1).seat = s /\ Issued(s, newest[s] + 1).gen = newest[s] + 1
  BY <1>5, IssuedGood DEF StoreTyped
<1> QED BY <1>1, <1>2, <1>4, <1>6, <1>7

LEMMA Below == ASSUME StoreTyped, NEW f, OptFile(f), NEW s \in Seats, NEW g, g.seat = s,
  g.gen = newest[s] + 1
  PROVE Older(f, g)
<1>1. SUFFICES ASSUME f # None, f.seat = s PROVE f.gen < g.gen BY DEF Older
<1>2. f.gen \in Nat /\ f.gen <= newest[s] BY <1>1, GoodIs DEF OptFile
<1>3. newest[s] \in Nat BY WorldsAssumption DEF StoreTyped
<1> QED BY <1>2, <1>3

LEMMA StepLoginHome == ASSUME IInv, NEW p \in Commands, NEW a \in Aliases, NEW s \in Seats,
  NEW label \in BOOLEAN, At(p, "idle"), LoginHome(p, a, s, label)
  PROVE IInv'
<1>1. StoreTyped /\ CommandsTyped /\ Mutex /\ OneAlias /\ Fresh /\ ExecSaved /\ Kept BY DEF IInv
<1>2. UNCHANGED <<world, prof, live, marker, exec>> /\ excused' = excused \cup Overlapped(s)
      /\ newest' = [newest EXCEPT ![s] = @ + 1]
  BY DEF LoginHome, storeVars
<1>3. newest[s] + 1 \in Generations BY <1>1, WorldsAssumption DEF LoginHome, StoreTyped
<1>4. PICK new : new = Issued(s, newest[s] + 1) OBVIOUS
<1>5. /\ Grown /\ newest'[s] = newest[s] + 1 /\ newest[s] \in Nat
      /\ \A t \in Seats \ {s} : newest'[t] = newest[t]
      /\ FileIn(new, claims', newest')
      /\ new.seat = s /\ new.gen = newest[s] + 1
  BY <1>1, <1>2, <1>3, <1>4, Issues
<1>6. claims' = claims /\ (AllDeclared' <=> AllDeclared) BY <1>2, DeclaredSame
<1>7. new # None
  <2>1. new \in [seat : Seats, gen : Generations, ws : Workspaces(claims)]
    BY <1>5, <1>6 DEF FileIn
  <2> QED BY <1>1, <2>1, NamesAssumption DEF StoreTyped, Workspaces, claims
<1>8. PICK c : c = [Idle EXCEPT !.pc = "home", !.kind = "login", !.target = a, !.label = label,
                                !.source = new]
  OBVIOUS
<1>9. Others(p) /\ cmd'[p] = c BY <1>1, <1>4, <1>8, SetIs DEF LoginHome, Set
<1>10. c.pc = "home" /\ c.kind = "login" /\ c.source = new /\ c.snap = None
  BY <1>8 DEF Idle
<1>11. CommandShape(c) BY <1>7, <1>8, <1>10 DEF Idle, CommandShape, Phases, Kinds
<1>12. cmd[p].kind = "none" BY <1>1, CommandIs DEF At, CommandShape
<1>13. CommandsTyped' BY <1>1, <1>5, <1>9, <1>10, <1>11, CommandsStep
<1>14. Mutex' BY <1>1, <1>9, <1>10, MutexStep DEF Locked
<1>15. ASSUME NEW q \in Commands PROVE Held(q)'
  <2>1. CASE q = p BY <1>9, <1>10, <2>1, HeldFree DEF Locked
  <2>2. CASE q # p
    <3>1. cmd'[q] = cmd[q] /\ Held(q) /\ SameAuth BY <1>2, <1>9, <2>2 DEF IInv, Others, SameAuth
    <3> QED BY <1>1, <1>2, <3>1, HeldFrame
  <2> QED BY <2>1, <2>2
<1>16. StoreTyped'
  <2>1. GoodFile(live)' BY <1>1, <1>2, <1>5, FileGrows DEF StoreTyped, GoodFile
  <2>2. \A b \in Aliases : OptFile(exec[b])' BY <1>1, <1>2, <1>5, OptGrows DEF StoreTyped, OptFile, GoodFile
  <2>3. ASSUME NEW b \in Aliases PROVE ProfileOK(prof[b])'
    <3>1. ProfileOK(prof[b]) BY <1>1 DEF StoreTyped
    <3>2. OptFile(prof[b].auth)' BY <1>1, <1>2, <1>5, <3>1, OptGrows DEF ProfileOK, OptFile, GoodFile
    <3> QED BY <1>2, <3>1, <3>2 DEF ProfileOK
  <2> QED BY <1>1, <1>2, <1>5, <2>1, <2>2, <2>3 DEF StoreTyped, Grown
<1>17. Fresh'
  <2>1. SUFFICES ASSUME NEW r \in Commands, Unsaved(r)' PROVE (cmd[r].source.seat \in excused \/ Unique(r))'
    BY DEF Fresh
  <2>2. CASE r = p
    <3>1. Older(live, new) BY <1>1, <1>5, Below DEF StoreTyped, OptFile
    <3>2. \A b \in Aliases : Older(prof[b].auth, new) /\ Older(exec[b], new)
      BY <1>1, <1>5, Below, ProfileIs DEF StoreTyped
    <3>3. \A q \in Commands : Older(cmd[q].snap, new) /\ Older(cmd[q].source, new)
      BY <1>1, <1>5, Below, CommandIs
    <3>4. Older(None, new) BY DEF Older
    <3>5. new.gen = newest'[new.seat] BY <1>5
    <3>6. \A q \in Commands : Older(cmd'[q].snap, new) /\ (q # p => Older(cmd'[q].source, new))
      BY <1>9, <1>10, <3>3, <3>4 DEF Others
    <3>7. /\ Older(live', new) /\ \A b \in Aliases : Older(prof'[b].auth, new) /\ Older(exec'[b], new)
      BY <1>2, <3>1, <3>2
    <3> QED BY <1>9, <1>10, <2>2, <3>5, <3>6, <3>7 DEF Unique, Older
  <2>3. CASE r # p
    <3>1. PICK old : old = cmd[r].source OBVIOUS
    <3>2. Unsaved(r) /\ cmd'[r].source = old /\ cmd'[r] = cmd[r]
      BY <1>9, <2>1, <2>3, <3>1 DEF Others, Unsaved
    <3>3. CASE old.seat \in excused BY <1>2, <3>2, <3>3
    <3>4. CASE old.seat = s
      <4>1. Overlapped(s) = {s} BY <3>1, <3>2, <3>4 DEF Overlapped, Unsaved
      <4> QED BY <1>2, <3>2, <3>4, <4>1
    <3>5. CASE old.seat \notin excused /\ old.seat # s
      <4>1. Unique(r) BY <1>1, <3>1, <3>2, <3>5 DEF Fresh
      <4>2. old.seat \in Seats
        BY <1>1, <3>1, <3>2, CommandIs, GoodIs DEF CommandShape, Unsaved, OptFile
      <4>3. old.gen = newest'[old.seat] BY <1>5, <3>1, <3>5, <4>1, <4>2 DEF Unique
      <4>4. Older(None, old) /\ Older(new, old) BY <1>5, <3>5 DEF Older
      <4>5. \A q \in Commands : Older(cmd'[q].snap, old) /\ (q # r => Older(cmd'[q].source, old))
        BY <1>9, <1>10, <3>1, <4>1, <4>4 DEF Others, Unique
      <4>6. /\ Older(live', old) /\ \A b \in Aliases : Older(prof'[b].auth, old) /\ Older(exec'[b], old)
        BY <1>2, <3>1, <4>1 DEF Unique
      <4> QED BY <3>2, <4>3, <4>5, <4>6 DEF Unique, Older
    <3> QED BY <3>3, <3>4, <3>5
  <2> QED BY <2>2, <2>3
<1>18. OneAlias' BY <1>1, <1>2, <1>6 DEF OneAlias
<1>19. \A t : Saved(t)' <=> Saved(t) BY <1>2 DEF Saved
<1>20. ExecSaved' BY <1>1, <1>2, <1>6, <1>19 DEF ExecSaved
<1>21. Kept'
  <2>1. SUFFICES ASSUME AllDeclared', NEW t \in Seats, t \notin excused', Saved(t)' \/ live'.seat = t
                 PROVE OnDisk(t)'
    BY DEF Kept
  <2>2. CASE t = s
    <3>1. Latest(cmd[p].source, t)' BY <1>5, <1>7, <1>9, <1>10, <2>2 DEF Latest
    <3>2. cmd'[p].kind = "login" BY <1>9, <1>10
    <3> QED BY <3>1, <3>2 DEF OnDisk
  <2>3. CASE t # s
    <3>1. AllDeclared /\ t \notin excused /\ (Saved(t) \/ live.seat = t) /\ newest'[t] = newest[t]
      BY <1>2, <1>5, <1>6, <1>19, <2>1, <2>3
    <3>2. OnDisk(t) BY <1>1, <3>1 DEF Kept
    <3>3. ASSUME NEW q \in Commands, cmd[q].kind = "login", Latest(cmd[q].source, t) PROVE OnDisk(t)'
      <4>1. cmd'[q].kind = "login" /\ cmd'[q].source = cmd[q].source BY <1>9, <1>12, <3>3 DEF Others
      <4> QED BY <3>1, <3>3, <4>1 DEF OnDisk, Latest
    <3>4. CASE Latest(live, t) BY <1>2, <3>1, <3>4 DEF OnDisk, Latest
    <3>5. ASSUME NEW b \in Aliases, Latest(prof[b].auth, t) \/ Latest(exec[b], t) PROVE OnDisk(t)'
      BY <1>2, <3>1, <3>5 DEF OnDisk, Latest
    <3> QED BY <3>2, <3>3, <3>4, <3>5 DEF OnDisk
  <2> QED BY <2>2, <2>3
<1> QED BY <1>13, <1>14, <1>15, <1>16, <1>17, <1>18, <1>20, <1>21 DEF IInv

Reissued(s, new) == \A b \in Aliases :
  exec'[b] = exec[b] \/ (exec'[b] = new /\ exec[b] # None /\ exec[b].seat = s)
\* A token that goes to the live home or to a pinned one, whatever the commands do.
LEMMA TokenStep == ASSUME IInv, NEW s \in Seats, newest[s] + 1 \in Generations,
  NEW new, new = Issued(s, newest[s] + 1), newest' = [newest EXCEPT ![s] = @ + 1],
  UNCHANGED <<world, prof, marker, cmd>>, excused \subseteq excused',
  live' \in {live, new}, live' = new => live.seat \in excused' \cup {s},
  live'.seat = live.seat \/ live.seat \in excused',
  DOMAIN exec' = Aliases,
  Reissued(s, new),
  live' = new \/ \E b \in Aliases : exec'[b] = new,
  \A r \in Commands : Unsaved(r) /\ cmd[r].source.seat = s => s \in excused'
  PROVE IInv'
<1>0. \A b \in Aliases :
        exec'[b] = exec[b] \/ (exec'[b] = new /\ exec[b] # None /\ exec[b].seat = s)
  BY DEF Reissued
<1>1. StoreTyped /\ CommandsTyped /\ Mutex /\ OneAlias /\ Fresh /\ ExecSaved /\ Kept BY DEF IInv
<1>2. /\ Grown /\ newest'[s] = newest[s] + 1 /\ newest[s] \in Nat
      /\ \A t \in Seats \ {s} : newest'[t] = newest[t]
      /\ FileIn(new, claims', newest')
      /\ new.seat = s /\ new.gen = newest[s] + 1
  BY <1>1, Issues
<1>3. claims' = claims /\ (AllDeclared' <=> AllDeclared) BY DeclaredSame
<1>4. new # None
  <2>1. new \in [seat : Seats, gen : Generations, ws : Workspaces(claims)]
    BY <1>2, <1>3 DEF FileIn
  <2> QED BY <1>1, <2>1, NamesAssumption DEF StoreTyped, Workspaces, claims
<1>5. CommandsTyped'
  <2>1. ASSUME NEW q \in Commands PROVE CommandOK(cmd[q])'
    <3>1. CommandShape(cmd[q]) /\ OptFile(cmd[q].source) /\ OptFile(cmd[q].snap) BY <1>1, CommandIs
    <3>2. OptFile(cmd[q].source)' /\ OptFile(cmd[q].snap)'
      BY <1>1, <1>2, <3>1, OptGrows DEF OptFile, GoodFile
    <3> QED BY <3>1, <3>2 DEF CommandOK
  <2> QED BY <1>1, <2>1 DEF CommandsTyped
<1>6. Mutex' BY <1>1 DEF Mutex
<1>7. ASSUME NEW q \in Commands PROVE Held(q)'
  <2>1. cmd'[q] = cmd[q] /\ Held(q) /\ SameAuth BY DEF IInv, SameAuth
  <2> QED BY <1>1, <2>1, HeldFrame
<1>8. StoreTyped'
  <2>1. GoodFile(live)' BY <1>1, <1>2, FileGrows DEF StoreTyped, GoodFile
  <2>2. \A b \in Aliases : OptFile(exec[b])' BY <1>0, <1>1, <1>2, OptGrows DEF StoreTyped, OptFile, GoodFile
  <2>3. ASSUME NEW b \in Aliases PROVE ProfileOK(prof[b])'
    <3>1. ProfileOK(prof[b]) BY <1>1 DEF StoreTyped
    <3>2. OptFile(prof[b].auth)' BY <1>1, <1>2, <3>1, OptGrows DEF ProfileOK, OptFile, GoodFile
    <3> QED BY <3>1, <3>2 DEF ProfileOK
  <2> QED BY <1>1, <1>2, <2>1, <2>2, <2>3 DEF StoreTyped, Grown
<1>9. Fresh'
  <2>1. SUFFICES ASSUME NEW r \in Commands, Unsaved(r)' PROVE (cmd[r].source.seat \in excused \/ Unique(r))'
    BY DEF Fresh
  <2>2. PICK old : old = cmd[r].source OBVIOUS
  <2>3. Unsaved(r) /\ cmd'[r].source = old BY <2>1, <2>2 DEF Unsaved
  <2>4. CASE old.seat \in excused BY <2>3, <2>4
  <2>5. CASE old.seat = s BY <2>2, <2>3, <2>5
  <2>6. CASE old.seat \notin excused /\ old.seat # s
    <3>1. Unique(r) BY <1>1, <2>2, <2>3, <2>6 DEF Fresh
    <3>2. old.seat \in Seats
      BY <1>1, <2>2, <2>3, CommandIs, GoodIs DEF CommandShape, Unsaved, OptFile
    <3>3. old.gen = newest'[old.seat] BY <1>2, <2>2, <2>6, <3>1, <3>2 DEF Unique
    <3>4. Older(new, old) BY <1>2, <2>6 DEF Older
    <3>5. \A q \in Commands : Older(cmd'[q].snap, old) /\ (q # r => Older(cmd'[q].source, old))
      BY <2>2, <3>1 DEF Unique
    <3>6. /\ Older(live', old) /\ \A b \in Aliases : Older(prof'[b].auth, old) /\ Older(exec'[b], old)
      BY <1>0, <2>2, <3>1, <3>4 DEF Unique
    <3> QED BY <2>3, <3>3, <3>5, <3>6 DEF Unique, Older
  <2> QED BY <2>4, <2>5, <2>6
<1>10. OneAlias' BY <1>1, <1>3 DEF OneAlias
<1>11. \A t : Saved(t)' <=> Saved(t) BY DEF Saved
<1>12. ExecSaved'
  <2>1. SUFFICES ASSUME AllDeclared, NEW b \in Aliases, exec'[b] # None, NEW t, t = exec'[b].seat
                 PROVE t \in excused' \/ Saved(t)
    BY <1>3, <1>11 DEF ExecSaved
  <2>2. exec[b] # None /\ exec[b].seat = t BY <1>0, <1>2, <2>1
  <2> QED BY <1>1, <2>1, <2>2 DEF ExecSaved
<1>13. Kept'
  <2>1. SUFFICES ASSUME AllDeclared', NEW t \in Seats, t \notin excused', Saved(t)' \/ live'.seat = t
                 PROVE OnDisk(t)'
    BY DEF Kept
  <2>2. CASE t = s
    <3>1. new.gen = newest'[t] BY <1>2, <2>2
    <3>2. CASE live' = new BY <1>2, <1>4, <2>2, <3>1, <3>2 DEF OnDisk, Latest
    <3>3. ASSUME NEW b \in Aliases, exec'[b] = new PROVE OnDisk(t)'
      BY <1>2, <1>4, <2>2, <3>1, <3>3 DEF OnDisk, Latest
    <3> QED BY <3>2, <3>3
  <2>3. CASE t # s
    <3>1. AllDeclared /\ t \notin excused /\ (Saved(t) \/ live.seat = t) /\ newest'[t] = newest[t]
      BY <1>2, <1>3, <1>11, <2>1, <2>3
    <3>2. OnDisk(t) BY <1>1, <3>1 DEF Kept
    <3>3. ASSUME NEW q \in Commands, cmd[q].kind = "login", Latest(cmd[q].source, t) PROVE OnDisk(t)'
      BY <3>1, <3>3 DEF OnDisk, Latest
    <3>4. CASE Latest(live, t)
      <4>1. live.seat = t BY <3>4 DEF Latest
      <4>2. live' = live BY <2>1, <2>3, <4>1
      <4> QED BY <3>1, <3>4, <4>2 DEF OnDisk, Latest
    <3>5. ASSUME NEW b \in Aliases, Latest(prof[b].auth, t) PROVE OnDisk(t)'
      BY <3>1, <3>5 DEF OnDisk, Latest
    <3>6. ASSUME NEW b \in Aliases, Latest(exec[b], t) PROVE OnDisk(t)'
      <4>1. exec'[b] = exec[b] BY <1>0, <2>3, <3>6 DEF Latest
      <4> QED BY <3>1, <3>6, <4>1 DEF OnDisk, Latest
    <3> QED BY <3>2, <3>3, <3>4, <3>5, <3>6 DEF OnDisk
  <2> QED BY <2>2, <2>3
<1> QED BY <1>5, <1>6, <1>7, <1>8, <1>9, <1>10, <1>12, <1>13 DEF IInv

\* A login that is not saved yet holds the only newest token of its seat.
LEMMA OnlyNewest == ASSUME IInv, NEW r \in Commands, Unsaved(r), NEW f, f # None,
  f = live \/ \E b \in Aliases : f = exec[b], f.seat = cmd[r].source.seat, f.gen = newest[f.seat]
  PROVE f.seat \in excused
<1>1. StoreTyped /\ CommandsTyped /\ Fresh BY DEF IInv
<1>2. SUFFICES ASSUME Unique(r) PROVE FALSE BY <1>1 DEF Fresh
<1>3. f.gen < cmd[r].source.gen BY <1>2 DEF Unique, Older
<1>4. cmd[r].source.gen = f.gen BY <1>2 DEF Unique
<1>5. GoodFile(f) BY <1>1 DEF StoreTyped, OptFile
<1> QED BY <1>1, <1>3, <1>4, <1>5, GoodIs

LEMMA StepCodexRotates == ASSUME IInv, CodexRotates PROVE IInv'
<1>1. StoreTyped BY DEF IInv
<1>2. PICK s, new : s = live.seat /\ new = Issued(s, newest[s] + 1) OBVIOUS
<1>3. s \in Seats /\ live # None /\ live.gen = newest[s] BY <1>1, <1>2, GoodIs DEF CodexRotates, Rotates, StoreTyped
<1>4. newest[s] + 1 \in Generations
  BY <1>1, <1>2, <1>3, WorldsAssumption DEF CodexRotates, Rotates, StoreTyped
<1>5. live' = new /\ newest' = [newest EXCEPT ![s] = @ + 1] BY <1>2 DEF CodexRotates, Rotated
<1>6. UNCHANGED <<world, prof, marker, cmd, exec, excused>> BY DEF CodexRotates
<1>7. new.seat = s BY <1>2 DEF Issued
<1>8. \A r \in Commands : Unsaved(r) /\ cmd[r].source.seat = s => s \in excused'
  BY <1>2, <1>3, <1>6, OnlyNewest
<1>9. DOMAIN exec' = Aliases /\ Reissued(s, new) BY <1>1, <1>6 DEF StoreTyped, Reissued
<1> QED BY <1>2, <1>3, <1>4, <1>5, <1>6, <1>7, <1>8, <1>9, TokenStep

LEMMA StepChildRotates == ASSUME IInv, NEW p \in Commands, ChildRotates(p) PROVE IInv'
<1>1. StoreTyped /\ CommandsTyped BY DEF IInv
<1>2. PICK a : a = cmd[p].target OBVIOUS
<1>3. a \in Aliases BY <1>1, <1>2, CommandIs DEF ChildRotates, At
<1>4. PICK f, s, new : f = exec[a] /\ s = f.seat /\ new = Issued(s, newest[s] + 1) OBVIOUS
<1>5. f # None /\ f.gen = newest[s] /\ s \in Seats /\ f.gen + 1 \in Generations
  BY <1>1, <1>2, <1>3, <1>4, GoodIs, WorldsAssumption DEF ChildRotates, Rotates, StoreTyped, OptFile
<1>6. /\ exec' = [exec EXCEPT ![a] = Rotated(@)] /\ newest' = [newest EXCEPT ![exec[a].seat] = @ + 1]
      /\ UNCHANGED <<world, prof, live, marker, cmd, excused>>
  BY <1>2 DEF ChildRotates, storeVars
<1>7. DOMAIN exec' = Aliases /\ exec'[a] = new /\ \A b \in Aliases \ {a} : exec'[b] = exec[b]
  BY <1>1, <1>3, <1>4, <1>6 DEF StoreTyped, Rotated
<1>8. newest' = [newest EXCEPT ![s] = @ + 1] BY <1>4, <1>6
<1>9. \A r \in Commands : Unsaved(r) /\ cmd[r].source.seat = s => s \in excused'
  BY <1>3, <1>4, <1>5, <1>6, OnlyNewest
<1>10. Reissued(s, new) BY <1>4, <1>5, <1>7 DEF Reissued
<1>11. newest[s] + 1 \in Generations BY <1>5
<1>12. new.seat = s BY <1>4 DEF Issued
<1>13. live' = new => live.seat \in excused' \cup {s} BY <1>6, <1>12
<1>14. UNCHANGED <<world, prof, marker, cmd>> BY <1>6
<1>15. excused \subseteq excused' BY <1>6
<1>16. live' \in {live, new} BY <1>6
<1>17. live'.seat = live.seat \/ live.seat \in excused' BY <1>6
<1>18. DOMAIN exec' = Aliases BY <1>7
<1>19. live' = new \/ \E b \in Aliases : exec'[b] = new BY <1>3, <1>7
<1>20. s \in Seats BY <1>5
<1>21. new = Issued(s, newest[s] + 1) BY <1>4
<1> QED BY <1>8, <1>9, <1>10, <1>11, <1>13, <1>14, <1>15, <1>16, <1>17, <1>18, <1>19, <1>20, <1>21,
           TokenStep

LEMMA StepCodexLogin == ASSUME IInv, NEW s \in Seats, CodexLogin(s) PROVE IInv'
<1>1. StoreTyped BY DEF IInv
<1>2. PICK new : new = Issued(s, newest[s] + 1) OBVIOUS
<1>3. newest[s] + 1 \in Generations BY <1>1, WorldsAssumption DEF CodexLogin, StoreTyped
<1>4. /\ live' = new /\ newest' = [newest EXCEPT ![s] = @ + 1]
      /\ UNCHANGED <<world, prof, marker, cmd, exec>>
      /\ excused' = excused \cup {live.seat} \cup Overlapped(s)
  BY <1>2 DEF CodexLogin
<1>5. ASSUME NEW r \in Commands, Unsaved(r), cmd[r].source.seat = s PROVE s \in excused'
  <2>1. Overlapped(s) = {s} BY <1>5 DEF Overlapped, Unsaved
  <2> QED BY <1>4, <2>1
<1>6. DOMAIN exec' = Aliases /\ Reissued(s, new) BY <1>1, <1>4 DEF StoreTyped, Reissued
<1> QED BY <1>2, <1>3, <1>4, <1>5, <1>6, TokenStep

LEMMA StepCodexDeclares == ASSUME IInv, CodexDeclares PROVE IInv'
<1>1. StoreTyped /\ CommandsTyped /\ Mutex /\ OneAlias /\ Fresh /\ ExecSaved /\ Kept BY DEF IInv
<1>2. UNCHANGED <<world, prof, marker, exec, newest, cmd, excused>> BY DEF CodexDeclares
<1>3. PICK g \in Generations : live' = [live EXCEPT !.ws = claims[<<live.seat, g>>].ws]
  BY DEF CodexDeclares
<1>4. /\ live \in [seat : Seats, gen : Generations, ws : Workspaces(claims)]
      /\ live.gen <= newest[live.seat] /\ live.seat \in Seats
  BY <1>1 DEF StoreTyped, GoodFile, FileIn
<1>5. live'.seat = live.seat /\ live'.gen = live.gen /\ live'.ws = claims[<<live.seat, g>>].ws
  BY <1>3, <1>4
<1>6. live' \in [seat : Seats, gen : Generations, ws : Workspaces(claims)]
  <2>1. <<live.seat, g>> \in Seats \X Generations BY <1>4
  <2>2. claims[<<live.seat, g>>].ws \in Workspaces(claims) BY <2>1 DEF Workspaces
  <2> QED BY <1>3, <1>4, <2>2
<1>7. claims' = claims /\ (AllDeclared' <=> AllDeclared) BY <1>2, DeclaredSame
<1>8. live'.ws # None BY DEF CodexDeclares
<1>9. GoodFile(live)' BY <1>2, <1>4, <1>5, <1>6, <1>7, <1>8 DEF GoodFile, FileIn
<1>10. live' # None BY <1>1, <1>6, NamesAssumption DEF StoreTyped, Workspaces, claims
<1>11. StoreTyped'
  <2>1. \A b \in Aliases : OptFile(exec[b])' /\ ProfileOK(prof[b])'
    BY <1>1, <1>2, <1>7 DEF StoreTyped, OptFile, GoodFile, ProfileOK
  <2> QED BY <1>1, <1>2, <1>9, <2>1 DEF StoreTyped
<1>12. CommandsTyped' BY <1>1, <1>2, <1>7 DEF CommandsTyped, CommandOK, CommandShape, OptFile, GoodFile
<1>13. Mutex' BY <1>1, <1>2 DEF Mutex
<1>14. ASSUME NEW q \in Commands PROVE Held(q)'
  <2>1. cmd'[q] = cmd[q] /\ Held(q) /\ SameAuth /\ excused \subseteq excused' BY <1>2 DEF IInv, SameAuth
  <2> QED BY <1>1, <1>2, <1>5, <2>1, HeldFrame
<1>15. Fresh'
  <2>1. ASSUME NEW r \in Commands PROVE (Unsaved(r)' <=> Unsaved(r)) /\ (Unique(r) => Unique(r)')
    <3>1. Older(live, cmd[r].source) => Older(live', cmd[r].source) BY <1>1, <1>5, GoodNotNone DEF Older, StoreTyped
    <3> QED BY <1>2, <3>1 DEF Unsaved, Unique, Older
  <2> QED BY <1>1, <1>2, <2>1 DEF Fresh
<1>16. OneAlias' BY <1>1, <1>2, <1>7 DEF OneAlias
<1>17. \A t : Saved(t)' <=> Saved(t) BY <1>2 DEF Saved
<1>18. ExecSaved' BY <1>1, <1>2, <1>7, <1>17 DEF ExecSaved
<1>19. ASSUME NEW t PROVE OnDisk(t) => OnDisk(t)' BY <1>2, <1>5, <1>10 DEF OnDisk, Latest
<1>20. Kept' BY <1>1, <1>2, <1>5, <1>7, <1>17, <1>19 DEF Kept
<1> QED BY <1>11, <1>12, <1>13, <1>14, <1>15, <1>16, <1>18, <1>20 DEF IInv

---------------------------------------------------------------------------
(* The theorems. *)

LEMMA StepStarting == ASSUME IInv, NEW p \in Commands, Starting(p) PROVE IInv'
<1>1. At(p, "idle") BY DEF Starting, Starts
<1>2. PICK a \in Aliases :
        \/ Switch(p, a) \/ ExecSeed(p, a) \/ SaveBegin(p, a) \/ Remove(p, a)
        \/ \E s \in Seats, label \in BOOLEAN : LoginHome(p, a, s, label)
  BY DEF Starting
<1>3. CASE Switch(p, a) \/ ExecSeed(p, a) BY <1>1, <1>3, StepBegin DEF Switch, ExecSeed
<1>4. CASE SaveBegin(p, a) BY <1>1, <1>4, StepSaveBegin
<1>5. CASE Remove(p, a) BY <1>1, <1>5, StepRemove
<1>6. CASE \E s \in Seats, label \in BOOLEAN : LoginHome(p, a, s, label) BY <1>1, <1>6, StepLoginHome
<1> QED BY <1>2, <1>3, <1>4, <1>5, <1>6

LEMMA StepRunning == ASSUME IInv, NEW p \in Commands, Running(p) PROVE IInv'
<1>1. CASE Unmark(p) \/ ExecReturns(p) \/ ChildRotates(p)
  BY <1>1, StepUnmark, StepExecReturns, StepChildRotates
<1>2. CASE Capture(p) \/ Fold(p) \/ Copy(p) \/ CaptureFails(p) \/ Install(p) \/ Mark(p)
  BY <1>2, StepCapture, StepFold, StepCopy, StepCaptureFails, StepInstall, StepMark
<1>3. CASE SaveLocked(p) \/ WriteAuth(p) \/ WriteMeta(p)
  BY <1>3, StepSaveLocked, StepWriteAuth, StepWriteMeta
<1>4. CASE LoginResolve(p) \/ LoginDeclined(p) \/ LoginApproved(p) \/ Crash(p)
  BY <1>4, StepLoginResolve, StepLoginDeclined, StepLoginApproved, StepCrash
<1> QED BY <1>1, <1>2, <1>3, <1>4 DEF Running

LEMMA StepStutters == ASSUME IInv, UNCHANGED profileVars PROVE IInv'
<1>1. UNCHANGED <<world, prof, live, marker, exec, newest, cmd, excused>>
  BY DEF profileVars, storeVars
<1>2. claims' = claims /\ (AllDeclared' <=> AllDeclared) BY <1>1, DeclaredSame
<1>3. StoreTyped' BY <1>1, StoreSame DEF IInv, StoreTyped
<1>4. CommandsTyped' BY <1>1, <1>2 DEF IInv, CommandsTyped, CommandOK, CommandShape, OptFile, GoodFile
<1>5. Mutex' BY <1>1 DEF IInv, Mutex
<1>6. ASSUME NEW q \in Commands PROVE Held(q)'
  <2>1. CommandsTyped /\ Held(q) /\ cmd'[q] = cmd[q] /\ SameAuth /\ excused \subseteq excused'
    BY <1>1 DEF IInv, SameAuth
  <2> QED BY <1>1, <2>1, HeldFrame
<1>7. Fresh' BY <1>1 DEF IInv, Fresh, Unsaved, Unique, Older
<1>8. OneAlias' BY <1>1, <1>2 DEF IInv, OneAlias
<1>9. ExecSaved' BY <1>1, <1>2 DEF IInv, ExecSaved, Saved
<1>10. Kept' BY <1>1, <1>2 DEF IInv, Kept, Saved, OnDisk, Latest
<1> QED BY <1>3, <1>4, <1>5, <1>6, <1>7, <1>8, <1>9, <1>10 DEF IInv

LEMMA StepHolds == IInv /\ [LocalNext]_profileVars => IInv'
<1> SUFFICES ASSUME IInv, [LocalNext]_profileVars PROVE IInv' OBVIOUS
<1>1. ASSUME NEW p \in Commands, Starting(p) \/ Running(p) PROVE IInv'
  BY <1>1, StepStarting, StepRunning
<1>2. CASE CodexRotates \/ CodexDeclares BY <1>2, StepCodexRotates, StepCodexDeclares
<1>3. ASSUME NEW s \in Seats, CodexLogin(s) PROVE IInv' BY <1>3, StepCodexLogin
<1>4. CASE UNCHANGED profileVars BY <1>4, StepStutters
<1> QED BY <1>1, <1>2, <1>3, <1>4 DEF LocalNext

\* The inductive invariant: what every file and every command is, what a
\* command knows while it holds the store lock, that a login which is not saved
\* yet holds the only newest token of its seat, that a pinned home holds a saved
\* account, and that the newest token of a saved or live account is on disk.
THEOREM LocalInvariant == LocalSpec => []IInv
<1> QED BY InitHolds, StepHolds, PTL DEF LocalSpec

\* The credential in the live home is attributed to the active profile only if
\* it is that profile's own, whoever wrote the two last, and one account has
\* one alias.
LEMMA LocalFollows == IInv => LocalIInv
<1> SUFFICES ASSUME IInv PROVE LocalIInv OBVIOUS
<1>1. StoreTyped /\ OneAlias BY DEF IInv
<1>2. ASSUME NEW f, OptFile(f) PROVE IsFile(f)
  <2>1. CASE f = None BY <2>1 DEF IsFile
  <2>2. CASE f # None
    <3>1. GoodFile(f) BY <1>2, <2>2 DEF OptFile
    <3>2. f.gen \in 1..newest[f.seat] BY <1>1, <3>1, GoodIs, WorldsAssumption DEF StoreTyped
    <3>3. f.ws = None \/ \E g \in Generations : f.ws = claims[<<f.seat, g>>].ws
      BY <3>1 DEF GoodFile, FileIn
    <3> QED BY <3>2, <3>3 DEF IsFile
  <2> QED BY <2>1, <2>2
<1>3. LocalTypeOK
  <2>1. IsFile(live) BY <1>1, <1>2 DEF StoreTyped, OptFile
  <2>2. ASSUME NEW a \in Aliases
        PROVE /\ prof[a].dir \/ prof[a] = NoDir
              /\ IsFile(prof[a].auth) /\ IsFile(exec[a])
    BY <1>1, <1>2 DEF StoreTyped, ProfileOK
  <2> QED BY <1>1, <2>1, <2>2 DEF LocalTypeOK, StoreTyped
<1>4. LiveReadAsOwn
  <2>1. SUFFICES ASSUME marker # None, live # None, prof[marker].auth # None,
                        prof[marker].auth.ws # None, AliasWithHint(live, marker) = marker
                 PROVE prof[marker].auth.seat = live.seat
    BY DEF LiveReadAsOwn
  <2> QED BY <1>1, <2>1, Attributed DEF StoreTyped
<1> QED BY <1>1, <1>3, <1>4 DEF LocalIInv

\* Whatever is switched, saved, logged in, run pinned and removed at the same
\* time, and whoever dies: the files are typed, the live file is read as the
\* active profile's only if it is of its seat, and one account has one alias.
THEOREM LocalHolds == LocalSpec => []LocalIInv
<1> QED BY LocalInvariant, LocalFollows, PTL

\* The newest refresh token of a saved account stays on disk, in a profile, a
\* Codex home or the home of a login: a switch, a login and an exec fold the token
\* they replace back first, and never an older one over a newer.  A seat is
\* excused once a command has replaced its newest token after its fold failed.
THEOREM RotationsKept == LocalSpec => []RotationKept
<1>1. IInv => RotationKept BY DEF IInv, Kept, RotationKept
<1> QED BY <1>1, LocalInvariant, PTL

---------------------------------------------------------------------------
(* What replaces a saved credential. *)

GivesWay(a) ==
  LET old == prof[a].auth new == prof'[a].auth
  IN  old # None /\ new # None /\ SaysWhose(old)
        /\ (new.seat # old.seat \/ new.gen < old.gen)
      => \E p \in Commands :
           /\ At(p, "auth") /\ cmd[p].target = a
           /\ \/ Agreed(p, old)
              \/ cmd[p].kind = "login" /\ new.seat = old.seat /\ old.seat \in excused

LEMMA SameGives == ASSUME StoreTyped, NEW a \in Aliases,
  prof'[a].auth = prof[a].auth \/ prof'[a].auth = None
  PROVE GivesWay(a)
<1>1. SUFFICES ASSUME prof[a].auth # None, prof'[a].auth = prof[a].auth PROVE ~(prof'[a].auth.gen < prof[a].auth.gen)
  BY DEF GivesWay
<1>2. prof[a].auth.gen \in Nat BY <1>1, ProfileIs, GoodIs
<1> QED BY <1>1, <1>2

LEMMA CopyGives == ASSUME IInv, NEW p \in Commands, Copy(p), NEW a \in Aliases PROVE GivesWay(a)
<1>1. StoreTyped /\ CommandsTyped /\ Held(p) BY DEF IInv
<1>2. PICK b, f : b = cmd[p].owner /\ f = cmd[p].snap OBVIOUS
<1>3. cmd[p].pc = "copy" /\ prof' = [prof EXCEPT ![b].auth = f] BY <1>2 DEF Copy, At
<1>4. /\ b \in Aliases /\ f # None /\ prof[b].auth # None /\ Supersedes(f, prof[b].auth)
      /\ prof[b].auth.ws # None => prof[b].auth.seat = f.seat
  BY <1>1, <1>2, <1>3 DEF Held, Folding
<1>5. CASE a = b
  <2>1. ProfileOK(prof[a]) BY <1>1 DEF StoreTyped
  <2>2. prof'[a] = [prof[a] EXCEPT !.auth = f] BY <1>1, <1>3, <1>5 DEF StoreTyped
  <2>3. prof'[a].auth = f BY <2>1, <2>2 DEF ProfileOK
  <2>4. GoodFile(f) /\ GoodFile(prof[a].auth) BY <1>1, <1>2, <1>4, <1>5, CommandIs, ProfileIs DEF OptFile
  <2>5. f.gen >= prof[a].auth.gen BY <1>1, <1>4, <1>5, <2>4, SupersedesGen
  <2>6. f.gen \in Nat /\ prof[a].auth.gen \in Nat BY <2>4, GoodIs
  <2>7. ~(f.gen < prof[a].auth.gen) BY <2>5, <2>6
  <2> QED BY <1>4, <1>5, <2>3, <2>7 DEF GivesWay, SaysWhose
<1>6. CASE a # b
  <2>1. prof'[a] = prof[a] BY <1>1, <1>3, <1>6 DEF StoreTyped
  <2> QED BY <1>1, <2>1, SameGives
<1> QED BY <1>5, <1>6

LEMMA WriteGives == ASSUME IInv, NEW p \in Commands, WriteAuth(p), NEW a \in Aliases PROVE GivesWay(a)
<1>1. StoreTyped /\ CommandsTyped /\ Held(p) /\ Fresh BY DEF IInv
<1>2. PICK b, f : b = cmd[p].target /\ f = cmd[p].source OBVIOUS
<1>3. cmd[p].pc = "auth" /\ prof' = [prof EXCEPT ![b].dir = TRUE, ![b].auth = f]
  BY <1>2 DEF WriteAuth, At
<1>4. b \in Aliases /\ cmd[p].kind \in {"save", "login"} /\ f # None /\ OptFile(f)
  BY <1>1, <1>2, <1>3, CommandIs DEF CommandShape
<1>5. CASE a = b
  <2>1. PICK old : old = prof[a].auth OBVIOUS
  <2>2. prof'[a].auth = f
    <3>1. ProfileOK(prof[a]) BY <1>1 DEF StoreTyped
    <3>2. prof'[a] = [prof[a] EXCEPT !.dir = TRUE, !.auth = f] BY <1>1, <1>3, <1>5 DEF StoreTyped
    <3> QED BY <3>1, <3>2 DEF ProfileOK
  <2>3. SUFFICES ASSUME old # None, SaysWhose(old), f.seat # old.seat \/ f.gen < old.gen
                 PROVE \/ Agreed(p, old)
                       \/ cmd[p].kind = "login" /\ f.seat = old.seat /\ old.seat \in excused
    BY <1>2, <1>3, <1>5, <2>1, <2>2 DEF GivesWay, At
  <2>4. CASE cmd[p].kind = "save"
    BY <1>1, <1>2, <1>3, <1>5, <2>1, <2>3, <2>4 DEF Held, Answers, Agreed
  <2>5. CASE cmd[p].kind = "login" /\ cmd[p].approved
    BY <1>1, <1>2, <1>3, <1>5, <2>1, <2>5 DEF Held, Answers, Saving, Agreed
  <2>6. CASE cmd[p].kind = "login" /\ ~cmd[p].approved
    <3>1. old.seat = f.seat
      BY <1>1, <1>2, <1>3, <1>5, <2>1, <2>3, <2>6 DEF Held, Answers, Saving
    <3>2. f.gen < old.gen BY <2>3, <3>1
    <3>3. ~Unique(p)
      <4>1. SUFFICES ASSUME Unique(p) PROVE FALSE OBVIOUS
      <4>2. old.gen < f.gen BY <1>2, <2>1, <2>3, <3>1, <4>1 DEF Unique, Older
      <4>3. f.gen \in Nat /\ old.gen \in Nat BY <1>1, <1>4, <2>1, <2>3, ProfileIs, GoodIs DEF OptFile
      <4> QED BY <3>2, <4>2, <4>3
    <3>4. Unsaved(p) BY <1>3, <2>6 DEF Unsaved
    <3>5. cmd[p].source.seat \in excused BY <1>1, <3>3, <3>4 DEF Fresh
    <3> QED BY <1>2, <2>6, <3>1, <3>5
  <2> QED BY <1>4, <2>4, <2>5, <2>6
<1>6. CASE a # b
  <2>1. prof'[a] = prof[a] BY <1>1, <1>3, <1>6 DEF StoreTyped
  <2> QED BY <1>1, <2>1, SameGives
<1> QED BY <1>5, <1>6

LEMMA FieldGives == ASSUME StoreTyped, NEW b, NEW a \in Aliases, NEW m,
  prof' = [prof EXCEPT ![b].meta = m] \/ prof' = [prof EXCEPT ![b].dir = m] \/ prof' = prof
  PROVE GivesWay(a)
<1>1. ProfileOK(prof[a]) /\ DOMAIN prof = Aliases BY DEF StoreTyped
<1>2. CASE prof' = [prof EXCEPT ![b].meta = m]
  <2>1. prof'[a] = prof[a] \/ prof'[a] = [prof[a] EXCEPT !.meta = m] BY <1>1, <1>2
  <2>2. prof'[a].auth = prof[a].auth BY <1>1, <2>1 DEF ProfileOK
  <2> QED BY <2>2, SameGives
<1>3. CASE prof' = [prof EXCEPT ![b].dir = m]
  <2>1. prof'[a] = prof[a] \/ prof'[a] = [prof[a] EXCEPT !.dir = m] BY <1>1, <1>3
  <2>2. prof'[a].auth = prof[a].auth BY <1>1, <2>1 DEF ProfileOK
  <2> QED BY <2>2, SameGives
<1>4. CASE prof' = prof BY <1>4, SameGives
<1> QED BY <1>2, <1>3, <1>4

LEMMA RunningGives == ASSUME IInv, NEW p \in Commands, Running(p), NEW a \in Aliases PROVE GivesWay(a)
<1>1. StoreTyped BY DEF IInv
<1>2. CASE Copy(p) BY <1>2, CopyGives
<1>3. CASE WriteAuth(p) BY <1>3, WriteGives
<1>4. CASE Fold(p) \/ CaptureFails(p)
  <2>0. prof' = prof \/ prof' = Recorded(p) BY <1>4 DEF Fold, CaptureFails
  <2>1. PICK m : prof' = prof \/ prof' = [prof EXCEPT ![cmd[p].owner].meta = m]
    BY <2>0, Zenon DEF Recorded
  <2> QED BY <1>1, <2>1, FieldGives
<1>5. CASE WriteMeta(p) BY <1>1, <1>5, FieldGives DEF WriteMeta
<1>6. CASE Crash(p)
  <2>1. prof' = prof \/ prof' = [prof EXCEPT ![cmd[p].target].dir = TRUE] BY <1>6 DEF Crash
  <2> QED BY <1>1, <2>1, FieldGives
<1>7. CASE Unmark(p) \/ ExecReturns(p) \/ ChildRotates(p) \/ Capture(p) \/ Install(p) \/ Mark(p)
           \/ SaveLocked(p) \/ LoginResolve(p) \/ LoginDeclined(p) \/ LoginApproved(p)
  <2>1. prof' = prof BY <1>7
    DEF Unmark, ExecReturns, ChildRotates, Capture, Install, Mark, SaveLocked, LoginResolve,
        LoginDeclined, LoginApproved, storeVars
  <2> QED BY <1>1, <2>1, FieldGives
<1> QED BY <1>2, <1>3, <1>4, <1>5, <1>6, <1>7 DEF Running

LEMMA StartingGives == ASSUME IInv, NEW p \in Commands, Starting(p), NEW a \in Aliases PROVE GivesWay(a)
<1>1. StoreTyped BY DEF IInv
<1>2. PICK b \in Aliases :
        \/ Switch(p, b) \/ ExecSeed(p, b) \/ SaveBegin(p, b) \/ Remove(p, b)
        \/ \E s \in Seats, label \in BOOLEAN : LoginHome(p, b, s, label)
  BY DEF Starting
<1>3. CASE Remove(p, b)
  <2>1. prof'[a] = prof[a] \/ prof'[a] = NoDir BY <1>1, <1>3 DEF Remove, StoreTyped
  <2>2. prof'[a].auth = prof[a].auth \/ prof'[a].auth = None BY <2>1 DEF NoDir
  <2> QED BY <1>1, <2>2, SameGives
<1>4. CASE ~Remove(p, b)
  <2>1. prof' = prof BY <1>2, <1>4 DEF Switch, ExecSeed, Begin, SaveBegin, LoginHome, storeVars
  <2> QED BY <1>1, <2>1, SameGives
<1> QED BY <1>3, <1>4

LEMMA StepGives == IInv /\ [LocalNext]_profileVars => \A a \in Aliases : GivesWay(a)
<1> SUFFICES ASSUME IInv, [LocalNext]_profileVars, NEW a \in Aliases PROVE GivesWay(a) OBVIOUS
<1>1. ASSUME NEW p \in Commands, Starting(p) \/ Running(p) PROVE GivesWay(a)
  BY <1>1, StartingGives, RunningGives
<1>2. CASE prof' = prof BY <1>2, SameGives DEF IInv
<1>3. CASE CodexRotates \/ CodexDeclares \/ \E s \in Seats : CodexLogin(s)
  BY <1>2, <1>3 DEF CodexRotates, CodexDeclares, CodexLogin
<1> QED BY <1>1, <1>2, <1>3 DEF LocalNext, profileVars, storeVars

\* A saved credential that says whose it is gives way to another account's or
\* to an older one only if the operator was shown it and agreed, or to a login of
\* its own seat that overlapped another: never to a capture.
THEOREM ReplacedAgreed == LocalSpec => ReplacedOnlyAgreed
<1>1. IInv /\ [LocalNext]_profileVars =>
        [\A a \in Aliases :
           LET old == prof[a].auth new == prof'[a].auth
           IN  old # None /\ new # None /\ SaysWhose(old)
                 /\ (new.seat # old.seat \/ new.gen < old.gen)
               => \E p \in Commands :
                    /\ At(p, "auth") /\ cmd[p].target = a
                    /\ \/ Agreed(p, old)
                       \/ cmd[p].kind = "login" /\ new.seat = old.seat /\ old.seat \in excused]_profileVars
  BY StepGives, Zenon DEF GivesWay
<1> QED BY <1>1, LocalInvariant, PTL DEF LocalSpec, ReplacedOnlyAgreed
=============================================================================
