-------------------------- MODULE ProfileIdentity --------------------------
(***************************************************************************)
(* Whose credential is it: how the profile store of one machine attributes *)
(* an auth file to a saved profile (src/src/profile.rs, api.rs).           *)
(*                                                                         *)
(* A seat is one login in one workspace.  Its refresh tokens are numbered  *)
(* by generation.  An auth file holds the access token of a seat and a     *)
(* generation, and the workspace the file declares, which an old token     *)
(* does not and which Codex may add.  What a token says of its login is    *)
(* its user id and its subject, either of which may be missing.            *)
(***************************************************************************)
EXTENDS Naturals, FiniteSets, TLC

CONSTANTS
  Aliases,
  Seats,
  Generations,
  None,
  Worlds        \* what the tokens of a behaviour declare (claims: by seat and
                \* generation a record of ws, uid and sub), and its bounds: the
                \* generations issued, deaths, logins and saves, and commands
                \* at one time

ASSUME WorldsAssumption ==
  /\ Generations \subseteq Nat \ {0} /\ 1 \in Generations
  /\ \A w \in Worlds : /\ DOMAIN w.claims = Seats \X Generations
                       /\ w.generations \subseteq Generations
                       /\ w.crashes \in Nat /\ w.logins \in Nat /\ w.busy \in Nat

VARIABLES
  world,    \* the one of this behaviour
  prof,     \* the profile directory of each alias
  live,     \* the auth file of the live Codex home
  marker    \* the active-profile marker

claims == world.claims
storeVars == <<prof, live, marker>>

\* An auth file as the provider's login wrote it.
Issued(s, g) == [seat |-> s, gen |-> g, ws |-> claims[<<s, g>>].ws]
Token(f) == <<f.seat, f.gen>>

\* profile directory: absent, or auth.json and meta.json, either of which an
\* interrupted save may not have written yet.
NoDir == [dir |-> FALSE, auth |-> None, meta |-> None]
Dirs == {a \in Aliases : prof[a].dir}
\* get_profile_from needs the metadata.
Listed(a) == prof[a].dir /\ prof[a].meta # None

\* What a save records of the file it stored.
MetaOf(f) == [ws |-> f.ws, uid |-> claims[Token(f)].uid]

Unknown == [uid |-> None, sub |-> None]
Logins(f) == [uid |-> claims[Token(f)].uid, sub |-> claims[Token(f)].sub]
RecordedLogins(m) == [uid |-> IF m = None THEN None ELSE m.uid, sub |-> None]

\* Two logins are compared by a claim both make, the user id first.
Shared(x, y) ==
  IF x.uid # None /\ y.uid # None THEN <<x.uid, y.uid>>
  ELSE IF x.sub # None /\ y.sub # None THEN <<x.sub, y.sub>> ELSE <<>>
Comparable(x, y) == Shared(x, y) # <<>>
Same(x, y) == Comparable(x, y) /\ Shared(x, y)[1] = Shared(x, y)[2]
Differs(x, y) == Comparable(x, y) /\ Shared(x, y)[1] # Shared(x, y)[2]

\* The token is asked first; the metadata, a copy of it, answers for silence.
WorkspaceOf(a) ==
  LET p == prof[a]
  IN  IF p.auth # None /\ p.auth.ws # None THEN p.auth.ws
      ELSE IF p.meta # None THEN p.meta.ws ELSE None
LoginsOf(a) ==
  LET p == prof[a]
  IN  IF p.auth # None /\ Logins(p.auth) # Unknown THEN Logins(p.auth)
      ELSE RecordedLogins(p.meta)

\* claim_permits is lenient where the stored side is silent, claims_agree is not.
ClaimPermits(candidate, stored) == stored = None \/ candidate = stored
ClaimsAgree(candidate, stored) == candidate = stored
Contradicts(target, stored) == stored # None /\ stored # target

Only(S) == IF Cardinality(S) = 1 THEN CHOOSE a \in S : TRUE ELSE None

---------------------------------------------------------------------------
(* Ownership by the exact access token. *)

Holders(f) == {a \in Dirs : prof[a].auth # None /\ Token(prof[a].auth) = Token(f)}
Declaring(f, H) == {a \in H : f.ws # None /\ WorkspaceOf(a) = f.ws}
Contradicted(f, H) == \E a \in H : Contradicts(f.ws, WorkspaceOf(a))
Permitted(f, H) == {a \in H : ClaimPermits(f.ws, WorkspaceOf(a))}
\* A lone holder is ruled out by a different declaration on both sides only.
Lone(f, H) == {a \in H : f.ws = None \/ WorkspaceOf(a) \in {None, f.ws}}

StrongestExactMatch(f) ==
  LET H == Holders(f)
  IN  CASE Cardinality(H) = 1 -> Only(Lone(f, H))
        [] Cardinality(H) # 1 /\ Declaring(f, H) # {} -> Only(Declaring(f, H))
        [] Contradicted(f, H) /\ Cardinality(H) # 1 /\ Declaring(f, H) = {} -> None
        [] OTHER -> Only(Permitted(f, H))

\* exact_token_seat: nobody, one profile or several, weighed as a set.
ExactTokenSeat(f) ==
  LET H == Holders(f)
  IN  IF Cardinality(H) = 1 THEN Lone(f, H)
      ELSE IF Declaring(f, H) # {} THEN Declaring(f, H)
      ELSE IF f.ws # None /\ \A a \in H : WorkspaceOf(a) \notin {None, f.ws} THEN {}
      ELSE IF Contradicted(f, H) THEN H
      ELSE Permitted(f, H)

---------------------------------------------------------------------------
(* Ownership by claims. *)

\* A profile whose metadata alone rules it out.
MetadataContradicts(a, ws, logins) ==
  LET m == prof[a].meta
  IN  m # None /\ \/ m.ws # None /\ ws # None /\ m.ws # ws
                  \/ m.uid # None /\ Differs(RecordedLogins(m), logins)

\* A rotation needs positive agreement on the workspace and on the login.
Belongs(f, a) ==
  /\ prof[a].auth # None
  /\ ClaimsAgree(f.ws, WorkspaceOf(a))
  /\ Same(Logins(f), Logins(prof[a].auth))

\* Without any workspace, a file may as well be the rotation of a sibling that
\* declares one.
Rival(b, logins) ==
  IF prof[b].auth # None
  THEN WorkspaceOf(b) # None /\ Same(logins, Logins(prof[b].auth))
  ELSE LET r == RecordedLogins(prof[b].meta)
       IN  IF r.uid # None THEN Same(r, logins) ELSE ~MetadataContradicts(b, None, logins)
ClaimlessMatchIsAmbiguous(f, a) ==
  /\ f.ws = None /\ WorkspaceOf(a) = None /\ Logins(f) # Unknown
  /\ \E b \in Dirs \ {a} : Rival(b, Logins(f))

\* A damaged profile its metadata identifies makes the answer undecidable.
Identifies(b, f) ==
  /\ prof[b].auth = None
  /\ ~MetadataContradicts(b, f.ws, Logins(f))
  /\ \/ Same(RecordedLogins(prof[b].meta), Logins(f))
     \/ prof[b].meta # None /\ prof[b].meta.ws # None /\ prof[b].meta.ws = f.ws
AliasForAuthJson(f) ==
  LET sameSeat == {a \in Dirs : prof[a].auth # None /\ Same(Logins(f), Logins(prof[a].auth))}
  IN  IF \E b \in Dirs : Identifies(b, f) THEN None
      ELSE IF Holders(f) # {} THEN StrongestExactMatch(f)
      ELSE IF f.ws # None THEN Only({a \in sameSeat : WorkspaceOf(a) = f.ws})
      ELSE IF \E a \in sameSeat : WorkspaceOf(a) # None THEN None
      ELSE Only(sameSeat)

\* Evidence first, then the alias the caller knows, then the whole store.
AliasWithHint(f, known) ==
  LET hinted == IF known # None /\ Listed(known) THEN known ELSE None
      H == Holders(f)
      strongest == StrongestExactMatch(f)
  IN  IF H # {}
      THEN IF strongest # None THEN strongest
           ELSE IF ~Contradicted(f, H) /\ hinted \in H THEN hinted ELSE None
      ELSE IF hinted # None /\ Belongs(f, hinted)
      THEN IF ClaimlessMatchIsAmbiguous(f, hinted) THEN None ELSE hinted
      ELSE AliasForAuthJson(f)

\* Mutated form: any other credential is taken for the newer one.
SupersedesAny(f, stored) == f # stored

\* captured_auth_supersedes_profile: the issued-at time orders generations.
Supersedes(f, stored) ==
  \/ stored = None
  \/ IF Token(f) = Token(stored) THEN f.ws # None /\ f.ws # stored.ws
     ELSE f.gen >= stored.gen

---------------------------------------------------------------------------
(* Where an arriving account already lives, and what it may be written over. *)

\* The live copy of a profile's own token may declare more than the profile.
LiveContested == \E a \in Holders(live) : Contradicts(live.ws, WorkspaceOf(a))
IdentityOf(a) ==
  LET speaks == live # None /\ ~LiveContested /\ a \in Holders(live)
      own == LoginsOf(a)
      lent == IF speaks THEN Logins(live) ELSE Unknown
  IN  [ws |-> IF WorkspaceOf(a) = None /\ speaks THEN live.ws ELSE WorkspaceOf(a),
       logins |-> [uid |-> IF own.uid = None THEN lent.uid ELSE own.uid,
                   sub |-> IF own.sub = None THEN lent.sub ELSE own.sub]]

ExistingSeat(f) ==
  IF f.ws = None \/ Logins(f) = Unknown THEN {}
  ELSE {a \in Dirs : IdentityOf(a).ws = f.ws /\ Same(Logins(f), IdentityOf(a).logins)}

Conflict(a, f) ==
  LET stored == LoginsOf(a)
      readable == prof[a].auth # None
      settled == IF Logins(f) = Unknown /\ stored = Unknown THEN readable
                 ELSE Same(Logins(f), stored)
      differ == \/ f.ws # None /\ WorkspaceOf(a) # None /\ f.ws # WorkspaceOf(a)
                \/ Differs(Logins(f), stored)
  IN  CASE ~prof[a].dir -> "none"
        [] prof[a].dir /\ ~readable /\ WorkspaceOf(a) = None /\ stored = Unknown -> "unprovable"
        [] OTHER -> IF ClaimsAgree(f.ws, WorkspaceOf(a)) /\ settled THEN "none"
                    ELSE IF differ THEN "different" ELSE "unprovable"

\* How a conflict is described to the operator.
Stored(a) == <<WorkspaceOf(a), LoginsOf(a)>>
=============================================================================
