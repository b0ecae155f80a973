--------------------------- MODULE LocalProfiles ---------------------------
(***************************************************************************)
(* The commands that move credentials between the live Codex home, the     *)
(* saved profiles and the pinned exec homes of one machine: use and switch,*)
(* save, login, exec and remove (src/src/profile.rs, commands/).           *)
(*                                                                         *)
(* Commands take the store lock; Codex does not, and rotates the token of  *)
(* the auth file it runs on at any time.  A command may die at any step,   *)
(* which frees its lock and leaves every file as it is.  Each file is      *)
(* replaced by a rename, so it is read whole.                              *)
(***************************************************************************)
EXTENDS ProfileIdentity

CONSTANTS
  Commands,    \* the codexctl processes
  Qualified    \* the alias a label makes of each alias, or None

\* None is neither a name nor a file.
ASSUME NamesAssumption ==
  /\ IsFiniteSet(Aliases) /\ None \notin Aliases
  /\ Qualified \in [Aliases -> Aliases \cup {None}]
  /\ \A w \in Worlds :
       None \notin [seat : Seats, gen : Generations,
                    ws : {w.claims[t].ws : t \in Seats \X Generations} \cup {None}]

\* A seat is one login in one workspace: what its tokens name they agree on, and
\* another seat of that workspace is another login.
Agree(x, y) == x = None \/ y = None \/ x = y
ASSUME SeatsAssumption ==
  \A w \in Worlds, s, t \in Seats, g, h \in Generations :
    LET x == w.claims[<<s, g>>] y == w.claims[<<t, h>>]
    IN  IF s = t THEN Agree(x.ws, y.ws) /\ Agree(x.uid, y.uid) /\ Agree(x.sub, y.sub)
        ELSE x.ws # None /\ x.ws = y.ws =>
               \A i, j \in Generations : ~Same(w.claims[<<s, i>>], w.claims[<<t, j>>])

VARIABLES
  exec,      \* the auth file of each alias's pinned home
  newest,    \* the generation the provider accepts for each seat
  cmd,       \* what each command is doing
  crashes,   \* commands that died and captures that failed
  logins,    \* logins and saves the operator ran, native ones too
  excused    \* history: seats whose newest token was given up knowingly, granted by
             \* one of two overlapping logins, or in a file a command replaced after
             \* Codex rotated it or after its capture failed

profileVars == <<world, storeVars, exec, newest, cmd, crashes, logins, excused>>

Idle == [pc |-> "idle", kind |-> "none", target |-> None, label |-> FALSE, source |-> None,
         confirmed |-> FALSE, approved |-> FALSE, shown |-> <<>>, snap |-> None, owner |-> None]

IsFile(f) ==
  \/ f = None
  \/ /\ f.ws \in {None, claims[Token(f)].ws} \/ \E g \in Generations : f.ws = claims[<<f.seat, g>>].ws
     /\ f.gen \in 1..newest[f.seat]
LocalTypeOK ==
  /\ newest \in [Seats -> Generations]
  /\ marker \in Aliases \cup {None}
  /\ IsFile(live)
  /\ \A a \in Aliases : /\ prof[a].dir \/ prof[a] = NoDir
                        /\ IsFile(prof[a].auth) /\ IsFile(exec[a])

\* A machine whose operator saved some seats, one of which is live, or whose
\* live login was never saved.
LocalInit ==
  /\ world \in Worlds
  /\ newest = [s \in Seats |-> 1]
  /\ \E saved \in [Aliases -> Seats \cup {None}] :
       /\ \A a, b \in Aliases : a # b /\ saved[a] # None => saved[a] # saved[b]
       /\ prof = [a \in Aliases |-> IF saved[a] = None THEN NoDir ELSE
                    [dir |-> TRUE, auth |-> Issued(saved[a], 1), meta |-> MetaOf(Issued(saved[a], 1))]]
       /\ \E s \in Seats :
            /\ live = Issued(s, 1)
            /\ marker = LET own == {a \in Aliases : saved[a] = s} IN Only(own)
  /\ exec = [a \in Aliases |-> None]
  /\ cmd = [p \in Commands |-> Idle]
  /\ crashes = 0 /\ logins = 0 /\ excused = {}

---------------------------------------------------------------------------
At(p, pc) == cmd[p].pc = pc
Set(p, c) == cmd' = [cmd EXCEPT ![p] = c]
Goto(p, pc) == cmd' = [cmd EXCEPT ![p].pc = pc]
End(p) == Set(p, Idle)
\* The operator starts a command (bound: the commands at one time).
Starts(p) ==
  At(p, "idle") /\ Cardinality({q \in Commands : cmd[q].pc # "idle"}) < world.busy
Unchanging == UNCHANGED <<world, exec, newest, crashes, logins>>

\* The phases of a command that holds the store lock.
Locked == {"capture", "fold", "copy", "auth", "meta", "install", "mark"}
LockFree == \A p \in Commands : cmd[p].pc \notin Locked

---------------------------------------------------------------------------
(* use and switch (switch_to_auth_json_from), and exec: seed the pinned    *)
(* home, run the child, fold its token back.                               *)

Begin(p, kind, a) ==
  /\ LockFree
  /\ Listed(a) /\ prof[a].auth # None
  /\ Set(p, [Idle EXCEPT !.pc = "capture", !.kind = kind, !.target = a])
  /\ UNCHANGED <<storeVars, excused>> /\ Unchanging
Switch(p, a) == Begin(p, "switch", a)
ExecSeed(p, a) == Begin(p, "seed", a)

ExecReturns(p) ==
  /\ At(p, "child") /\ LockFree
  /\ cmd' = [cmd EXCEPT ![p].pc = "capture", ![p].kind = "return"]
  /\ UNCHANGED <<storeVars, excused>> /\ Unchanging

---------------------------------------------------------------------------
(* The capture before every install.                                       *)

Pinned(p) == cmd[p].kind \in {"seed", "return"}
Lane(p) == IF Pinned(p) THEN exec[cmd[p].target] ELSE live
Hint(p) == IF Pinned(p) THEN cmd[p].target ELSE marker
Captured(p, snap) ==
  IF cmd[p].kind = "return" THEN End(p)
  ELSE cmd' = [cmd EXCEPT ![p].pc = IF cmd[p].kind = "login" THEN "auth" ELSE "install",
                          ![p].snap = snap, ![p].owner = None]

\* capture_from_snapshot: one read of the file decides and is what is written.
\* A login leaves the alias it is about to write alone.
Owner(p) ==
  LET found == IF Lane(p) = None THEN None ELSE AliasWithHint(Lane(p), Hint(p))
  IN  IF cmd[p].kind = "login" /\ found = cmd[p].target THEN None ELSE found
Capture(p) ==
  /\ At(p, "capture")
  /\ IF Owner(p) # None /\ Supersedes(Lane(p), prof[Owner(p)].auth)
     THEN cmd' = [cmd EXCEPT ![p].pc = "fold", ![p].snap = Lane(p), ![p].owner = Owner(p)]
     ELSE Captured(p, Lane(p))
  /\ UNCHANGED <<storeVars, excused>> /\ Unchanging

\* capture_into_owner: the workspace the profile has proven is recorded before
\* the file that proves it is replaced.
Recorded(p) ==
  LET a == cmd[p].owner
      proven == WorkspaceOf(a)
  IN  IF proven = None \/ cmd[p].snap.ws = proven THEN prof
      ELSE [prof EXCEPT ![a].meta = [ws |-> proven, uid |-> IF @ = None THEN None ELSE @.uid]]
Fold(p) ==
  /\ At(p, "fold")
  /\ prof' = Recorded(p)
  /\ Goto(p, "copy")
  /\ UNCHANGED <<live, marker, excused>> /\ Unchanging

\* A copy whose rename was made is made, though its sync failed.
Copy(p) ==
  /\ At(p, "copy")
  /\ prof' = [prof EXCEPT ![cmd[p].owner].auth = cmd[p].snap]
  /\ Captured(p, cmd[p].snap)
  /\ UNCHANGED <<live, marker, excused>> /\ Unchanging

\* A read, a snapshot, a workspace record or a copy that fails only warns: the
\* command goes on with nothing captured.  The record may be in place.
CaptureFails(p) ==
  /\ cmd[p].pc \in {"capture", "fold", "copy"}
  /\ crashes < world.crashes
  /\ crashes' = crashes + 1
  /\ \/ prof' = prof
     \/ At(p, "fold") /\ prof' = Recorded(p)
  /\ Captured(p, None)
  /\ UNCHANGED <<world, live, marker, exec, newest, logins, excused>>

\* The newest token of a seat that is lost here: written to the lane since the
\* snapshot, or never captured.
Latest(f, s) == f # None /\ f.seat = s /\ f.gen = newest[s]
Overwritten(p) == {s \in Seats : Latest(Lane(p), s) /\ Lane(p) # cmd[p].snap}

\* Install the saved profile into the live or the pinned home.
Install(p) ==
  /\ At(p, "install")
  /\ IF Pinned(p)
     THEN /\ exec' = [exec EXCEPT ![cmd[p].target] = prof[cmd[p].target].auth]
          /\ Set(p, [Idle EXCEPT !.pc = "child", !.kind = "seed", !.target = cmd[p].target])
          /\ UNCHANGED live
     ELSE /\ live' = prof[cmd[p].target].auth
          /\ Goto(p, "mark")
          /\ UNCHANGED exec
  /\ excused' = excused \cup Overwritten(p)
  /\ UNCHANGED <<world, prof, marker, newest, crashes, logins>>

Mark(p) ==
  /\ At(p, "mark")
  /\ marker' = cmd[p].target
  /\ End(p)
  /\ UNCHANGED <<prof, live, excused>> /\ Unchanging

---------------------------------------------------------------------------
(* save: the checks and the question come before the lock, and the checks  *)
(* again under it.                                                         *)

\* The account, or this very credential, is already saved under other names.
Elsewhere(a, f) ==
  \/ ExistingSeat(f) # {} /\ a \notin ExistingSeat(f)
  \/ ExactTokenSeat(f) # {} /\ a \notin ExactTokenSeat(f)

SaveBegin(p, a) ==
  /\ live # None /\ logins < world.logins
  /\ ~Elsewhere(a, live)
  /\ Conflict(a, live) # "different"
  /\ Set(p, [Idle EXCEPT !.pc = "asked", !.kind = "save", !.target = a, !.source = live,
               !.confirmed = prof[a].dir, !.approved = Conflict(a, live) = "unprovable",
               !.shown = IF prof[a].dir THEN <<prof[a].auth>> ELSE <<>>])
  /\ logins' = logins + 1
  /\ UNCHANGED <<world, storeVars, exec, newest, crashes, excused>>

\* Mutated forms: the checks before the lock are enough; the confirmation is
\* not compared with what the profile holds by now.
VerifiedBefore(p) == live = cmd[p].source
VerifiedUnshown(p) ==
  LET a == cmd[p].target f == cmd[p].source
  IN  /\ live = f
      /\ ~Elsewhere(a, f)
      /\ Conflict(a, f) # "different"
      /\ Conflict(a, f) = "unprovable" => cmd[p].approved

\* save_verified_snapshot, up to its write.
Verified(p) ==
  LET a == cmd[p].target f == cmd[p].source
  IN  /\ live = f
      /\ ~Elsewhere(a, f)
      /\ prof[a].dir => /\ Conflict(a, f) # "different"
                        /\ Conflict(a, f) = "unprovable" => cmd[p].approved
                        /\ cmd[p].confirmed /\ cmd[p].shown = <<prof[a].auth>>

SaveLocked(p) ==
  /\ At(p, "asked") /\ cmd[p].kind = "save" /\ LockFree
  /\ IF Verified(p) THEN Goto(p, "auth") ELSE End(p)
  /\ UNCHANGED <<storeVars, excused>> /\ Unchanging

\* save_profile_unlocked: auth.json first, then the metadata it proves.  What
\* the operator agreed to replace is given up.
WriteAuth(p) ==
  LET a == cmd[p].target old == prof[a].auth
      agreed == cmd[p].approved \/ cmd[p].confirmed
  IN  /\ At(p, "auth")
      /\ prof' = [prof EXCEPT ![a].dir = TRUE, ![a].auth = cmd[p].source]
      /\ excused' = IF agreed /\ old # None THEN excused \cup {old.seat} ELSE excused
      /\ Goto(p, "meta")
      /\ UNCHANGED <<live, marker>> /\ Unchanging

WriteMeta(p) ==
  /\ At(p, "meta")
  /\ prof' = [prof EXCEPT ![cmd[p].target].meta = MetaOf(cmd[p].source)]
  /\ Goto(p, IF cmd[p].kind = "save" THEN "mark" ELSE "install")
  /\ UNCHANGED <<live, marker, excused>> /\ Unchanging

---------------------------------------------------------------------------
(* login: an isolated home receives the new credential, whose account then *)
(* decides the alias.                                                      *)

Ready(a) == [kind |-> "ready", alias |-> a]
Ask(a) == [kind |-> "ask", alias |-> a]
Refuse == [kind |-> "refuse", alias |-> None]

\* resolve_target_alias.
Qualify(a, f) ==
  IF a = None THEN Refuse
  ELSE CASE Conflict(a, f) = "different" -> Refuse
         [] Conflict(a, f) = "unprovable" -> Ask(a)
         [] OTHER -> IF prof[a].dir /\ prof[a].auth = None THEN Ask(a) ELSE Ready(a)
ResolveTargetAlias(a, label, f) ==
  LET exact == ExactTokenSeat(f)
      seat == IF exact # {} THEN exact ELSE ExistingSeat(f)
      conflict == Conflict(a, f)
  IN  CASE Cardinality(seat) = 1 -> Ready(Only(seat))
        [] Cardinality(seat) > 1 ->
             IF a \notin seat THEN Refuse
             ELSE IF conflict = "none" THEN Ready(a)
             ELSE IF conflict = "unprovable" /\ ~label THEN Ask(a) ELSE Refuse
        [] OTHER ->
             IF conflict = "none" THEN Ready(a)
             ELSE IF label THEN Qualify(Qualified[a], f)
             ELSE IF conflict = "unprovable" THEN Ask(a) ELSE Refuse

\* The login makes the newest generation of its seat, and the only one.  Of two
\* logins of one seat that overlap, the last to take the lock is kept, whichever
\* token is the newer.
Overlapped(s) ==
  IF \E p \in Commands : cmd[p].kind = "login" /\ cmd[p].source.seat = s THEN {s} ELSE {}
LoginHome(p, a, s, label) ==
  /\ logins < world.logins
  /\ newest[s] + 1 \in world.generations
  /\ newest' = [newest EXCEPT ![s] = @ + 1]
  /\ Set(p, [Idle EXCEPT !.pc = "home", !.kind = "login", !.target = a, !.label = label,
               !.source = Issued(s, newest[s] + 1)])
  /\ logins' = logins + 1
  /\ excused' = excused \cup Overlapped(s)
  /\ UNCHANGED <<world, storeVars, exec, crashes>>

\* A refused login is not saved anywhere: its home is removed.
LoginRefused(p) == End(p) /\ excused' = excused \cup {cmd[p].source.seat}

LoginResolve(p) ==
  LET r == ResolveTargetAlias(cmd[p].target, cmd[p].label, cmd[p].source)
  IN  /\ At(p, "home") /\ LockFree
      /\ CASE r.kind = "ready" -> /\ cmd' = [cmd EXCEPT ![p].pc = "capture", ![p].target = r.alias]
                                  /\ UNCHANGED excused
           [] r.kind = "ask" -> /\ cmd' = [cmd EXCEPT ![p].pc = "asked", ![p].owner = r.alias,
                                             ![p].shown = <<prof[r.alias].auth, Stored(r.alias)>>]
                                /\ UNCHANGED excused
           [] OTHER -> LoginRefused(p)
      /\ UNCHANGED storeVars /\ Unchanging

LoginDeclined(p) ==
  /\ At(p, "asked") /\ cmd[p].kind = "login"
  /\ LoginRefused(p)
  /\ UNCHANGED storeVars /\ Unchanging

\* The answer approved one replacement: the same alias, described and stored
\* as it was shown.
AnswerApplies(p, r) ==
  r.alias = cmd[p].owner /\ cmd[p].shown = <<prof[r.alias].auth, Stored(r.alias)>>

LoginApproved(p) ==
  LET r == ResolveTargetAlias(cmd[p].target, cmd[p].label, cmd[p].source)
  IN  /\ At(p, "asked") /\ cmd[p].kind = "login" /\ LockFree
      /\ IF r.kind = "ready" \/ (r.kind = "ask" /\ AnswerApplies(p, r))
         THEN /\ cmd' = [cmd EXCEPT ![p].pc = "capture", ![p].target = r.alias,
                           ![p].owner = None, ![p].approved = r.kind = "ask",
                           ![p].shown = IF r.kind = "ask" THEN <<@[1]>> ELSE <<>>]
              /\ UNCHANGED excused
         ELSE LoginRefused(p)
      /\ UNCHANGED storeVars /\ Unchanging

---------------------------------------------------------------------------
(* remove, Codex itself and the death of a command.                        *)

\* delete_profile_from under the lock, and then without it the marker.
Remove(p, a) ==
  /\ LockFree /\ prof[a].dir
  /\ prof' = [prof EXCEPT ![a] = NoDir]
  /\ Set(p, [Idle EXCEPT !.pc = "unmark", !.target = a])
  /\ excused' = IF prof[a].auth = None THEN excused ELSE excused \cup {prof[a].auth.seat}
  /\ UNCHANGED <<live, marker>> /\ Unchanging

Unmark(p) ==
  /\ At(p, "unmark")
  /\ marker' = IF marker = cmd[p].target THEN None ELSE marker
  /\ End(p)
  /\ UNCHANGED <<prof, live, excused>> /\ Unchanging

Rotated(f) == Issued(f.seat, newest[f.seat] + 1)
Rotates(f) ==
  f # None /\ f.gen = newest[f.seat] /\ f.gen + 1 \in world.generations
CodexRotates ==
  /\ Rotates(live)
  /\ live' = Rotated(live)
  /\ newest' = [newest EXCEPT ![live.seat] = @ + 1]
  /\ UNCHANGED <<world, prof, marker, exec, cmd, crashes, logins, excused>>
ChildRotates(p) ==
  LET a == cmd[p].target
  IN  /\ At(p, "child")
      /\ Rotates(exec[a])
      /\ exec' = [exec EXCEPT ![a] = Rotated(@)]
      /\ newest' = [newest EXCEPT ![exec[a].seat] = @ + 1]
      /\ UNCHANGED <<world, storeVars, cmd, crashes, logins, excused>>

\* Codex adds the workspace to a file without touching its tokens.
CodexDeclares ==
  /\ live # None /\ live.ws = None
  /\ \E g \in Generations : live' = [live EXCEPT !.ws = claims[<<live.seat, g>>].ws]
  /\ live'.ws # None
  /\ UNCHANGED <<world, prof, marker, exec, newest, cmd, crashes, logins, excused>>

\* A native codex login takes over the live home, whatever it held.
CodexLogin(s) ==
  /\ logins < world.logins
  /\ newest[s] + 1 \in world.generations
  /\ newest' = [newest EXCEPT ![s] = @ + 1]
  /\ live' = Issued(s, newest[s] + 1)
  /\ logins' = logins + 1
  /\ excused' = excused \cup {live.seat} \cup Overlapped(s)
  /\ UNCHANGED <<world, prof, marker, exec, cmd, crashes>>

\* A save that dies while it creates its profile may leave an empty directory.
Crash(p) ==
  /\ crashes < world.crashes
  /\ crashes' = crashes + 1
  /\ End(p)
  /\ prof' \in {prof} \cup (IF At(p, "auth") THEN {[prof EXCEPT ![cmd[p].target].dir = TRUE]} ELSE {})
  /\ excused' = IF cmd[p].kind = "login" THEN excused \cup {cmd[p].source.seat} ELSE excused
  /\ UNCHANGED <<world, live, marker, exec, newest, logins>>

---------------------------------------------------------------------------
Starting(p) ==
  /\ Starts(p)
  /\ \E a \in Aliases :
       \/ Switch(p, a) \/ ExecSeed(p, a) \/ SaveBegin(p, a) \/ Remove(p, a)
       \/ \E s \in Seats, label \in BOOLEAN : LoginHome(p, a, s, label)
Running(p) ==
  /\ ~At(p, "idle")
  /\ \/ Unmark(p) \/ ExecReturns(p) \/ ChildRotates(p)
     \/ Capture(p) \/ Fold(p) \/ Copy(p) \/ CaptureFails(p) \/ Install(p) \/ Mark(p)
     \/ SaveLocked(p) \/ WriteAuth(p) \/ WriteMeta(p)
     \/ LoginResolve(p) \/ LoginDeclined(p) \/ LoginApproved(p)
     \/ Crash(p)

LocalNext ==
  \/ \E p \in Commands : Starting(p) \/ Running(p)
  \/ CodexRotates \/ CodexDeclares
  \/ \E s \in Seats : CodexLogin(s)

LocalSpec == LocalInit /\ [][LocalNext]_profileVars

---------------------------------------------------------------------------
(* The properties.                                                         *)

\* Every token of this world names its workspace and its login.
AllDeclared == \A t \in Seats \X Generations : claims[t].ws # None /\ claims[t].uid # None

\* The live file is read as the active profile's only if it is of its seat,
\* whoever wrote the file, the profile and the marker last.
LiveReadAsOwn ==
  marker # None /\ live # None /\ prof[marker].auth # None /\ prof[marker].auth.ws # None
    /\ AliasWithHint(live, marker) = marker
  => prof[marker].auth.seat = live.seat

\* One account is saved under one alias, whatever is saved and logged in at
\* the same time under other names.
OneAlias ==
  \A a, b \in Aliases :
    a # b /\ prof[a].auth # None /\ prof[b].auth # None /\ AllDeclared
      => prof[a].auth.seat # prof[b].auth.seat

\* The newest refresh token of a saved account is on disk: a switch, a login
\* and an exec fold the token they replace back first, and never an older one
\* over a newer.  A fold that failed with a warning is excused, once the file it
\* was to save is replaced.
Saved(s) == \E a \in Aliases : prof[a].auth # None /\ prof[a].auth.seat = s
OnDisk(s) ==
  \/ Latest(live, s)
  \/ \E a \in Aliases : Latest(prof[a].auth, s) \/ Latest(exec[a], s)
  \/ \E p \in Commands : cmd[p].kind = "login" /\ Latest(cmd[p].source, s)
RotationKept == \A s \in Seats \ excused : Saved(s) /\ AllDeclared => OnDisk(s)

\* A saved credential that says whose it is gives way to another account's, or
\* to an older one, only if the operator was shown it and agreed: never to a
\* capture, and to a login of its own seat only if another one overlapped.
SaysWhose(f) == f.ws # None /\ Logins(f) # Unknown
Agreed(p, old) == (cmd[p].approved \/ cmd[p].confirmed) /\ cmd[p].shown = <<old>>
ReplacedOnlyAgreed ==
  [][\A a \in Aliases :
       LET old == prof[a].auth new == prof'[a].auth
       IN  old # None /\ new # None /\ SaysWhose(old)
             /\ (new.seat # old.seat \/ new.gen < old.gen)
           => \E p \in Commands :
                /\ At(p, "auth") /\ cmd[p].target = a
                /\ \/ Agreed(p, old)
                   \/ cmd[p].kind = "login" /\ new.seat = old.seat /\ old.seat \in excused]_profileVars

LocalIInv == LocalTypeOK /\ LiveReadAsOwn /\ OneAlias
=============================================================================
