--------------------------- MODULE NativeProvider ---------------------------
(***************************************************************************)
(* Switching one host between its local accounts and an account of the     *)
(* server: the files that say which account Codex uses, the order they are *)
(* written and rolled back in, the leases that keep local credential       *)
(* owners apart from the server's provider, the route through the relay,   *)
(* and the helper that hands Codex a token (src/src/central/native.rs,     *)
(* src/src/relay/routing.rs).                                              *)
(*                                                                         *)
(* A process may die between any two writes.  A write fails before or      *)
(* after it took effect.  The service refuses an account whose usage is    *)
(* billed unless the operator approved it.                                 *)
(***************************************************************************)
EXTENDS Naturals, FiniteSets

CONSTANTS
  Accounts, Commands,
  Relays,       \* listeners that may be configured
  Direct,       \* no relay
  None,
  Plans         \* what the commands of a behaviour do (bound)
  \* a plan: [of: [Commands -> sets of roles], faults, crashes, changes]

Roles == {"use", "local", "wrapper", "relay", "launch", "token"}
Listeners == Relays \cup {Direct}

VARIABLES
  disk,       \* the files: conn, marker, provider, route, pointer, relay,
              \* pending, and history: the account the audit log names last
  billing,    \* the server: "included" or "usage" for each account
  locks,      \* mode.lock (shared and exclusive), native.lock, relay.lock
  at, my,     \* where each command is, and what it holds
  children,   \* local Codex processes, with the lease of their launcher
  plan,
  history     \* [consent, torn, unproven, served]

nativeVars == <<disk, billing, locks, at, my, children, plan, history>>

Fresh == [role |-> None, account |-> None, allow |-> FALSE, switching |-> FALSE,
          class |-> None, seen |-> None, listen |-> None, prev |-> None]

NativeInit ==
  /\ disk = [conn |-> [a \in Accounts |-> "none"], marker |-> FALSE, provider |-> "local",
             route |-> None, pointer |-> None, relay |-> Direct, pending |-> None,
             logged |-> None]
  /\ billing \in [Accounts -> {"included", "usage"}]
  /\ locks = [shared |-> {}, exclusive |-> None, native |-> None, relay |-> None]
  /\ at = [c \in Commands |-> "start"] /\ my = [c \in Commands |-> Fresh]
  /\ children = {}
  /\ plan \in Plans
  /\ history = [consent |-> {}, torn |-> FALSE, unproven |-> FALSE, served |-> None]

---------------------------------------------------------------------------
Goto(c, place) == at' = [at EXCEPT ![c] = place]
Set(c, field, value) == my' = [my EXCEPT ![c][field] = value]
Central == disk.provider = "central"
NativeFree == locks.native = None
RouteState == <<disk.relay, disk.pending>>
RouteInForce == IF disk.pending # None THEN disk.pending ELSE disk.relay
Release(c) ==
  [shared |-> locks.shared \ {c},
   exclusive |-> IF locks.exclusive = c THEN None ELSE locks.exclusive,
   native |-> IF locks.native = c THEN None ELSE locks.native,
   relay |-> IF locks.relay = c THEN None ELSE locks.relay]
Over(c) == /\ Goto(c, "start") /\ my' = [my EXCEPT ![c] = Fresh] /\ locks' = Release(c)
Quits(c) == Over(c) /\ UNCHANGED <<disk, billing, children, plan, history>>

Begin(c, role) ==
  /\ at[c] = "start" /\ role \in plan.of[c]
  /\ plan' = [plan EXCEPT !.of[c] = @ \ {role}]
  /\ Goto(c, role) /\ Set(c, "role", role)
  /\ UNCHANGED <<disk, billing, locks, children, history>>

---------------------------------------------------------------------------
\* activate: a shared lease while the server's provider stays active, an
\* exclusive one to enter it from local mode.
UseMode(c) ==
  /\ at[c] = "use" /\ locks.exclusive = None /\ NativeFree
  /\ \E a \in Accounts, allow \in BOOLEAN :
       my' = [my EXCEPT ![c].account = a, ![c].allow = allow,
                        ![c].switching = disk.marker /\ Central]
  /\ IF disk.marker /\ Central
     THEN locks' = [locks EXCEPT !.shared = @ \cup {c}] /\ Goto(c, "fetch")
     ELSE UNCHANGED locks /\ Goto(c, "exclusive")
  /\ UNCHANGED <<disk, billing, children, plan, history>>

UseExclusive(c) ==
  /\ at[c] = "exclusive"
  /\ locks.exclusive = None /\ locks.shared = {}
  /\ locks' = [locks EXCEPT !.exclusive = c]
  /\ Goto(c, "fetch")
  /\ UNCHANGED <<disk, billing, my, children, plan, history>>
\* The lease did not come in time.
UseBusy(c) ==
  /\ at[c] = "exclusive" /\ (locks.exclusive # None \/ locks.shared # {})
  /\ Quits(c)

\* sync_account, the token's billing class, and the operator's consent to it.
UseFetch(c) ==
  LET a == my[c].account
      billed == billing[a] = "usage"
  IN  /\ at[c] = "fetch" /\ NativeFree
      /\ disk' = [disk EXCEPT !.conn[a] = IF @ = "none" THEN "included" ELSE @]
      /\ IF billed /\ ~my[c].allow
         THEN Over(c) /\ UNCHANGED history
         ELSE /\ my' = [my EXCEPT ![c].class = billing[a]]
              /\ Goto(c, "preflight")
              /\ history' = [history EXCEPT !.consent = @ \cup {x \in {a} : billed}]
              /\ UNCHANGED locks
      /\ UNCHANGED <<billing, children, plan>>

\* preflight_route: the listener in force is proved before any lock is taken.
Preflight(c) ==
  /\ at[c] \in {"preflight", "launch"}
  /\ my' = [my EXCEPT ![c].seen = RouteState, ![c].listen = RouteInForce]
  /\ Goto(c, IF at[c] = "launch" THEN "provider" ELSE "locked")
  /\ UNCHANGED <<disk, billing, locks, children, plan, history>>
PreflightFails(c) ==
  /\ at[c] \in {"preflight", "launch"} /\ RouteInForce # Direct
  /\ Quits(c)

\* The local refusals, under the native lock.
StillAllowed(c) ==
  /\ my[c].switching => disk.marker
  /\ IF disk.marker THEN Central ELSE ~Central

UseLocked(c) ==
  /\ at[c] = "locked" /\ NativeFree
  /\ IF StillAllowed(c)
     THEN /\ locks' = [locks EXCEPT !.native = c]
          /\ Goto(c, "provider") /\ UNCHANGED my
     ELSE Over(c)
  /\ UNCHANGED <<disk, billing, children, plan, history>>

---------------------------------------------------------------------------
\* central_provider and recover, under relay.lock; configure is the same with
\* an intent of its own.
\* Mutated form: only relay.json is compared, not the intent.
UnchangedRelay(c) == disk.relay = my[c].seen[1]
Unchanged(c) == RouteState = my[c].seen

ProviderLock(c) ==
  /\ at[c] = "provider"
  /\ IF locks.relay = None /\ Unchanged(c)
     THEN /\ locks' = [locks EXCEPT !.relay = c]
          /\ Goto(c, IF my[c].role = "relay" THEN "intent"
                     ELSE IF disk.pending # None THEN "apply" ELSE "route")
          /\ UNCHANGED my
     ELSE Over(c)
  /\ UNCHANGED <<disk, billing, children, plan, history>>

Faults(n) == plan.faults >= n /\ plan' = [plan EXCEPT !.faults = @ - n]
\* A write, whether it took effect or not, and how it ended.
Wrote(file) == disk' = file /\ UNCHANGED plan
WriteFails(file) == Faults(1) /\ disk' \in {disk, file}

Intent(c) ==
  /\ at[c] = "intent"
  /\ LET file == [disk EXCEPT !.pending = my[c].listen]
     IN  \/ Wrote(file) /\ Goto(c, "apply") /\ UNCHANGED <<locks, my>>
         \/ WriteFails(file) /\ Over(c)
  /\ UNCHANGED <<billing, children, history>>

\* apply: the configuration first, then relay.json.
ApplyConfig(c) ==
  /\ at[c] = "apply"
  /\ LET file == IF Central THEN [disk EXCEPT !.route = disk.pending] ELSE disk
     IN  \/ Wrote(file) /\ Goto(c, "relay.json") /\ UNCHANGED <<locks, my>>
         \/ WriteFails(file) /\ Over(c)
  /\ UNCHANGED <<billing, children, history>>
ApplyRelay(c) ==
  /\ at[c] = "relay.json"
  /\ LET file == [disk EXCEPT !.relay = disk.pending]
     IN  \/ Wrote(file) /\ Goto(c, "settled") /\ UNCHANGED <<locks, my>>
         \/ WriteFails(file) /\ Over(c)
  /\ history' = [history EXCEPT !.unproven = @ \/ disk.pending \notin {Direct, my[c].listen}]
  /\ UNCHANGED <<billing, children>>
Settled(c) ==
  /\ at[c] = "settled"
  /\ LET file == [disk EXCEPT !.pending = None]
     IN  \/ /\ Wrote(file)
            /\ IF my[c].role = "relay" THEN Over(c)
               ELSE Goto(c, "route") /\ UNCHANGED <<locks, my>>
         \/ WriteFails(file) /\ Over(c)
  /\ UNCHANGED <<billing, children, history>>

\* The route is the one that was proved; what the activation will undo is
\* read after it.
Route(c) ==
  /\ at[c] = "route"
  /\ IF disk.relay # my[c].listen \/ my[c].role = "launch" THEN Over(c)
     ELSE /\ locks' = [locks EXCEPT !.relay = None]
          /\ Set(c, "prev", disk) /\ Goto(c, "save")
  /\ UNCHANGED <<disk, billing, children, plan, history>>

---------------------------------------------------------------------------
\* The four writes of an activation and the audit entry; a failure undoes
\* them in the other order.
ActivationWrite(c) ==
  LET a == my[c].account
  IN  CASE at[c] = "save"   -> [disk EXCEPT !.conn[a] = my[c].class]
        [] at[c] = "mark"   -> [disk EXCEPT !.marker = TRUE]
        [] at[c] = "config" -> [disk EXCEPT !.provider = "central", !.route = my[c].listen]
        [] at[c] = "point"  -> [disk EXCEPT !.pointer = a]
        [] at[c] = "log"    -> [disk EXCEPT !.logged = a]
ActivationNext ==
  [save |-> "mark", mark |-> "config", config |-> "point", point |-> "log"]

\* write_pointer_with_rollback: nothing to do when the pointer stays.
Pointed(c) == at[c] = "point" /\ disk.pointer = my[c].account

Activate(c) ==
  /\ at[c] \in DOMAIN ActivationNext /\ ~Pointed(c)
  /\ Wrote(ActivationWrite(c)) /\ Goto(c, ActivationNext[at[c]])
  /\ UNCHANGED <<billing, locks, my, children, history>>
Activated(c) ==
  /\ at[c] = "log" \/ Pointed(c)
  /\ Wrote(IF Pointed(c) THEN disk ELSE ActivationWrite(c)) /\ Over(c)
  /\ UNCHANGED <<billing, children, history>>
ActivateFails(c) ==
  /\ at[c] \in DOMAIN ActivationNext \cup {"log"} /\ ~Pointed(c)
  /\ IF at[c] = "log" THEN Faults(1) /\ UNCHANGED disk ELSE WriteFails(ActivationWrite(c))
  /\ Goto(c, "undo pointer")
  /\ UNCHANGED <<billing, locks, my, children, history>>

\* rollback_activation: every part is tried, whatever happens to the others.
Undo(c) ==
  LET prev == my[c].prev
  IN  CASE at[c] = "undo pointer" -> [disk EXCEPT !.pointer = prev.pointer,
             !.logged = IF disk.pointer = prev.pointer THEN @ ELSE prev.pointer]
        [] at[c] = "undo config"  -> [disk EXCEPT !.provider = prev.provider, !.route = prev.route]
        [] at[c] = "undo marker"  -> [disk EXCEPT !.marker = prev.marker]
        [] at[c] = "undo conn"    -> [disk EXCEPT !.conn = prev.conn]
UndoNext == [x \in {"undo pointer", "undo config", "undo marker"} |->
               CASE x = "undo pointer" -> "undo config" [] x = "undo config" -> "undo marker"
                 [] OTHER -> "undo conn"]
Rollback(c) ==
  /\ at[c] \in DOMAIN UndoNext \cup {"undo conn"}
  /\ \/ Wrote(Undo(c)) /\ UNCHANGED history
     \/ Faults(1) /\ UNCHANGED disk /\ history' = [history EXCEPT !.torn = TRUE]
  /\ IF at[c] = "undo conn" THEN Over(c)
     ELSE Goto(c, UndoNext[at[c]]) /\ UNCHANGED <<locks, my>>
  /\ UNCHANGED <<billing, children>>

---------------------------------------------------------------------------
\* local_selection holds a lease and restores the local provider;
\* local_operation only requires it.
LocalLease(c) ==
  /\ at[c] = "local" /\ locks.exclusive = None
  /\ locks' = [locks EXCEPT !.shared = @ \cup {c}]
  /\ Goto(c, "deactivate")
  /\ UNCHANGED <<disk, billing, my, children, plan, history>>
WrapperLease(c) ==
  /\ at[c] = "wrapper" /\ locks.exclusive = None
  /\ IF disk.marker /\ Central THEN Over(c)
     ELSE /\ locks' = [locks EXCEPT !.shared = @ \cup {c}]
          /\ Goto(c, "revalidate") /\ UNCHANGED my
  /\ UNCHANGED <<disk, billing, children, plan, history>>

\* deactivate_locked
Deactivate(c) ==
  /\ at[c] = "deactivate" /\ NativeFree
  /\ locks' = [locks EXCEPT !.native = c]
  /\ Set(c, "prev", disk)
  /\ Goto(c, IF disk.marker THEN "restore" ELSE "unpoint")
  /\ UNCHANGED <<disk, billing, children, plan, history>>

LocalNext == [restore |-> "unpoint", unpoint |-> "unlog", unlog |-> "unmark"]
DeactivationWrite(c) ==
  CASE at[c] = "restore" -> [disk EXCEPT !.provider = "local", !.route = None]
    [] at[c] = "unpoint" -> [disk EXCEPT !.pointer = None]
    [] at[c] = "unlog"   -> [disk EXCEPT !.logged = None]
    [] at[c] = "unmark"  -> [disk EXCEPT !.marker = FALSE]
Deactivated(c) ==
  /\ at[c] \in DOMAIN LocalNext \cup {"unmark"}
  /\ LET unlogged == at[c] = "unlog" /\ my[c].prev.pointer = None
     IN  Wrote(IF unlogged THEN disk ELSE DeactivationWrite(c))
  /\ IF at[c] = "unmark"
     THEN Goto(c, "revalidate") /\ locks' = [locks EXCEPT !.native = None]
     ELSE Goto(c, LocalNext[at[c]]) /\ UNCHANGED locks
  /\ UNCHANGED <<billing, my, children, history>>
\* A failure restores the pointer, with its entry in the log, and then the
\* configuration; one of the first write itself undoes nothing.
DeactivateFails(c) ==
  /\ at[c] \in DOMAIN LocalNext \cup {"unmark"}
  /\ IF at[c] = "restore"
     THEN /\ WriteFails(DeactivationWrite(c)) /\ Over(c)
          /\ history' = [history EXCEPT !.torn = @ \/ disk' # disk]
     ELSE /\ Faults(1) /\ Goto(c, "undo local")
          /\ UNCHANGED <<disk, locks, my, history>>
  /\ UNCHANGED <<billing, children>>
UndoLocal(c) ==
  LET prev == my[c].prev
      back == [disk EXCEPT !.pointer = prev.pointer, !.logged = prev.pointer,
                           !.provider = prev.provider, !.route = prev.route]
  IN  /\ at[c] = "undo local"
      /\ \/ Wrote(back) /\ UNCHANGED history
         \/ Faults(1) /\ history' = [history EXCEPT !.torn = TRUE]
            /\ disk' \in {disk, [back EXCEPT !.provider = disk.provider, !.route = disk.route],
                          [disk EXCEPT !.provider = prev.provider, !.route = prev.route]}
      /\ Over(c)
      /\ UNCHANGED <<billing, children>>

\* revalidate, and the child keeps the lease when its launcher is gone.
Revalidate(c) ==
  /\ at[c] = "revalidate"
  /\ IF disk.marker /\ Central
     THEN Over(c) /\ UNCHANGED children
     ELSE /\ children' = children \cup {c}
          /\ Goto(c, "running") /\ UNCHANGED <<locks, my>>
  /\ UNCHANGED <<disk, billing, plan, history>>
ChildEnds(c) ==
  /\ c \in children /\ children' = children \ {c}
  /\ locks' = [locks EXCEPT !.shared = @ \ {c}]
  /\ at' = [at EXCEPT ![c] = IF @ = "running" THEN "start" ELSE @]
  /\ my' = [my EXCEPT ![c] = IF at[c] = "running" THEN Fresh ELSE @]
  /\ UNCHANGED <<disk, billing, plan, history>>

---------------------------------------------------------------------------
\* preflight_configuration and configure, under the native lock.
Configure(c) ==
  /\ at[c] = "relay"
  /\ \E listen \in Listeners :
       my' = [my EXCEPT ![c].seen = RouteState, ![c].listen = listen]
  /\ Goto(c, "configure")
  /\ UNCHANGED <<disk, billing, locks, children, plan, history>>
ConfigureLocked(c) ==
  /\ at[c] = "configure" /\ NativeFree
  /\ locks' = [locks EXCEPT !.native = c]
  /\ Goto(c, "provider")
  /\ UNCHANGED <<disk, billing, my, children, plan, history>>

\* print_active_token: the pointer and its connection, the server's answer,
\* and finish_token under the lock again.
TokenFetch(c) ==
  /\ at[c] = "token" /\ NativeFree /\ disk.pointer # None
  /\ my' = [my EXCEPT ![c].account = disk.pointer, ![c].class = billing[disk.pointer]]
  /\ Goto(c, "finish")
  /\ UNCHANGED <<disk, billing, locks, children, plan, history>>
StillActive(c) == disk.pointer = my[c].account
Approved(c) == my[c].class = "included" \/ disk.conn[my[c].account] = my[c].class
TokenFinish(c) ==
  /\ at[c] = "finish" /\ NativeFree
  /\ history' = [history EXCEPT !.served =
       IF StillActive(c) /\ Approved(c) THEN <<my[c].account, my[c].class, disk.pointer>> ELSE @]
  /\ Over(c)
  /\ UNCHANGED <<disk, billing, children, plan>>

---------------------------------------------------------------------------
\* A command dies; its locks go, but its child keeps the lease.
Die(c) ==
  /\ plan.crashes > 0 /\ at[c] # "start"
  /\ plan' = [plan EXCEPT !.crashes = @ - 1]
  /\ Goto(c, "start") /\ my' = [my EXCEPT ![c] = Fresh]
  /\ locks' = IF c \in children THEN [Release(c) EXCEPT !.shared = @ \cup {c}] ELSE Release(c)
  /\ history' = [history EXCEPT !.torn = @ \/ locks.native = c]
  /\ UNCHANGED <<disk, billing, children>>

BillingChanges(a) ==
  /\ plan.changes > 0 /\ plan' = [plan EXCEPT !.changes = @ - 1]
  /\ billing' = [billing EXCEPT ![a] = IF @ = "usage" THEN "included" ELSE "usage"]
  /\ UNCHANGED <<disk, locks, at, my, children, history>>

NativeNext ==
  \/ \E a \in Accounts : BillingChanges(a)
  \/ \E c \in Commands :
       \/ at[c] = "start" /\ c \notin children /\ \E role \in Roles : Begin(c, role)
       \/ UseMode(c) \/ UseExclusive(c) \/ UseBusy(c) \/ UseFetch(c)
       \/ Preflight(c) \/ PreflightFails(c) \/ UseLocked(c)
       \/ ProviderLock(c) \/ Intent(c) \/ ApplyConfig(c) \/ ApplyRelay(c) \/ Settled(c)
       \/ Route(c) \/ Activate(c) \/ Activated(c) \/ ActivateFails(c) \/ Rollback(c)
       \/ LocalLease(c) \/ WrapperLease(c) \/ Deactivate(c) \/ Deactivated(c)
       \/ DeactivateFails(c) \/ UndoLocal(c) \/ Revalidate(c) \/ ChildEnds(c)
       \/ Configure(c) \/ ConfigureLocked(c) \/ TokenFetch(c) \/ TokenFinish(c) \/ Die(c)

NativeSpec == NativeInit /\ [][NativeNext]_nativeVars

---------------------------------------------------------------------------
NativeTypeOK ==
  /\ disk.provider \in {"local", "central"} /\ disk.marker \in BOOLEAN
  /\ disk.conn \in [Accounts -> {"none", "included", "usage"}]
  /\ disk.pointer \in Accounts \cup {None} /\ disk.logged \in Accounts \cup {None}
  /\ disk.relay \in Listeners /\ disk.pending \in Listeners \cup {None}
  /\ locks.exclusive # None => locks.shared = {}
  /\ children \subseteq locks.shared

\* A local Codex never runs beside the server's provider, however selections
\* and restorations overlap and wherever they die.
LocalExcluded == children # {} => ~Central \/ history.torn

\* The provider is never left active without the marker that says how to
\* restore the configuration: a command that died anywhere, or failed once,
\* can be followed by another.
ProviderMarked == Central => disk.marker \/ history.torn
\* What failed once was undone whole: an account is pointed to only with its
\* provider active, and the audit log names the pointer.
ActivationWhole ==
  NativeFree /\ ~history.torn =>
    /\ disk.pointer # None => disk.marker /\ Central /\ disk.conn[disk.pointer] # "none"
    /\ disk.logged = disk.pointer

\* Codex's route is the relay's, and a relay is used only if its listener was
\* proved for the state in force.
RouteFollows ==
  /\ Central /\ disk.pending = None /\ NativeFree /\ locks.relay = None => disk.route = disk.relay
  /\ ~history.unproven

\* A token of an account that bills is handed out only where the operator
\* approved it, and only of the selected account.
TokenApproved ==
  history.served # None =>
    /\ history.served[2] = "usage" => history.served[1] \in history.consent
    /\ history.served[1] = history.served[3]

NativeIInv ==
  NativeTypeOK /\ LocalExcluded /\ ProviderMarked /\ ActivationWhole /\ RouteFollows /\ TokenApproved
=============================================================================
