----------------------------- MODULE FileReset -----------------------------
(***************************************************************************)
(* Redemption of a banked reset at a single server: the file-backed        *)
(* journal of one account (Reader::redeem in src/central/resets.rs), the   *)
(* task that holds the account's Owner, and the machines that keep the id  *)
(* of their command until its outcome is known (redeem_reset in            *)
(* src/central/remote.rs).  Pending::join and Journal::complete are        *)
(* ResetJournal's; replicas of a shared store are ResetRedemption.         *)
(*                                                                         *)
(* The provider is external: it handles an idempotency key once, in its    *)
(* own time, and refuses a call without looking at its key.                *)
(***************************************************************************)
EXTENDS ResetJournal

CONSTANTS
  Machines,
  Mishaps  \* bounds, of which a behaviour has one: the request ids of each machine's
           \* commands (ids), writes that fail, calls without an answer, rejected
           \* credentials, other rejections, reads with nothing to reset, callers that
           \* leave and crashes of the server

VARIABLES
  disk,     \* reset-redemptions.json
  tasks,    \* spawned, in the Owner's queue: id, live (its caller still waits)
  work,     \* the task that holds the Owner
  client,   \* machine -> asking, n (which of its ids reset-requests holds, or makes next)
  calls,    \* keys sent to the provider, with their credits
  outcome,  \* external: of each key
  avail,    \* external: the credits not spent, by expiry
  covers,   \* history: the ids that the journal had a key for
  refused,  \* history: keys settled on a rejection
  told,     \* history: what commands were answered, by id
  mishaps

fileResetVars ==
  <<disk, tasks, work, client, calls, outcome, avail, covers, refused, told, mishaps>>
server == <<disk, tasks, work>>
provider == <<calls, outcome, avail>>
history == <<covers, refused, told>>

Spent == {"reset", "already_redeemed"}
Free ==
  [pc |-> "free", id |-> 0, live |-> FALSE, attempt |-> 1, journal |-> EmptyJournal,
   code |-> "unknown"]

FileResetInit ==
  /\ disk = EmptyJournal /\ tasks = <<>> /\ work = Free
  /\ client = [m \in Machines |-> [asking |-> FALSE, n |-> 1]]
  /\ calls = {} /\ outcome = [k \in Requests |-> None] /\ avail = Credits
  /\ covers = [k \in Requests |-> {}] /\ refused = {} /\ told = {}
  /\ mishaps \in Mishaps

Mishap(kind) == mishaps[kind] > 0 /\ mishaps' = [mishaps EXCEPT ![kind] = @ - 1]

---------------------------------------------------------------------------
\* The machines.

Kept(m) == mishaps.ids[m][client[m].n]
Command(m) ==
  /\ ~client[m].asking /\ client[m].n <= Len(mishaps.ids[m])
  /\ client' = [client EXCEPT ![m].asking = TRUE]
  /\ tasks' = Append(tasks, [id |-> Kept(m), live |-> TRUE])
  /\ UNCHANGED <<disk, work, provider, history, mishaps>>

\* The caller goes away, or its answer does; the task goes on.
Leave(m) ==
  /\ client[m].asking /\ Mishap("leaves")
  /\ client' = [client EXCEPT ![m].asking = FALSE]
  /\ tasks' = [i \in DOMAIN tasks |->
                [tasks[i] EXCEPT !.live = @ /\ tasks[i].id # Kept(m)]]
  /\ work' = IF work.id = Kept(m) THEN [work EXCEPT !.live = FALSE] ELSE work
  /\ UNCHANGED <<disk, provider, history>>

\* Only a known outcome ends the command and its id; "unknown" keeps both.
Known == {"done", "rejected", "nothing"}
Answer(kind, code) ==
  /\ work' = Free
  /\ client' = [m \in Machines |->
       IF work.live /\ client[m].asking /\ Kept(m) = work.id
       THEN [asking |-> FALSE, n |-> client[m].n + (IF kind \in Known THEN 1 ELSE 0)]
       ELSE client[m]]
  /\ told' = IF work.live /\ kind \in Known THEN told \cup {[id |-> work.id, code |-> code]}
             ELSE told
Fail == Answer("unknown", "unknown")
\* A receipt of a reset is told as one that was already applied.
AnswerCode(code) ==
  Answer(IF code = "unknown" THEN "rejected" ELSE "done",
         IF code = "reset" THEN "already_redeemed" ELSE code)

---------------------------------------------------------------------------
\* Reader::redeem, under the Owner.

Covering(j) ==
  IF j.pending = None THEN covers
  ELSE [covers EXCEPT ![j.pending.request] = @ \cup Covers(j.pending)]
\* atomic_write: it may fail before the rename, or after it when the directory does not sync.
Write(j) == disk' = j /\ covers' = Covering(j)
WriteFails(j) ==
  /\ Mishap("writes") /\ Fail
  /\ Write(j) \/ UNCHANGED <<disk, covers>>

\* The journal is read under the lock. Mutated form: its receipts are not looked at.
ReceiptUnread(j, id) == FALSE
HasReceipt(j, id) == id \in DOMAIN j.completed
Joined(j, id) == IF j.pending = None THEN j ELSE [j EXCEPT !.pending = Join(@, id)]
Begin ==
  /\ work.pc = "free" /\ tasks # <<>> /\ tasks' = Tail(tasks)
  /\ work' = [Free EXCEPT !.pc = "journal", !.id = Head(tasks).id, !.live = Head(tasks).live,
                          !.journal = disk]
  /\ UNCHANGED <<disk, client, provider, history, mishaps>>

Look ==
  LET j == work.journal
      joined == Joined(j, work.id)
      goOn == work' = [work EXCEPT !.pc = "token", !.journal = joined]
  IN
  /\ work.pc = "journal"
  /\ \/ /\ HasReceipt(j, work.id) /\ AnswerCode(j.completed[work.id])
        /\ UNCHANGED <<disk, covers, mishaps>>
     \/ /\ ~HasReceipt(j, work.id) /\ j.pending # None /\ JoinBusy(j.pending, work.id)
        /\ Answer("busy", "unknown") /\ UNCHANGED <<disk, covers, mishaps>>
     \/ /\ ~HasReceipt(j, work.id) /\ (j.pending # None => ~JoinBusy(j.pending, work.id))
        /\ \/ goOn /\ Write(joined) /\ UNCHANGED <<client, told, mishaps>>
           \/ joined # j /\ WriteFails(joined)
  /\ UNCHANGED <<tasks, provider, refused>>

\* A token, then the provider's reads when no attempt is open: the credit that expires
\* first, under the key of this request, is on disk before the call.
\* Mutated form: it is written after the call.
IntentUnwritten(j) == UNCHANGED <<disk, covers>>
WriteIntent(j) == Write(j)
Intent ==
  LET credit == CHOOSE c \in avail : \A d \in avail : c <= d
      intended == [work.journal EXCEPT !.pending =
                     [request |-> work.id, credit |-> credit, joined |-> {}]]
  IN
  /\ work.pc = "token" /\ work.journal.pending = None
  /\ \/ /\ \/ avail = {} /\ UNCHANGED mishaps
           \/ avail # {} /\ Mishap("nothing")
        /\ Answer("nothing", "nothing_to_reset") /\ UNCHANGED <<disk, covers>>
     \/ avail # {} /\ WriteIntent(intended) /\ UNCHANGED <<client, told, mishaps>>
        /\ work' = [work EXCEPT !.pc = "send", !.journal = intended]
     \/ avail # {} /\ WriteFails(intended)
  /\ UNCHANGED <<tasks, provider, refused>>
Retry ==
  /\ work.pc = "token" /\ work.journal.pending # None
  /\ work' = [work EXCEPT !.pc = "send"]
  /\ UNCHANGED <<disk, tasks, client, provider, history, mishaps>>

Send ==
  /\ work.pc = "send" /\ work' = [work EXCEPT !.pc = "wait"]
  /\ calls' = calls \cup
       {[key |-> work.journal.pending.request, credit |-> work.journal.pending.credit]}
  /\ UNCHANGED <<disk, tasks, client, outcome, avail, history, mishaps>>

\* No answer, from the owner or the provider: the intent stays.
Lost ==
  /\ work.pc \in {"token", "wait"} /\ Mishap("lost") /\ Fail
  /\ UNCHANGED <<disk, tasks, provider, covers, refused>>

\* A rejected credential is refreshed once; a second rejection of a consuming call counts
\* as the provider's refusal of the operation.
Unauthorized ==
  /\ work.pc \in {"token", "wait"} /\ (work.pc = "token" => work.journal.pending = None)
  /\ Mishap("auth")
  /\ \/ /\ work.attempt = 1 /\ work' = [work EXCEPT !.pc = "token", !.attempt = 2]
        /\ UNCHANGED <<client, told, refused>>
     \/ work.attempt = 2 /\ work.pc = "token" /\ Fail /\ UNCHANGED refused
     \/ /\ work.attempt = 2 /\ work.pc = "wait"
        /\ work' = [work EXCEPT !.pc = "settle", !.code = "unknown"]
        /\ refused' = refused \cup {work.journal.pending.request} /\ UNCHANGED <<client, told>>
  /\ UNCHANGED <<disk, tasks, provider, covers>>
Rejected ==
  /\ work.pc = "wait" /\ Mishap("rejections")
  /\ work' = [work EXCEPT !.pc = "settle", !.code = "unknown"]
  /\ refused' = refused \cup {work.journal.pending.request}
  /\ UNCHANGED <<disk, tasks, client, provider, covers, told>>
Answered ==
  /\ work.pc = "wait" /\ outcome[work.journal.pending.request] # None
  /\ work' = [work EXCEPT !.pc = "settle", !.code = outcome[work.journal.pending.request]]
  /\ UNCHANGED <<disk, tasks, client, provider, history, mishaps>>

\* The receipts of the whole batch replace the intent.
Settled ==
  Complete([work.journal EXCEPT !.pending = None],
           Covers(work.journal.pending) \cup {work.id}, work.code)
Settle ==
  /\ work.pc = "settle"
  /\ \/ /\ Write(Settled)
        /\ Answer(IF work.code = "unknown" THEN "rejected" ELSE "done", work.code)
        /\ UNCHANGED mishaps
     \/ WriteFails(Settled)
  /\ UNCHANGED <<tasks, provider, refused>>

\* The server dies with its tasks; the journal and the calls it sent stay.
Crash ==
  /\ Mishap("crashes") /\ (tasks # <<>> \/ work # Free)
  /\ tasks' = <<>> /\ work' = Free
  /\ client' = [m \in Machines |-> [client[m] EXCEPT !.asking = FALSE]]
  /\ UNCHANGED <<disk, provider, history>>

\* External: the provider handles a key it has not seen.
Process(call) ==
  /\ outcome[call.key] = None
  /\ \E code \in {"reset", "nothing_to_reset", "unknown", "no_credit"} :
       /\ call.credit \in avail <=> code # "no_credit"
       /\ outcome' = [outcome EXCEPT ![call.key] = code]
       /\ avail' = IF code = "reset" THEN avail \ {call.credit} ELSE avail
  /\ UNCHANGED <<server, client, calls, history, mishaps>>

FileResetNext ==
  \/ \E m \in Machines : Command(m) \/ Leave(m)
  \/ Begin \/ Look \/ Intent \/ Retry \/ Send \/ Lost \/ Unauthorized \/ Rejected \/ Answered
  \/ Settle \/ Crash
  \/ \E call \in calls : Process(call)

FileResetSpec == FileResetInit /\ [][FileResetNext]_fileResetVars

---------------------------------------------------------------------------
FileResetTypeOK ==
  /\ disk \in Journals /\ work.journal \in Journals
  /\ \A m \in Machines : client[m].n \in 1..Len(mishaps.ids[m]) + 1

\* The journal has every attempt that reached the provider: its intent or its receipt,
\* until a full window of later completions replaced that.
Sent(k) == \E call \in calls : call.key = k
Forgotten(k) == k \notin DOMAIN disk.completed /\ Len(disk.order) >= ReceiptLimit
AttemptsKept ==
  \A k \in Requests : Sent(k) =>
    \/ disk.pending # None /\ disk.pending.request = k
    \/ k \in DOMAIN disk.completed \/ Forgotten(k)

\* A receipt says what the provider did, unless it stands for a refusal: an attempt whose
\* earlier call was lost may be refused later although that call spent its credit.
ReceiptsTrue ==
  \A k \in DOMAIN disk.completed : Sent(k) /\ k \notin refused => disk.completed[k] = outcome[k]

\* No id, whatever machine and attempt asked, is behind two spent credits.
OneCredit ==
  \A id \in Requests :
    Cardinality({k \in Requests : id \in covers[k] /\ outcome[k] = "reset"}) <= 1

\* A command told of a reset is covered by one.
ToldTrue ==
  \A a \in told : a.code \in Spent =>
    \E k \in Requests : a.id \in covers[k] /\ outcome[k] = "reset"

FileResetIInv == FileResetTypeOK /\ AttemptsKept /\ ReceiptsTrue /\ OneCredit /\ ToldTrue
=============================================================================
