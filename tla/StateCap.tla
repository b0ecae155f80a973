------------------------------ MODULE StateCap ------------------------------
(***************************************************************************)
(* The cap on local Codex state (src/state_cap.rs): a maintenance run      *)
(* compresses old rollouts that nobody has open into archives beside them, *)
(* under an index, and a resume restores them.  Codex itself (external)    *)
(* opens, writes and closes rollouts whenever it likes; the maintenance    *)
(* run or the resume may be killed between any two steps.                  *)
(*                                                                         *)
(* A rollout is as many versions old as Codex wrote to it.  Each rollout   *)
(* has a session of its own.  Free space and age are inputs; the SQLite    *)
(* checkpoint and the sizes that are reported are left out.                *)
(***************************************************************************)
EXTENDS Integers, Sequences, SequencesExt

CONSTANTS
  Rollouts,
  Seasons  \* bounds, of which a behaviour has one: runs, resumes, writes, kills, errors

VARIABLES
  file,    \* rollout -> its version, or Gone when it is not there; old: not written for long
  archive, \* rollout -> the version in the archive beside it, or Gone
  index,   \* entries: the session, the rollout that was archived, and its version
  torn,    \* tail: how the last line of the index ends; bad: another cannot be read
  codex,   \* external: who has the rollout open ("none", "file", "deleted"), truth: its version
  job,     \* the maintenance run or the resume that has the lock
  past,    \* history: late, rollouts opened between the last check and the deletion;
           \* glued, those whose entry was written after a cut-off line; faulted
  spare

stateCapVars == <<file, archive, index, torn, codex, job, past, spare>>

Gone == 0
NoJob == [is |-> "none", pc |-> "none", session |-> Gone, of |-> Gone, version |-> Gone,
          todo |-> <<>>]
Whole == [tail |-> "whole", bad |-> FALSE]

StateCapInit ==
  /\ file = [r \in Rollouts |-> [version |-> 1, old |-> TRUE]]
  /\ archive = [r \in Rollouts |-> Gone]
  /\ index = <<>>
  /\ torn = Whole
  /\ codex = [r \in Rollouts |-> [open |-> "none", truth |-> 1]]
  /\ job = NoJob
  /\ past = [late |-> {}, glued |-> {}, faulted |-> FALSE]
  /\ spare \in Seasons

Spend(kind) == spare[kind] > 0 /\ spare' = [spare EXCEPT ![kind] = @ - 1]
Fault == Spend("errors") /\ past' = [past EXCEPT !.faulted = TRUE]
Sound == UNCHANGED <<past, spare>>

---------------------------------------------------------------------------
\* Codex.

There(r) == file[r].version # Gone
Open(r) ==
  /\ codex[r].open = "none" /\ There(r)
  /\ codex' = [codex EXCEPT ![r].open = "file"]
  /\ past' = [past EXCEPT !.late = IF job.pc = "delete" /\ job.of = r THEN @ \cup {r} ELSE @]
  /\ UNCHANGED <<file, archive, index, torn, job, spare>>
Write(r) ==
  LET next == codex[r].truth + 1 IN
  /\ codex[r].open # "none" /\ Spend("writes")
  /\ codex' = [codex EXCEPT ![r].truth = next]
  /\ file' = IF codex[r].open = "file"
             THEN [file EXCEPT ![r] = [version |-> next, old |-> FALSE]] ELSE file
  /\ UNCHANGED <<archive, index, torn, job, past>>
Close(r) ==
  /\ codex[r].open # "none" /\ codex' = [codex EXCEPT ![r].open = "none"]
  /\ UNCHANGED <<file, archive, index, torn, job, past, spare>>
Age(r) ==
  /\ There(r) /\ ~file[r].old /\ file' = [file EXCEPT ![r].old = TRUE]
  /\ UNCHANGED <<archive, index, torn, codex, job, past, spare>>

Held(r) == codex[r].open = "file"

---------------------------------------------------------------------------
\* The index: an entry is appended in place, and removed by writing a new file.

\* A line without its end can be read, or is cut off: in its session's name, the
\* first field, or later.
Readable(t) == ~t.bad /\ t.tail \in {"whole", "open"}
Without(ix, session) == SelectSeq(ix, LAMBDA e : e.session # session)
Indexed(r) == \E i \in DOMAIN index : index[i].session = r
Unindex(session) == Readable(torn) /\ index' = Without(index, session) /\ torn' = Whole

\* A new entry shares the line of a name that was cut off, whose session is then
\* nobody's, and makes any other line without an end one that cannot be read.
\* <<index, torn>> after the write, and after one that stops short.
Leaves(w) == index' = w[1] /\ torn' = w[2]
EntryOf(r) == [session |-> IF torn.tail = "name" THEN Gone ELSE r, of |-> r, version |-> job.version]
Written(r) ==
  IF torn.tail \in {"whole", "name"}
  THEN <<Append(index, EntryOf(r)), [torn EXCEPT !.tail = "whole"]>>
  ELSE <<IF torn.tail = "open" THEN Front(index) ELSE index, [tail |-> "whole", bad |-> TRUE]>>
Stopped(r) ==
  {<<index, torn>>} \cup
    IF torn.tail \in {"whole", "name"}
    THEN {<<index, [torn EXCEPT !.tail = "name"]>>, <<index, [torn EXCEPT !.tail = "cut"]>>,
          <<Append(index, EntryOf(r)), [torn EXCEPT !.tail = "open"]>>}
    ELSE {<<IF torn.tail = "open" THEN Front(index) ELSE index, [torn EXCEPT !.tail = "cut"]>>}

At(pc) == job.pc = pc
Goto(pc) == job' = [job EXCEPT !.pc = pc]
Quit == job' = NoJob

---------------------------------------------------------------------------
\* run, and archive_rollout step by step.

Cap ==
  /\ job = NoJob /\ Spend("runs")
  /\ IF ~Readable(torn) THEN UNCHANGED job
     ELSE \E todo \in SetToSeqs({r \in Rollouts : There(r) /\ file[r].old}) :
            job' = [NoJob EXCEPT !.is = "cap", !.pc = "next", !.todo = todo]
  /\ UNCHANGED <<file, archive, index, torn, codex, past>>
\* The cap may be met already, or the space too small for an archive.
Eligible(r) == ~Held(r) /\ archive[r] = Gone
Skip == [job EXCEPT !.pc = "next", !.of = Gone, !.version = Gone]
Done ==
  /\ At("next") /\ job.todo = <<>> /\ Quit
  /\ UNCHANGED <<file, archive, index, torn, codex, past, spare>>
NextRollout ==
  LET r == Head(job.todo) IN
  /\ At("next") /\ job.todo # <<>>
  /\ \/ /\ There(r) /\ Eligible(r)
        /\ job' = [job EXCEPT !.pc = "hash", !.of = r, !.todo = Tail(@)]
     \/ job' = [job EXCEPT !.todo = Tail(@)]
  /\ UNCHANGED <<file, archive, index, torn, codex, past, spare>>
Hash ==
  /\ At("hash")
  /\ job' = IF Held(job.of) THEN Skip
            ELSE [job EXCEPT !.pc = "publish", !.version = file[job.of].version]
  /\ UNCHANGED <<file, archive, index, torn, codex, past, spare>>
\* Mutated form: what became held meanwhile is deleted.
SameVersion(r) == file[r].version = job.version
Unchanged(r) == ~Held(r) /\ file[r].version = job.version
Publish ==
  LET r == job.of IN
  /\ At("publish")
  /\ \/ /\ Unchanged(r) /\ archive' = [archive EXCEPT ![r] = job.version] /\ Goto("index")
        /\ Sound
     \/ ~Unchanged(r) /\ job' = Skip /\ UNCHANGED archive /\ Sound
     \/ job' = Skip /\ UNCHANGED archive /\ Fault
  /\ UNCHANGED <<file, index, torn, codex>>
\* The write or a sync fails, maybe with the line in part written: the archive goes, and
\* the entry as well if the index can be read and written again.
Append_index ==
  LET r == job.of IN
  /\ At("index")
  /\ \/ /\ Leaves(Written(r)) /\ Goto("recheck") /\ UNCHANGED <<archive, spare>>
        /\ past' = [past EXCEPT !.glued = IF torn.tail = "whole" THEN @ \ {r} ELSE @ \cup {r}]
     \/ /\ archive' = [archive EXCEPT ![r] = Gone] /\ job' = Skip /\ Fault
        /\ \E w \in Stopped(r) \cup {Written(r)} :
             \/ Leaves(w)
             \/ Readable(w[2]) /\ Leaves(<<Without(w[1], r), Whole>>)
  /\ UNCHANGED <<file, codex>>
\* What changed after all keeps its file, and loses its archive and its entry.
Recheck ==
  LET r == job.of IN
  /\ At("recheck")
  /\ IF Unchanged(r) THEN Goto("delete") /\ UNCHANGED <<archive, index, torn>> /\ Sound
     ELSE /\ archive' = [archive EXCEPT ![r] = Gone] /\ job' = Skip
          /\ \/ Unindex(r) /\ Sound
             \/ UNCHANGED <<index, torn>> /\ IF Readable(torn) THEN Fault ELSE Sound
  /\ UNCHANGED <<file, codex>>
Delete ==
  LET r == job.of IN
  /\ At("delete") /\ job' = Skip
  /\ file' = [file EXCEPT ![r] = [version |-> Gone, old |-> FALSE]]
  /\ codex' = [codex EXCEPT ![r].open = IF @ = "file" THEN "deleted" ELSE @]
  /\ UNCHANGED <<archive, index, torn, past, spare>>

---------------------------------------------------------------------------
\* restore_before_codex_resume, for one session or, before --last, for all.

First(r) == index[CHOOSE i \in DOMAIN index :
                    index[i].session = r /\ \A j \in 1..(i - 1) : index[j].session # r]
Resume(todo) ==
  /\ job = NoJob /\ Spend("resumes")
  /\ job' = IF ~Readable(torn) \/ todo = <<>> THEN job
            ELSE [NoJob EXCEPT !.is = "resume", !.pc = "entry", !.todo = todo]
  /\ UNCHANGED <<file, archive, index, torn, codex, past>>
ResumeOne(r) == Resume(IF Indexed(r) THEN <<First(r)>> ELSE <<>>)
ResumeLast == Resume(index)

Onward == [job EXCEPT !.pc = "entry", !.session = Gone, !.of = Gone, !.version = Gone]
\* A rollout that is there as it was archived gives up archive and entry; any other is refused.
Entry ==
  LET e == Head(job.todo)
      r == e.of
  IN
  /\ At("entry")
  /\ IF job.todo = <<>> THEN Quit /\ UNCHANGED <<archive, index, torn>> /\ Sound
     ELSE IF There(r)
     THEN IF Held(r) \/ file[r].version # e.version
          THEN Quit /\ UNCHANGED <<archive, index, torn>> /\ Sound
          ELSE /\ archive' = [archive EXCEPT ![r] = Gone]
               /\ job' = [job EXCEPT !.todo = Tail(@)]
               /\ \/ Unindex(e.session) /\ Sound
                  \/ UNCHANGED <<index, torn>> /\ Fault
     ELSE /\ \/ /\ archive[r] # Gone
                /\ job' = [job EXCEPT !.pc = "restore", !.session = e.session, !.of = r,
                                      !.version = e.version, !.todo = Tail(@)]
             \/ \* no archive, or not enough space
                Quit
          /\ UNCHANGED <<archive, index, torn>> /\ Sound
  /\ UNCHANGED <<file, codex>>
\* The archive is expanded and verified, and linked into place.
Restore ==
  LET r == job.of IN
  /\ At("restore")
  /\ IF archive[r] = job.version /\ ~There(r)
     THEN /\ file' = [file EXCEPT ![r] = [version |-> job.version, old |-> FALSE]]
          /\ Goto("unindex")
     ELSE Quit /\ UNCHANGED file
  /\ UNCHANGED <<archive, index, torn, codex, past, spare>>
\* The entry goes before the archive. Mutated form: the archive is removed first.
ArchiveFirst == archive' = [archive EXCEPT ![job.of] = Gone] /\ UNCHANGED <<index, torn>>
EntryFirst == Unindex(job.session) /\ UNCHANGED archive
Unindexed ==
  /\ At("unindex")
  /\ \/ EntryFirst /\ Goto("unarchive") /\ Sound
     \/ Quit /\ UNCHANGED <<archive, index, torn>> /\ Fault
  /\ UNCHANGED <<file, codex>>
Unarchive ==
  /\ At("unarchive") /\ job' = Onward
  /\ \/ archive' = [archive EXCEPT ![job.of] = Gone] /\ Sound
     \/ UNCHANGED archive /\ Fault
  /\ UNCHANGED <<file, index, torn, codex>>

\* The process is killed, maybe in the middle of a line of the index.
Kill ==
  /\ job # NoJob /\ Spend("kills") /\ Quit
  /\ past' = [past EXCEPT !.faulted = TRUE]
  /\ \E w \in IF At("index") THEN Stopped(job.of) ELSE {<<index, torn>>} : Leaves(w)
  /\ UNCHANGED <<file, archive, codex>>

StateCapNext ==
  \/ Cap \/ Done \/ NextRollout \/ Hash \/ Publish \/ Append_index \/ Recheck \/ Delete
  \/ ResumeLast \/ Entry \/ Restore \/ Unindexed \/ Unarchive \/ Kill
  \/ \E r \in Rollouts :
       Open(r) \/ Write(r) \/ Close(r) \/ Age(r) \/ ResumeOne(r)

StateCapSpec == StateCapInit /\ [][StateCapNext]_stateCapVars

---------------------------------------------------------------------------
CapTypeOK ==
  /\ \A r \in Rollouts :
       /\ file[r].version \in 0..codex[r].truth /\ archive[r] \in 0..codex[r].truth
       /\ codex[r].open = "file" => There(r)
  /\ job = NoJob \/ job.is \in {"cap", "resume"}

\* Only Codex that opened a rollout after the last check writes to one that is deleted.
HeldKept == \A r \in Rollouts : codex[r].open = "deleted" => r \in past.late

\* Whatever is killed or fails, what Codex wrote is in the rollout, or in an archive that the
\* index names, unless its entry was written after a line that was cut off; a rollout that is
\* there is never an older one.
RolloutKept ==
  \A r \in Rollouts \ past.late :
    IF There(r) THEN file[r].version = codex[r].truth
    ELSE /\ archive[r] = codex[r].truth
         /\ \/ r \in past.glued
            \/ \E i \in DOMAIN index :
                 index[i] = [session |-> r, of |-> r, version |-> codex[r].truth]

\* At rest, when nothing failed, archive and entry are there exactly while the rollout is not,
\* once: no resume is refused for what an earlier run left behind.
IndexExact ==
  job = NoJob /\ ~past.faulted =>
    \A r \in Rollouts \ past.late :
      /\ (archive[r] = Gone) = There(r)
      /\ Len(SelectSeq(index, LAMBDA e : e.of = r)) = IF There(r) THEN 0 ELSE 1

StateCapIInv == CapTypeOK /\ HeldKept /\ RolloutKept /\ IndexExact
=============================================================================
