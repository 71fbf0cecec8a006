-------------------------------- MODULE Rdb --------------------------------
(***************************************************************************)
(* Snapshots of a master: the counter of changes, BGSAVE in a child        *)
(* process, the file that the child writes in place, SIGCHLD, the two      *)
(* SIGINTs, crashes and restarts (rdb.c, serverCron and the signal         *)
(* handlers of redis.c).                                                   *)
(*                                                                         *)
(* The server is one thread that signal handlers interrupt between any two *)
(* of its steps, pc naming the step that is next.  A child is the image of *)
(* the database it was forked with and how far it got with the file.       *)
(* MaxSize is the room for values in RDB_MAX_SIZE, the part of a file the  *)
(* checksum is taken of; a number takes none of it.  Tested are the values *)
(* that are written and read back to see whether they stay the same, next  *)
(* to those that get into the file.                                        *)
(***************************************************************************)
EXTENDS RdbFormat, FiniteSetsExt

CONSTANTS Keys, Values, None, Pids, MaxSize, MaxDirty, Tested

ASSUME ValuesAssumption == Values \subseteq Objects /\ None \notin Objects
ASSUME TestedAssumption == Tested \subseteq Objects
ASSUME PidsAssumption == Pids \subseteq Nat \ {0}
ASSUME BoundsAssumption == MaxSize \in Nat /\ MaxDirty \in Nat \ {0}

VARIABLES
  up,            \* the server process runs
  pc, tmp,       \* its next step, and what the step before left in a register
  db,            \* [kv, expires]: the values, and the keys with a deadline
  dirty, isBgSaving, rdbChildPid, shutdownAsap,
  due,           \* ten seconds have passed since lastSave
  children,      \* the children that run or wait to be reaped
  file,          \* server->rdbfile: it outlives every process
  lost,          \* ghost: a fork failed, or a child was reaped before its pid was stored
  excused        \* ghost: the last save missed a change, or did not write its file

memory == <<db, dirty, isBgSaving, rdbChildPid, shutdownAsap, due>>
vars == <<up, pc, tmp, memory, children, file, lost, excused>>

Database == [kv : [Keys -> Objects \cup {None}], expires : SUBSET Keys]
EmptyDatabase == [kv |-> [k \in Keys |-> None], expires |-> {}]

Present(d) == {k \in Keys : d.kv[k] # None}

Size(obj) == IF obj.kind = "raw" THEN obj.n ELSE 0
Big(d) == MapThenSumSet(LAMBDA k : Size(d.kv[k]), Present(d)) > MaxSize

\* The database that rdbLoad builds from the image of d: values as they are
\* read back, deadlines only of keys that are there.
Reloaded(d) ==
  [kv      |-> [k \in Keys |-> IF d.kv[k] = None THEN None ELSE Reread(d.kv[k])],
   expires |-> d.expires \cap Present(d)]

(***************************************************************************)
(* The file.  fopen("w+") empties it; the body arrives with fflush, or in  *)
(* pieces when it is larger than the stream's buffer; then the checksum.   *)
(***************************************************************************)
EmptyFile == [part |-> "empty", image |-> EmptyDatabase]

\* rdbLoad returns with an empty database when there is no magic, and ends
\* the process when the body or the checksum is not all there.  The checksum
\* is of the first RDB_MAX_SIZE bytes when written, of all when read.
Loadable(f) == f.part = "empty" \/ (f.part = "complete" /\ ~Big(f.image))
rdbLoad(f) == Reloaded(f.image)

(***************************************************************************)
(* Commands.  Each changes the database and then does dirty++, a load and  *)
(* a store: SIGCHLD may come in between.                                   *)
(***************************************************************************)
\* A change while a child writes is one that its file will not have.
Changes(d) ==
  /\ up /\ pc = "loop" /\ dirty < MaxDirty
  /\ db' = d
  /\ pc' = "dirty" /\ tmp' = dirty
  /\ excused' = (excused \/ children # {})
  /\ UNCHANGED <<up, dirty, isBgSaving, rdbChildPid, shutdownAsap, due, children, file, lost>>

commandSetProc(k, v) == Changes([db EXCEPT !.kv[k] = v])
commandDelProc(k) == k \in Present(db) /\ Changes([db EXCEPT !.kv[k] = None])
commandExpireProc(k) == k \notin db.expires /\ Changes([db EXCEPT !.expires = @ \cup {k}])

StoreDirty ==
  /\ up /\ pc = "dirty"
  /\ dirty' = tmp + 1
  /\ pc' = "loop" /\ tmp' = 0
  /\ UNCHANGED <<up, db, isBgSaving, rdbChildPid, shutdownAsap, due, children, file, lost, excused>>

\* A value past its deadline goes with the next access; nobody counts that.
expireIfNeed(k) ==
  /\ up /\ pc = "loop" /\ k \in db.expires \cap Present(db)
  /\ db' = [db EXCEPT !.kv[k] = None]
  /\ UNCHANGED <<up, pc, tmp, dirty, isBgSaving, rdbChildPid, shutdownAsap, due, children,
                 file, lost, excused>>

(***************************************************************************)
(* serverCron of a master and bgsave.                                      *)
(***************************************************************************)
\* Mutant: the test of isBgSaving is forgotten.
NeedsSaveAlways == due /\ dirty >= 1

\* Mutant: "more than" one change.
NeedsTwoChanges == ~isBgSaving /\ due /\ dirty > 1

\* Of the three conditions of initServerConfig, "one change in ten seconds"
\* holds whenever another does.
bgSaveIfNeeded == ~isBgSaving /\ due /\ dirty >= 1

Step(from, to) == up /\ pc = from /\ pc' = to

serverCron ==
  /\ Step("loop", IF bgSaveIfNeeded THEN "fork" ELSE "cron")
  /\ UNCHANGED <<up, tmp, memory, children, file, lost, excused>>

\* The end of serverCron, with prepareShutdown when SIGINT has asked for it.
EndOfCron ==
  /\ Step("cron", IF ~shutdownAsap THEN "loop"
                  ELSE IF bgSaveIfNeeded THEN "lastfork" ELSE "exit")
  /\ UNCHANGED <<up, tmp, memory, children, file, lost, excused>>

Forking == pc \in {"fork", "lastfork"}

\* A child of an earlier run of the server has ended by now: saves are ten
\* seconds apart.
OrphansFinishFirst == \A c \in children : ~c.orphan

\* The child starts with the database of this moment.
Fork(pid) ==
  /\ up /\ Forking /\ OrphansFinishFirst
  /\ \A c \in children : c.pid # pid
  /\ children' = children \cup
       {[pid |-> pid, image |-> db, stage |-> "open", ok |-> FALSE, orphan |-> FALSE]}
  /\ tmp' = pid
  /\ pc' = IF pc = "fork" THEN "pid" ELSE "lastpid"
  /\ excused' = FALSE
  /\ UNCHANGED <<up, memory, file, lost>>

\* isBgSaving is set even so, and rdbChildPid to -1.
ForkFails ==
  /\ up /\ Forking
  /\ tmp' = -1
  /\ pc' = IF pc = "fork" THEN "pid" ELSE "lastpid"
  /\ lost' = TRUE
  /\ UNCHANGED <<up, memory, children, file, excused>>

StorePid ==
  /\ up /\ pc \in {"pid", "lastpid"}
  /\ rdbChildPid' = tmp /\ tmp' = 0
  /\ pc' = IF pc = "pid" THEN "saving" ELSE "lastsaving"
  /\ UNCHANGED <<up, db, dirty, isBgSaving, shutdownAsap, due, children, file, lost, excused>>

StoreSaving ==
  /\ up /\ pc \in {"saving", "lastsaving"}
  /\ isBgSaving' = TRUE
  /\ pc' = IF pc = "saving" THEN "cron" ELSE "exit"
  /\ UNCHANGED <<up, tmp, db, dirty, rdbChildPid, shutdownAsap, due, children, file, lost, excused>>

(***************************************************************************)
(* Signals.                                                                *)
(***************************************************************************)
Zombies == {c \in children : c.stage = "zombie"}

\* Mutant: the pid is reset to 0, which stands for no child in fork's result.
ReapToZero(c) ==
  IF c.pid = rdbChildPid
    THEN /\ rdbChildPid' = 0 /\ dirty' = 0 /\ isBgSaving' = FALSE
         /\ due' \in IF c.ok THEN BOOLEAN ELSE {due}
    ELSE UNCHANGED <<rdbChildPid, dirty, isBgSaving, due>>

\* dirty goes to 0 whatever happened since the fork and however the child
\* ended.  lastSave is set to unixtime, up to ten seconds ago.
Reap(c) ==
  IF c.pid = rdbChildPid
    THEN /\ rdbChildPid' = -1 /\ dirty' = 0 /\ isBgSaving' = FALSE
         /\ due' \in IF c.ok THEN BOOLEAN ELSE {due}
    ELSE UNCHANGED <<rdbChildPid, dirty, isBgSaving, due>>

\* SIGCHLD comes at any step of the server; waitpid takes one child at a time.
sigChildHandler(c) ==
  /\ up /\ c \in Zombies
  /\ Reap(c)
  /\ children' = children \ {c}
  /\ lost' = (lost \/ pc \in {"pid", "lastpid", "saving", "lastsaving"})
  /\ UNCHANGED <<up, pc, tmp, db, shutdownAsap, file, excused>>

\* The first SIGINT asks serverCron to save and exit.
sigIntHandler ==
  /\ up /\ ~shutdownAsap
  /\ shutdownAsap' = TRUE
  /\ UNCHANGED <<up, pc, tmp, db, dirty, isBgSaving, rdbChildPid, due, children, file, lost, excused>>

TimePasses ==
  /\ up /\ ~due /\ due' = TRUE
  /\ UNCHANGED <<up, pc, tmp, db, dirty, isBgSaving, rdbChildPid, shutdownAsap, children,
                 file, lost, excused>>

(***************************************************************************)
(* The end of the process, and its start.                                  *)
(***************************************************************************)
\* Nobody waits for the children; those that have ended are gone.
Down ==
  /\ up' = FALSE /\ pc' = "loop" /\ tmp' = 0
  /\ children' = {[c EXCEPT !.orphan = TRUE] : c \in children \ Zombies}
  /\ db' = EmptyDatabase
  /\ dirty' = 0 /\ isBgSaving' = FALSE /\ rdbChildPid' = -1
  /\ shutdownAsap' = FALSE /\ due' = FALSE
  /\ lost' = FALSE /\ excused' = FALSE
  /\ UNCHANGED file

prepareShutdown == up /\ pc = "exit" /\ Down

\* The second SIGINT, or any other end the server does not choose.
Crash == up /\ Down

\* With a file that rdbLoad cannot read the process ends again.
initServer ==
  /\ ~up /\ Loadable(file)
  /\ up' = TRUE
  /\ db' = rdbLoad(file)
  /\ excused' = (children # {})
  /\ UNCHANGED <<pc, tmp, dirty, isBgSaving, rdbChildPid, shutdownAsap, due, children, file, lost>>

(***************************************************************************)
(* rdbSave, in the child.                                                  *)
(***************************************************************************)
Server == <<up, pc, tmp, memory, lost>>

At(c, stage) == c \in children /\ c.stage = stage

Goes(c, stage) == children' = (children \ {c}) \cup {[c EXCEPT !.stage = stage]}

\* The process ends: with a parent it stays until it is reaped.
Ends(c, ok) ==
  children' = (children \ {c}) \cup
    IF c.orphan THEN {} ELSE {[c EXCEPT !.stage = "zombie", !.ok = ok]}

\* Without a file rdbSave returns, and the child exits with 0.
OpenFails(c) ==
  /\ At(c, "open") /\ Ends(c, TRUE)
  /\ excused' = TRUE
  /\ UNCHANGED <<Server, file>>

Open(c) ==
  /\ At(c, "open") /\ Goes(c, "body")
  /\ file' = EmptyFile
  /\ UNCHANGED <<Server, excused>>

\* The stream's buffer is full before the body is.
WritePart(c) ==
  /\ At(c, "body") /\ Big(c.image) /\ file.part = "empty"
  /\ file' = [part |-> "torn", image |-> EmptyDatabase]
  /\ UNCHANGED <<Server, children, excused>>

WriteBody(c) ==
  /\ At(c, "body") /\ Goes(c, "hash")
  /\ file' = [part |-> "body", image |-> c.image]
  /\ UNCHANGED <<Server, excused>>

\* The disk is full: reading back an empty file fails an assertion; with a
\* part of the body there the child goes on, and exits with 0.
WriteBodyFails(c) ==
  /\ At(c, "body") /\ Ends(c, file.part # "empty")
  /\ excused' = TRUE
  /\ UNCHANGED <<Server, file>>

\* Mutant: the checksum takes the place of the body.
WriteHashOver(c) ==
  /\ At(c, "hash") /\ Ends(c, TRUE)
  /\ file' = [part |-> "complete", image |-> EmptyDatabase]
  /\ UNCHANGED <<Server, excused>>

WriteHash(c) ==
  /\ At(c, "hash") /\ Ends(c, TRUE)
  /\ file' = [part |-> "complete", image |-> c.image]
  /\ UNCHANGED <<Server, excused>>

WriteHashFails(c) ==
  /\ At(c, "hash") /\ Ends(c, TRUE)
  /\ excused' = TRUE
  /\ UNCHANGED <<Server, file>>

\* SIGINT reaches the child as well, and the system may run out of memory.
ChildDies(c) ==
  /\ c \in children \ Zombies /\ Ends(c, FALSE)
  /\ excused' = TRUE
  /\ UNCHANGED <<Server, file>>

rdbSave(c) ==
  \/ OpenFails(c) \/ Open(c)
  \/ WritePart(c) \/ WriteBody(c) \/ WriteBodyFails(c)
  \/ WriteHash(c) \/ WriteHashFails(c)

(***************************************************************************)
(* The specification.                                                      *)
(***************************************************************************)
Init ==
  /\ up = TRUE /\ pc = "loop" /\ tmp = 0
  /\ db = EmptyDatabase
  /\ dirty = 0 /\ isBgSaving = FALSE /\ rdbChildPid = -1
  /\ shutdownAsap = FALSE /\ due = FALSE
  /\ children = {} /\ file = EmptyFile
  /\ lost = FALSE /\ excused = FALSE

Command ==
  \E k \in Keys :
    \/ \E v \in Values : commandSetProc(k, v)
    \/ commandDelProc(k)
    \/ commandExpireProc(k)
    \/ expireIfNeed(k)

\* What the server does on its own once a handler has begun.
Continues ==
  \/ StoreDirty
  \/ EndOfCron
  \/ \E pid \in Pids : Fork(pid)
  \/ StorePid
  \/ StoreSaving
  \/ prepareShutdown

Next ==
  \/ Command
  \/ serverCron
  \/ Continues
  \/ ForkFails
  \/ sigIntHandler
  \/ TimePasses
  \/ Crash
  \/ initServer
  \/ \E c \in children : sigChildHandler(c) \/ rdbSave(c) \/ ChildDies(c)

Spec == Init /\ [][Next]_vars

(***************************************************************************)
(* A thread that has begun a handler goes on; the timer is served between  *)
(* commands, however many there are; signals are delivered; children run.  *)
(***************************************************************************)
Fairness ==
  /\ WF_vars(Continues)
  /\ SF_vars(serverCron)
  /\ WF_vars(TimePasses)
  /\ WF_vars(\E c \in children : sigChildHandler(c))
  /\ WF_vars(\E c \in children : rdbSave(c))

FairSpec == Spec /\ Fairness

(***************************************************************************)
(* Properties.                                                             *)
(***************************************************************************)
Child ==
  [pid : Pids, image : Database, stage : {"open", "body", "hash", "zombie"},
   ok : BOOLEAN, orphan : BOOLEAN]

TypeOK ==
  /\ up \in BOOLEAN /\ tmp \in Int
  /\ pc \in {"loop", "dirty", "cron", "fork", "pid", "saving",
             "lastfork", "lastpid", "lastsaving", "exit"}
  /\ db \in Database
  /\ dirty \in 0 .. MaxDirty
  /\ isBgSaving \in BOOLEAN
  /\ rdbChildPid \in Pids \cup {-1}
  /\ shutdownAsap \in BOOLEAN /\ due \in BOOLEAN
  /\ children \subseteq Child
  /\ file \in [part : {"empty", "torn", "body", "complete"}, image : Database]
  /\ lost \in BOOLEAN /\ excused \in BOOLEAN

\* isBgSaving stands for a child that will end and clear it, unless fork
\* failed or the child was reaped before bgsave had stored what it stands for;
\* and two processes never write the file at the same time.
OneSave ==
  /\ up /\ isBgSaving /\ ~lost => \E c \in children : c.pid = rdbChildPid /\ ~c.orphan
  /\ Cardinality({c \in children : c.stage \in {"body", "hash"}}) <= 1

\* What d and the database of a reload may differ in: a value that its
\* deadline has taken away, a value as it is read back.
Agrees(loaded, d) ==
  \A k \in Keys :
    \/ d.kv[k] = None /\ k \in d.expires
    \/ /\ loaded.kv[k] \in {d.kv[k]} \cup (IF d.kv[k] = None THEN {} ELSE {Reread(d.kv[k])})
       /\ d.kv[k] # None => (k \in loaded.expires <=> k \in d.expires)

\* Without a change counted, the file has the database, so that a restart
\* brings it back: except after a change during the save, a save that ended
\* without its file, and for a file that does not fit.
CleanIsSaved ==
  up /\ pc = "loop" /\ children = {} /\ dirty = 0 /\ ~excused /\ ~lost /\ ~Big(file.image) =>
    Loadable(file) /\ Agrees(rdbLoad(file), db)

\* A change counted while no child runs gets into the next snapshot, as long
\* as it stands and bgsave does not fail.
Snapshots == {c.image : c \in children} \cup {file.image}
ChangeGetsSaved ==
  \A k \in Keys : \A v \in Values \cup {None} :
    (up /\ pc = "loop" /\ children = {} /\ dirty > 0 /\ db.kv[k] = v)
      ~> (\/ ~up \/ lost \/ db.kv[k] # v
          \/ \E image \in Snapshots : image.kv[k] = v)

\* Which values come back as they were, in the file or among those tested, and
\* the lengths of keys in all three forms.  The marks of lengths and of integers
\* share their first byte: a string is never taken for a number as long as it is
\* shorter than 2^14.
InFile == {file.image.kv[k] : k \in Present(file.image)}
RereadExact ==
  /\ \A obj \in Tested \cup InFile : Reread(obj) = obj <=> Survives(obj)
  /\ LengthsSurvive({obj.n : obj \in {x \in Tested : x.kind = "raw"}})

\* redis.h says of dirty: "the number of changes since the last SAVE".
UnsavedIsDirty ==
  up /\ pc = "loop" /\ children = {} /\ dirty = 0 /\ ~Big(file.image) =>
    Loadable(file) /\ Agrees(rdbLoad(file), db)
=============================================================================
