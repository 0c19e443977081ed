------------------------------ MODULE FileCopy ------------------------------
(***************************************************************************)
(* The Job of a file restore.  It walks the chosen paths of a backup and   *)
(* writes them to a destination: a hidden staging folder of an existing    *)
(* claim, which a commit moves to a name that does not exist, or the       *)
(* folder of a new claim.  A restore from a VM's disk runs in two          *)
(* containers: a reader, and a writer that holds the destination.  The     *)
(* container is started again after a stop, and the controller reads the   *)
(* outcome from the termination messages.                                  *)
(***************************************************************************)
EXTENDS Integers, Sequences, SequencesExt, FiniteSets, FiniteSetsExt

CONSTANTS
  Tree,       \* [path -> type and size]; a path is a sequence of names
  Requests,   \* the restores: chosen paths, mode, through a writer or not, room in bytes
  Tries,      \* starts of the container that the Job makes
  Again,      \* a folder listed twice through one descriptor shows its entries again
  Heard,      \* the controller gets the termination messages
  Persons,    \* bound: folders a person makes in the claim
  Troubles    \* bound: stops, kills, failed writes and failed saves

VARIABLES
  req,      \* the restore
  reader,   \* the main container: where it is, and the next call it makes
  writer,   \* the writer container, or the destination in the main container
  root,     \* what the root of the destination holds; NoRoot without one
  read,     \* the root's descriptor has been listed to its end
  folders,  \* the claim's other folders, by number of their name: their contents
  tries,    \* starts of the container
  message,  \* termination message of the main container
  outcome,  \* termination message of the writer
  phase,    \* status.phase of the BackupFileRestore
  rough,    \* a container was killed, or a status save failed
  persons, trouble

job == <<reader, writer, tries, message, outcome>>
dest == <<root, read, folders>>
vars == <<req, job, dest, phase, rough, persons, trouble>>

NoRoot == {[path |-> <<>>, done |-> FALSE]}
Person == {<<"person's file">>}
Names == 1 .. Persons + Tries + Troubles + 1
---------------------------------------------------------------------------
(* Walking the backup *)

Paths == DOMAIN Tree
IsDir(p) == Tree[p].type \in {"dir", "locked"}    \* "locked": may not be listed
Children(p) == {q \in Paths : Len(q) = Len(p) + 1 /\ IsPrefix(p, q)}

\* A folder comes before everything in it; a path named twice counts once.
normalize(chosen) == SetToSortSeq(chosen, LAMBDA p, q : Len(p) < Len(q))

coveredBy(p, trees) == \E t \in trees : IsPrefix(t, p)

Trees(chosen) == {p \in chosen \cap Paths : IsDir(p)}
Tops(chosen) ==
  SelectSeq(normalize(chosen), LAMBDA p : ~coveredBy(p, Trees(chosen) \ {p}))

Readable(p) == p \in Paths /\ Tree[p].type \in {"file", "link", "dir"}

Below(p) == {q \in Paths : IsPrefix(p, q) /\
               \A n \in Len(p) .. Len(q) - 1 : Tree[SubSeq(q, 1, n)].type = "dir"}

\* A chosen path that is missing, special or not readable refuses the restore.
Measure(chosen) ==
  LET files == UNION {{q \in Below(t) : Tree[q].type = "file"} : t \in ToSet(Tops(chosen))} IN
  [ok |-> chosen # {} /\ \A t \in ToSet(Tops(chosen)) : Readable(t),
   bytes |-> MapThenSumSet(LAMBDA q : Tree[q].size, files)]

\* Entries below a chosen folder that are special or not readable are left out.
RECURSIVE copy(_)
copy(p) ==
  LET inside == FlattenSeq([n \in 1 .. Cardinality(Children(p)) |-> copy(SetToSeq(Children(p))[n])])
  IN CASE Tree[p].type = "file" -> <<[call |-> "Create", path |-> p]>>
       [] Tree[p].type = "link" -> <<[call |-> "Symlink", path |-> p]>>
       [] Tree[p].type = "locked" -> <<[call |-> "Mkdir", path |-> p], [call |-> "FinishDir", path |-> p]>>
       [] Tree[p].type = "dir" /\ p = <<>> -> inside
       [] Tree[p].type = "dir" -> <<[call |-> "Mkdir", path |-> p]>> \o inside
                                    \o <<[call |-> "FinishDir", path |-> p]>>
       [] OTHER -> <<>>

\* The folders above a path that no earlier path made.
ensureAbove(p, made) ==
  SelectSeq(IF p = <<>> THEN <<>> ELSE [n \in 1 .. Len(p) - 1 |-> [call |-> "Mkdir", path |-> SubSeq(p, 1, n)]],
            LAMBDA c : c.path \notin made)

\* run: the paths in order; then the folders above them, innermost first; then
\* the root.
run(chosen) ==
  LET tops == Tops(chosen)
      above(n) == UNION {{SubSeq(tops[i], 1, k) : k \in 1 .. Len(tops[i]) - 1} : i \in 1 .. n}
      walked == FlattenSeq([n \in 1 .. Len(tops) |-> ensureAbove(tops[n], above(n - 1)) \o copy(tops[n])])
      made == FlattenSeq([n \in 1 .. Len(tops) |-> ensureAbove(tops[n], above(n - 1))])
  IN walked \o [n \in 1 .. Len(made) |-> [call |-> "FinishDir", path |-> made[Len(made) + 1 - n].path]]
            \o <<[call |-> "FinishDir", path |-> <<>>]>>

\* What a restore is to write, without the order.
Wanted(chosen) ==
  LET on(t) == {SubSeq(t, 1, n) : n \in 1 .. Len(t) - 1} IN
  UNION {{q \in Below(t) : Tree[q].type \in {"file", "link", "dir", "locked"}} \cup on(t) :
           t \in chosen} \ {<<>>}
\* The plan of each restore: whether it is refused, and the calls it makes.
Plan ==
  [chosen \in {r.chosen : r \in Requests} |->
     LET m == Measure(chosen) IN
     [ok |-> m.ok, bytes |-> m.bytes, calls |-> IF m.ok THEN run(chosen) ELSE <<>>,
      wanted |-> IF m.ok THEN Wanted(chosen) ELSE {}]]
---------------------------------------------------------------------------
(* The destination *)

Made == IF root = NoRoot THEN {} ELSE {e.path : e \in root}
Finished == IF root = NoRoot THEN {} ELSE {e.path : e \in {d \in root : d.done}}
Parent(p) == SubSeq(p, 1, Len(p) - 1)

\* A name that exists is an error, and a finished folder may take no more.
fits(c) ==
  IF c.call = "FinishDir" THEN c.path = <<>> \/ c.path \in Made
  ELSE c.path \notin Made /\ (Parent(c.path) = <<>> \/ Parent(c.path) \in Made \ Finished)

apply(c) ==
  CASE c.call = "FinishDir" -> {IF e.path = c.path THEN [e EXCEPT !.done = TRUE] ELSE e : e \in root}
    [] OTHER -> root \cup {[path |-> c.path, done |-> c.call # "Mkdir"]}

\* One call of the walk, made on the destination itself or through the writer.
handle(c) == fits(c) /\ root' = apply(c) /\ UNCHANGED <<read, folders>>

\* What the capacity of the volume and the share leave.
Free == req.room

\* removeChildren lists the root through a copy of its descriptor, which has the
\* position of the descriptor.
wipe == IF read /\ ~Again THEN root ELSE {}

Abort ==
  /\ root' = IF req.mode = "new" THEN wipe ELSE NoRoot
  /\ read' = (req.mode = "new") /\ UNCHANGED folders

\* NewVolumeDest empties the folder; NewFolderDest replaces a staging folder
\* that an earlier try left.
openDest == root' = {} /\ read' = (req.mode = "new") /\ UNCHANGED folders
---------------------------------------------------------------------------
NotRun == [at |-> "start", next |-> 1, name |-> 0]

Init ==
  /\ req \in Requests
  /\ reader = NotRun /\ writer = IF req.guest THEN "listens" ELSE "none"
  /\ root = (IF req.mode = "new" THEN {} ELSE NoRoot) /\ read = FALSE /\ folders = <<>>
  /\ tries = 1 /\ message = "none" /\ outcome = "none"
  /\ phase = "Restoring" /\ rough = FALSE
  /\ persons = 0 /\ trouble = 0

Disturb == trouble < Troubles /\ trouble' = trouble + 1
Calm == UNCHANGED trouble
Rest == UNCHANGED <<req, phase, rough, persons>>

Calls == Plan[req.chosen].calls
To(at) == reader' = [reader EXCEPT !.at = at]

\* The writer ends, and leaves a message with what it wrote.
MainWriter == writer' = "ended" /\ outcome' = "said"

\* The writer hears that the reader has ended the session: what it did not
\* commit it removes.
EndSession ==
  /\ IF writer \in {"serves", "committed"} THEN MainWriter
     ELSE UNCHANGED <<writer, outcome>>
  /\ IF writer = "serves" THEN Abort ELSE UNCHANGED dest

\* A failure the Job has decided on: what was written is removed, and the Job
\* ends well, with the reason in its message.
fail == To("ended") /\ message' = "reason" /\ UNCHANGED tries

\* The writer opens the destination once the reader has come.
RunWriter == writer = "listens" /\ openDest /\ writer' = "serves"

\* A reader that was started again finds no writer.
DialWriter ==
  /\ req.guest /\ reader.at = "start" /\ Calm /\ Rest
  /\ \/ /\ RunWriter /\ To("backup") /\ UNCHANGED <<tries, message, outcome>>
     \/ /\ writer = "ended" /\ fail /\ UNCHANGED <<dest, writer, outcome>>

openBackup ==
  /\ reader.at = (IF req.guest THEN "backup" ELSE "start") /\ Rest
  /\ \/ /\ Calm /\ To("dest") /\ UNCHANGED <<writer, tries, message, outcome, dest>>
     \/ /\ Disturb /\ fail /\ EndSession

\* openDest, and the checks of Restore before it writes.
beginRestore ==
  LET m == Plan[req.chosen] IN
  /\ reader.at = "dest" /\ Calm /\ Rest
  /\ \/ /\ m.ok /\ m.bytes <= Free
        /\ To("write") /\ UNCHANGED <<writer, tries, message, outcome>>
        /\ IF req.guest THEN UNCHANGED dest ELSE openDest
     \/ /\ ~m.ok \/ m.bytes > Free
        /\ fail /\ UNCHANGED folders
        /\ root' = (IF req.mode = "new" THEN {} ELSE NoRoot) /\ read' = (req.mode = "new")
        /\ IF req.guest THEN MainWriter ELSE UNCHANGED <<writer, outcome>>

\* One call of the walk.  A write may fail: the destination is aborted.
write ==
  /\ reader.at = "write" /\ reader.next <= Len(Calls) /\ Rest
  /\ \/ /\ handle(Calls[reader.next]) /\ Calm
        /\ reader' = [reader EXCEPT !.next = @ + 1]
        /\ UNCHANGED <<writer, tries, message, outcome>>
     \/ /\ ~fits(Calls[reader.next]) \/ trouble < Troubles
        /\ IF fits(Calls[reader.next]) THEN Disturb ELSE Calm
        /\ fail /\ Abort
        /\ IF req.guest THEN MainWriter ELSE UNCHANGED <<writer, outcome>>

\* Commit looks for a name that does not exist.
findName ==
  /\ reader.at = "write" /\ reader.next > Len(Calls) /\ req.mode = "folder"
  /\ reader' = [reader EXCEPT !.at = "commit", !.name = Len(folders) + 1]
  /\ Calm /\ Rest /\ UNCHANGED <<writer, tries, message, outcome, dest>>

moved(name) == name > Len(folders)

\* Then it moves the staging folder there.  A rename does not replace a folder
\* that holds files.
Commit ==
  /\ reader.at = "commit" /\ Calm /\ Rest
  /\ IF moved(reader.name)
     THEN /\ folders' = [n \in 1 .. reader.name |-> IF n = reader.name THEN Made ELSE folders[n]]
          /\ root' = NoRoot /\ read' = FALSE
          /\ To("done") /\ writer' = (IF req.guest THEN "committed" ELSE writer)
          /\ UNCHANGED <<tries, message, outcome>>
     ELSE /\ fail /\ Abort
          /\ IF req.guest THEN MainWriter ELSE UNCHANGED <<writer, outcome>>

committed(at) == \/ at = "done" /\ req.mode = "folder"
                 \/ at = "write" /\ reader.next > Len(Calls) /\ req.mode = "new"

\* The outcome is written, and the reader ends the session.
report ==
  /\ committed(reader.at) /\ Calm /\ Rest
  /\ To("ended") /\ message' = "restored" /\ UNCHANGED tries /\ EndSession

Running == reader.at \notin {"ended", "failed"}

\* The container is started again, up to the limit of the Job.
restart ==
  IF tries < Tries THEN reader' = NotRun /\ tries' = tries + 1
  ELSE To("failed") /\ UNCHANGED tries

\* The container is stopped (SIGTERM, its time) before the last call of the
\* walk: the restore is aborted.
Stop ==
  /\ reader.at \in {"start", "backup", "dest"} \/ (reader.at = "write" /\ reader.next <= Len(Calls))
  /\ Disturb /\ Rest /\ restart /\ UNCHANGED message
  /\ IF req.guest THEN EndSession
     ELSE /\ UNCHANGED <<writer, outcome>>
          /\ IF reader.at = "write" THEN Abort ELSE UNCHANGED dest

\* The container is killed: a writer sees the session end.
Kill ==
  /\ Running /\ Disturb /\ restart
  /\ rough' = TRUE /\ UNCHANGED <<req, phase, persons, message>>
  /\ IF req.guest THEN EndSession ELSE UNCHANGED <<writer, outcome, dest>>

\* A person makes a folder with the next free name in the claim.
MakeFolder ==
  /\ req.mode = "folder" /\ persons < Persons /\ persons' = persons + 1
  /\ folders' = Append(folders, Person)
  /\ UNCHANGED <<req, job, root, read, phase, rough, trouble>>
---------------------------------------------------------------------------
(* The controller *)

endedMutant(msg, said) == IF req.guest /\ said = "none" THEN "Failed" ELSE "Done"

\* RunFileRestore: the messages of a Job that ended well.  Without a writer, a
\* missing message counts as a restore that worked.
ended(msg, said) ==
  IF msg = "reason" \/ (req.guest /\ said = "none") THEN "Failed" ELSE "Done"

runFileRestoreJob ==
  /\ phase = "Restoring" /\ reader.at \in {"ended", "failed"}
  /\ UNCHANGED <<req, dest, persons>>
  /\ \/ /\ Calm /\ UNCHANGED <<job, rough>>
        /\ phase' \in IF reader.at = "failed" THEN {"Failed"}
                      ELSE {ended(message, outcome)} \cup
                           (IF Heard THEN {} ELSE {ended("none", outcome)})
     \* The Job is cleaned up before the status is saved: when that fails, the
     \* next pass starts a new Job.
     \/ /\ Disturb /\ rough' = TRUE /\ UNCHANGED phase
        /\ reader' = NotRun /\ writer' = (IF req.guest THEN "listens" ELSE "none")
        /\ tries' = 1 /\ message' = "none" /\ outcome' = "none"

Work ==
  DialWriter \/ openBackup \/ beginRestore \/ write \/ findName \/ Commit \/ report
  \/ runFileRestoreJob

Next == Work \/ Stop \/ Kill \/ MakeFolder

Spec == Init /\ [][Next]_vars

\* The Job runs, and the controller looks at it on every pass.
FairSpec == Spec /\ WF_vars(Work)
---------------------------------------------------------------------------
TypeOK ==
  /\ reader.at \in {"start", "backup", "dest", "write", "commit", "done", "ended", "failed"}
  /\ reader.next \in 1 .. Len(Calls) + 1 /\ reader.name \in 0 .. Len(folders) + 1
  /\ writer \in {"none", "listens", "serves", "committed", "ended"}
  /\ root \subseteq [path : Paths, done : BOOLEAN]
  /\ Len(folders) \in 0 .. Cardinality(Names) /\ tries \in 1 .. Tries
  /\ message \in {"none", "reason", "restored"} /\ outcome \in {"none", "said"}
  /\ phase \in {"Restoring", "Done", "Failed"}

\* The walk makes a folder before what is in it, each entry once, and finishes a
\* folder after what is in it: no call of it fails for another reason than the
\* share, however the chosen paths overlap.
CallsFit ==
  reader.at = "write" /\ reader.next <= Len(Calls) /\ root # NoRoot => fits(Calls[reader.next])

\* A restore that is Done wrote exactly the chosen entries and the folders above
\* them, and finished every one.
DoneIsWhole ==
  phase = "Done" =>
    IF req.mode = "new" THEN Made = Plan[req.chosen].wanted /\ Finished = Made
    ELSE \E n \in DOMAIN folders : folders[n] = Plan[req.chosen].wanted

FoldersStay == \A n \in DOMAIN folders : n \in DOMAIN folders' /\ folders'[n] = folders[n]

\* A name that exists is never replaced, also when it appears between the look
\* and the move.
NeverReplaced == [][FoldersStay]_vars

\* A failed restore into an existing claim leaves nothing in it, unless its
\* container was killed or its result was lost.
FailedLeavesNothing ==
  phase = "Failed" /\ ~rough /\ req.mode = "folder" =>
    root = NoRoot /\ \A n \in DOMAIN folders : folders[n] = Person

\* A restore leaves all of its files or none, new claim or old.
AllOrNone ==
  phase = "Failed" /\ ~rough => Made = {} /\ \A n \in DOMAIN folders : folders[n] = Person

Over == phase \in {"Done", "Failed"}

\* Every restore ends.
RestoreEnds == []<>Over
=============================================================================
