----------------------------- MODULE DiskUpload -----------------------------
(***************************************************************************)
(* How a staged copy of a VM's disk crosses the network to the receiver of *)
(* the far site, and is sent again after a stop.  A sender (a send Job's   *)
(* pod) asks what an earlier try of the same copy stored, for a full copy  *)
(* has the receiver compare the disk, puts the records that are missing,   *)
(* and commits.  The receiver keeps a session folder per copy: a record    *)
(* file (manifest) that names each chunk as zero, as data in the staging   *)
(* file or as the same as on the disk, and the moment of the last compare. *)
(* image[m] is the source disk at moment m; ApplyCopy itself is FarDisk's. *)
(***************************************************************************)
EXTENDS Integers, FiniteSets

CONSTANTS
  Chunks,     \* 1 .. n, in the order of their offsets
  Image,      \* [moment -> [Chunks -> contents]]; contents 0 are zeros
  Jobs,       \* sets of senders: functions from senders to copies
  Starts,     \* what the far site's disk may be at the start
  Buffer,     \* manifest entries that the receiver writes out together
  Loses,      \* a session folder may go between the compare and the PUT of a try
  Troubles    \* bound: calls cut off, answers lost, receiver stopped

VARIABLES
  job,      \* [sender -> the copy it sends: id, from, to, full]
  disk,     \* the far disk: the moment it shows and its chunks
  session,  \* [copy id -> the session folder of the copy]
  calling,  \* the sender whose PUT call holds the disk's lock, or Nobody
  put,      \* the chunks whose records that call has stored, not all in the manifest yet
  pc,       \* [sender -> where SendVMDisk is]
  know,     \* [sender -> stored, need, from: what the calls answered]
  trouble

vars == <<job, disk, session, calling, put, pc, know, trouble>>

Moments == DOMAIN Image
Nobody == "nobody"
NoDisk == -1
Unknown == 0
NotCompared == -2
NoMoment == {NoDisk, Unknown}
Senders == DOMAIN job
Ids == {job[s].id : s \in Senders}

Garbage == 99
Missing == [kind |-> "none", value |-> 0]
Unopened == [there |-> FALSE, old |-> FALSE, base |-> NotCompared,
             seg |-> [c \in Chunks |-> Missing]]
Fresh == [stored |-> {}, need |-> {}, from |-> NoDisk]

Entries == {Missing} \cup [kind : {"zero", "same", "data"},
                           value : {Image[m][c] : m \in Moments, c \in Chunks} \cup {Garbage}]
---------------------------------------------------------------------------
(* The sender's copy *)

\* The chunks of the copy: all of a full copy, the changed ones of a change
\* copy.  forEachNewChunk walks them in the order of their offsets.
vmRecords(j) == {c \in Chunks : j.full \/ Image[j.from][c] # Image[j.to][c]}

IsZero(j, c) == Image[j.to][c] = 0

\* The records of some chunks, as entries of the manifest.
Records(j, C) ==
  [c \in C |-> [kind |-> IF IsZero(j, c) THEN "zero" ELSE "data", value |-> Image[j.to][c]]]

\* The records the digest covers: zeros, and the data that the far disk lacks.
Digest(j, k) == Records(j, {c \in vmRecords(j) : IsZero(j, c) \/ ~j.full \/ c \in k.need})

\* What the PUT call sends: zeros always, data unless an earlier try stored it.
ToSend(j, k) ==
  {c \in vmRecords(j) : IsZero(j, c) \/ ((j.full => c \in k.need) /\ c \notin k.stored)}

\* The first chunks of some.
Begins(P, C) == P \subseteq C /\ \A c \in P, d \in C \ P : c < d
---------------------------------------------------------------------------
(* The receiver's session folder *)

\* removeOldUploads, at the start of every call, goes by the age of the folder,
\* which appending to the files in it does not renew.
removeOldUploads == [i \in Ids |-> IF session[i].old THEN Unopened ELSE session[i]]

\* Later entries win for the same offset.
appendSegs(ses, new) ==
  [ses EXCEPT !.there = TRUE,
     !.seg = [c \in Chunks |-> IF c \in DOMAIN new THEN new[c] ELSE ses.seg[c]]]

discardSession(ses) == Unopened

checkDigest(ses) == [c \in {d \in Chunks : ses.seg[d].kind \in {"zero", "data"}} |-> ses.seg[c]]

\* The records of a compare call: zeros, and chunks equal to the disk's.
SameOnDisk(j, c) == disk.at # NoDisk /\ disk.data[c] = Image[j.to][c]

compareEntries(j) ==
  [c \in {d \in vmRecords(j) : IsZero(j, d) \/ SameOnDisk(j, d)} |->
     [kind |-> IF IsZero(j, c) THEN "zero" ELSE "same", value |-> Image[j.to][c]]]

\* receivedCopy: a chunk noted as the same is read from the disk, and the gaps
\* of a full copy are zeros.
receivedCopy(j, ses) ==
  [c \in Chunks |->
     CASE ses.seg[c].kind = "data" -> ses.seg[c].value
       [] ses.seg[c].kind = "zero" -> 0
       [] ses.seg[c].kind = "same" -> disk.data[c]
       [] OTHER -> IF j.full THEN 0 ELSE disk.data[c]]
---------------------------------------------------------------------------
Init ==
  /\ job \in Jobs
  /\ disk \in Starts
  /\ session = [i \in Ids |-> Unopened]
  /\ calling = Nobody /\ put = {}
  /\ pc = [s \in Senders |-> "status"]
  /\ know = [s \in Senders |-> Fresh]
  /\ trouble = 0

Disturb == trouble < Troubles /\ trouble' = trouble + 1
Calm == UNCHANGED trouble

\* A call that finds another one working on the disk gets 429.  The pod fails
\* and the Job starts the next.
Goto(s, p) == pc' = [pc EXCEPT ![s] = p]
Fail(s) == Goto(s, "failed") /\ know' = [know EXCEPT ![s] = Fresh]
openVMCall(s, p) == pc[s] = p /\ calling = Nobody /\ UNCHANGED job

Refused(s) ==
  /\ pc[s] \in {"status", "compare", "put", "commit"} /\ calling \notin {Nobody, s}
  /\ Fail(s) /\ Calm /\ UNCHANGED <<job, disk, session, calling, put>>

storedOffsets(ses) == {c \in Chunks : ses.seg[c].kind = "data"}

vmStatus(s) ==
  /\ openVMCall(s, "status") /\ session' = removeOldUploads
  /\ know' = [know EXCEPT ![s].from = job[s].from,
                ![s].stored = storedOffsets(session'[job[s].id])]
  /\ Goto(s, IF disk.at = job[s].to THEN "done" ELSE IF job[s].full THEN "compare" ELSE "put")
  /\ Calm /\ UNCHANGED <<disk, calling, put>>

\* The moment goes to the session after the entries are on the share.
compare(s) ==
  LET j == job[s]
      noted == compareEntries(j)
      after == [appendSegs(removeOldUploads[j.id], noted) EXCEPT !.base = disk.at] IN
  /\ openVMCall(s, "compare")
  /\ \/ /\ session' = [removeOldUploads EXCEPT ![j.id] = after]
        /\ know' = [know EXCEPT ![s].need = Chunks \ DOMAIN noted,
                                ![s].from = disk.at]
        /\ Goto(s, "put") /\ Calm
     \/ /\ session' = [removeOldUploads EXCEPT ![j.id] = after]
        /\ Fail(s) /\ Disturb
     \/ /\ \E P \in SUBSET DOMAIN noted :
             /\ Begins(P, DOMAIN noted)
             /\ session' = [removeOldUploads EXCEPT ![j.id] = appendSegs(@, [c \in P |-> noted[c]])]
        /\ Fail(s) /\ Disturb
  /\ UNCHANGED <<disk, calling, put>>

beginUpload(s) ==
  /\ openVMCall(s, "put") /\ calling' = s /\ put' = {}
  /\ session' = [removeOldUploads EXCEPT ![job[s].id].there = TRUE]
  /\ Calm /\ UNCHANGED <<disk, pc, know>>

\* The next record: its data is on the share before the entry that names it.
upload(s) ==
  /\ calling = s
  /\ \E c \in ToSend(job[s], know[s]) \ put :
       Begins(put \cup {c}, ToSend(job[s], know[s])) /\ put' = put \cup {c}
  /\ Calm /\ UNCHANGED <<job, disk, session, calling, pc, know>>

\* The entries written out: every Buffer of them together.
writtenOut == Buffer * (Cardinality(put) \div Buffer)

Release(s, C) ==
  /\ session' = [session EXCEPT ![job[s].id] = appendSegs(@, Records(job[s], C))]
  /\ calling' = Nobody /\ put' = {} /\ UNCHANGED <<job, disk>>

\* The manifest is flushed at the end of the call.
endUpload(s) ==
  /\ calling = s /\ put = ToSend(job[s], know[s])
  /\ Release(s, put)
  /\ \/ Goto(s, "commit") /\ Calm /\ UNCHANGED know
     \/ Fail(s) /\ Disturb

\* The connection ends early: the call returns, and drops what it has buffered.
cutUpload(s) ==
  /\ calling = s /\ Disturb /\ Fail(s)
  /\ \E P \in SUBSET put : Begins(P, put) /\ Cardinality(P) = writtenOut /\ Release(s, P)

\* The receiver is killed: any end of what it wrote out may be lost, and
\* loadSession cuts a damaged end off.
killReceiver(s) ==
  /\ calling = s /\ Disturb /\ Fail(s)
  /\ \E P \in SUBSET put : Begins(P, put) /\ Cardinality(P) <= writtenOut /\ Release(s, P)

mayCommitMutant(j, from) == disk.at = NoDisk => from = NoDisk /\ j.full

\* The rules of the commit call: the copy starts from the moment the disk
\* shows; a full copy may replace a disk whose moment is not known.
mayCommit(j, from) ==
  CASE disk.at = NoDisk -> from = NoDisk /\ j.full
    [] disk.at = Unknown -> from \in NoMoment /\ j.full
    [] OTHER -> from = disk.at

\* A compare answer holds only while the disk is the same.
baseHolds(ses) == ses.base \in {NotCompared, disk.at}

\* The sender takes a conflict at the copy's own moment for a copy that an
\* earlier try applied; another conflict ends the copy, the next one is full.
alreadyAppliedMutant(j) == disk.at \notin NoMoment

alreadyApplied(j) == disk.at = j.to

commit(s) ==
  LET j == job[s]
      ses == removeOldUploads[j.id] IN
  /\ openVMCall(s, "commit") /\ UNCHANGED <<calling, put>>
  /\ \/ /\ ~mayCommit(j, know[s].from)
        /\ Goto(s, IF alreadyApplied(j) THEN "done" ELSE "conflict")
        /\ session' = removeOldUploads /\ Calm /\ UNCHANGED <<disk, know>>
     \/ /\ mayCommit(j, know[s].from) /\ ~baseHolds(ses)
        /\ Goto(s, "conflict")
        /\ session' = removeOldUploads /\ Calm /\ UNCHANGED <<disk, know>>
     \/ /\ mayCommit(j, know[s].from) /\ baseHolds(ses) /\ checkDigest(ses) # Digest(j, know[s])
        /\ session' = [removeOldUploads EXCEPT ![j.id] = discardSession(@)]
        /\ Fail(s) /\ Calm /\ UNCHANGED disk
     \/ /\ mayCommit(j, know[s].from) /\ baseHolds(ses) /\ checkDigest(ses) = Digest(j, know[s])
        /\ disk' = [at |-> j.to, data |-> receivedCopy(j, ses)]
        /\ session' = [removeOldUploads EXCEPT ![j.id] = Unopened]
        /\ \/ Goto(s, "done") /\ Calm /\ UNCHANGED know
           \/ Fail(s) /\ Disturb

\* The Job's next pod sends the same copy, with the same ID.
Retry(s) ==
  /\ pc[s] = "failed" /\ Goto(s, "status") /\ Calm
  /\ UNCHANGED <<job, disk, session, calling, put, know>>

Resting == calling = Nobody /\ \A s \in Senders : pc[s] \notin {"compare", "put", "commit"}

\* A session folder gets older than incomingMaxAge, where Loses in the middle
\* of a try.
Ages(i) ==
  /\ session[i].there /\ ~session[i].old /\ (~Loses => Resting) /\ Disturb
  /\ session' = [session EXCEPT ![i].old = TRUE]
  /\ UNCHANGED <<job, disk, calling, put, pc, know>>

\* The share loses data that it had acknowledged: the commit call discards the
\* session, where Loses also under a second pod that sends the same copy.
Damage(i, c) ==
  /\ session[i].seg[c].kind = "data" /\ session[i].seg[c].value # Garbage
  /\ calling = Nobody /\ Disturb
  /\ ~Loses => Cardinality({s \in Senders : job[s].id = i}) = 1
  /\ session' = [session EXCEPT ![i].seg[c].value = Garbage]
  /\ UNCHANGED <<job, disk, calling, put, pc, know>>

Step(s) ==
  \/ Refused(s) \/ vmStatus(s) \/ compare(s) \/ beginUpload(s) \/ upload(s)
  \/ endUpload(s) \/ commit(s) \/ Retry(s)

Next ==
  \/ \E s \in Senders : Step(s) \/ cutUpload(s) \/ killReceiver(s)
  \/ \E i \in Ids : Ages(i) \/ \E c \in Chunks : Damage(i, c)

Spec == Init /\ [][Next]_vars

\* Every pod runs, and the Job replaces one that failed, after a pause that
\* grows: a commit call that finds the disk free again and again gets it once.
FairSpec ==
  Spec /\ \A s \in {"s1", "s2"} : /\ WF_vars(s \in Senders /\ Step(s))
                                  /\ SF_vars(s \in Senders /\ commit(s))
---------------------------------------------------------------------------
TypeOK ==
  /\ disk.at \in Moments \cup NoMoment
  /\ calling \in Senders \cup {Nobody} /\ put \subseteq Chunks
  /\ \A s \in Senders :
       /\ pc[s] \in {"status", "compare", "put", "commit", "failed", "done", "conflict"}
       /\ know[s].stored \subseteq Chunks /\ know[s].need \subseteq Chunks
       /\ know[s].from \in Moments \cup NoMoment
  /\ \A i \in Ids : session[i].seg \in [Chunks -> Entries]
  /\ trouble \in 0 .. Troubles

\* A disk that shows a moment is the source disk at that moment, however many
\* tries, stops and other copies it took: chunks that a compare call noted as
\* the same are never taken from another disk than the one compared.
ShownIsWhole == disk.at \in Moments => disk.data = Image[disk.at]

DoneShown == \A s \in Senders : pc'[s] = "done" /\ pc[s] # "done" => disk'.at = job[s].to

\* A sender ends without an error only when the far disk shows its copy's
\* moment, also when it took the copy for one that an earlier try applied.
DoneIsShown == [][DoneShown]_vars

SendersEnded == \A s \in Senders : pc[s] \in {"done", "conflict"}

\* What is stored of an upload never blocks the copy: each sender ends, by a
\* copy that is applied or by the answer that the disk is at another moment.
SendsEnd == []<>SendersEnded

\* Sending a copy again resumes it: a record whose data the receiver put on the
\* share before the connection ended is one that the next try does not send.
CutKeepsRecords ==
  [][\A s \in Senders : cutUpload(s) =>
       \A c \in put : session'[job[s].id].seg[c] = Records(job[s], put)[c]]_vars
=============================================================================
