------------------------------ MODULE CosSetup ------------------------------
(***************************************************************************)
(* kubectl backup cos-setup: it looks at what the account has, says what    *)
(* it would make, asks, and makes what is missing, one object after the     *)
(* other.  It may stop between any two calls, an answer may be lost after   *)
(* the call was carried out, and the person runs it again after doing what  *)
(* its message asks for.  An HMAC key shows its secret only when it is      *)
(* made, and IBM Cloud adds an instance-wide policy for it.                 *)
(***************************************************************************)
EXTENDS Integers, Sequences, SequencesExt, FiniteSets

CONSTANTS
  Starts,     \* what account and person start with, a set of Start records
  Heeds,      \* a file whose write did not end is heard of, and the person moves it away
  Meddles,    \* a person may add a policy while the command runs
  Additions,  \* bound: policies a person adds
  Troubles    \* bound: calls that fail, answers that are lost, stops

VARIABLES
  opt,      \* the command's flags: existing, inZone, mode; foreign: a person made the bucket
  made,     \* the objects of the account that only are there or not
  marker,   \* the bucket has the marker object
  roleOurs, \* the custom role has the actions of WriterActions
  hmac,     \* the number of the HMAC key, 0 for none
  hmacs,    \* HMAC keys made so far
  wide,     \* instance-wide policies: the HMAC key each was added for, 0 a person's
  wrapped,  \* the backup key whose wrapped form is in the bucket, 0 for none
  keys,     \* backup keys made so far
  saved,    \* backup keys the person confirmed a copy of
  keyFile, secretFile, \* the key each file holds, 0 no file, Other anything else
  cmd, added, trouble

account == <<made, marker, roleOurs, hmac, hmacs, wide, wrapped, keys, saved>>
files == <<keyFile, secretFile>>
vars == <<opt, account, files, cmd, added, trouble>>

Other == -1
Simple == {"instance", "authorization", "bucket", "versioning", "objectLock", "role", "serviceID",
           "bucketPolicy", "rootKeyPolicy", "zone", "rule"}

\* all: the order of the steps.
Steps == <<"preflight", "instance", "authorization", "bucket", "versioning", "objectLock", "role", "serviceID",
           "bucketPolicy", "rootKeyPolicy", "hmac", "keyFile", "zone", "rule", "backupKey", "secretFile", "done">>
Inner == {"marker", "writeKey", "removeImplicit", "checkNarrow", "ask", "storeKey", "writeSecret"}
Reasons == {"", "zone", "notOurs", "notLocked", "noInstance", "otherRole", "hidden", "oldFile", "wide", "keyUnwritten", "secretUnwritten"}

\* run: what one pass keeps.
NewRun == [at |-> "off", why |-> "", before |-> {}, key |-> 0, hmac |-> 0]

Init ==
  /\ \E s \in Starts :
       /\ opt = [existing |-> s.existing, inZone |-> s.inZone, mode |-> s.mode,
                foreign |-> "bucket" \in s.made]
       /\ made = s.made /\ roleOurs = s.roleOurs /\ secretFile = s.secretFile /\ keyFile = s.keyFile
       /\ wide = s.wide
  /\ marker = FALSE /\ hmac = 0 /\ hmacs = 0 /\ wrapped = 0 /\ keys = 0 /\ saved = {}
  /\ cmd = NewRun /\ added = 0 /\ trouble = 0

Calm == UNCHANGED trouble
Disturb == trouble < Troubles /\ trouble' = trouble + 1

\* resolveZone and checkCaller.
checkCaller == IF ~opt.inZone /\ opt.mode = "enabled" THEN "zone" ELSE ""

\* bucket and bucketSettings: a bucket without the marker is somebody's, and a
\* bucket that is there is in an instance that is there.
bucketRefusal ==
  CASE "bucket" \notin made -> ""
    [] ~marker /\ ~opt.existing -> "notOurs"
    [] ~marker /\ ~({"versioning", "objectLock"} \subseteq made) -> "notLocked"
    [] "instance" \notin made -> "noInstance"
    [] OTHER -> ""

\* An old key file is kept for a new key.
hmacRefusalMutant == IF hmac # 0 /\ keyFile = 0 THEN "hidden" ELSE ""

hmacRefusal ==
  CASE hmac # 0 /\ keyFile = 0 -> "hidden"
    [] hmac = 0 /\ keyFile # 0 -> "oldFile"
    [] OTHER -> ""

checkNarrow == IF wide # {} THEN "wide" ELSE ""

\* Why a step refuses before it makes anything.
Refusal(s) ==
  CASE s = "preflight" -> checkCaller
    [] s = "bucket" -> bucketRefusal
    [] s = "role" -> IF "role" \in made /\ ~roleOurs THEN "otherRole" ELSE ""
    [] s = "hmac" -> IF hmacRefusal = "" /\ hmac # 0 /\ "serviceID" \in made THEN checkNarrow ELSE hmacRefusal
    [] OTHER -> ""

\* The plan looks for wide policies of a known service ID even when the HMAC
\* key is still to be made.
PlanRefusal(s) ==
  IF s = "hmac" /\ hmacRefusal = "" /\ "serviceID" \in made THEN checkNarrow ELSE Refusal(s)

\* step: what is there already is left as it is.
Exists(s) ==
  CASE s \in Simple -> s \in made
    [] s = "hmac" -> hmac # 0
    [] s = "keyFile" -> keyFile # 0
    [] s = "backupKey" -> wrapped # 0
    [] s = "secretFile" -> secretFile # 0
    [] OTHER -> TRUE

Following(s) == Steps[SelectInSeq(Steps, LAMBDA t : t = s) + 1]
Go(s) == cmd' = [cmd EXCEPT !.at = s]
Stop(why) == cmd' = [NewRun EXCEPT !.why = why]

(***************************************************************************)
(* The plan, the question, and the pass that makes things.                  *)
(***************************************************************************)

\* Run: the pass that only reads refuses what the first refusing step
\* refuses, and ends when nothing is missing.
Run ==
  LET refused == SelectSeq(Steps, LAMBDA s : PlanRefusal(s) # "")
  IN  /\ cmd.at = "off" /\ cmd.why = ""
      /\ IF refused # <<>> THEN Stop(PlanRefusal(refused[1]))
         ELSE IF \A s \in Range(Steps) : Exists(s) THEN Go("done") ELSE Go("confirm")
      /\ Calm /\ UNCHANGED <<opt, account, files, added>>

confirm ==
  /\ cmd.at = "confirm" /\ Go("preflight")
  /\ Calm /\ UNCHANGED <<opt, account, files, added>>

\* A step that finds its object, or refuses.
LookAt(s) ==
  /\ cmd.at = s
  /\ Refusal(s) # "" \/ Exists(s)
  /\ IF Refusal(s) # "" THEN Stop(Refusal(s)) ELSE Go(Following(s))
  /\ Calm /\ UNCHANGED <<opt, account, files, added>>

\* The steps whose object is one call.
Make(s) ==
  /\ cmd.at = s /\ s \in Simple /\ Refusal(s) = "" /\ ~Exists(s)
  /\ made' = made \union {s}
  /\ roleOurs' = (roleOurs \/ s = "role")
  /\ \/ Go(IF s = "bucket" THEN "marker" ELSE Following(s)) /\ Calm
     \/ Stop("") /\ Disturb
  /\ UNCHANGED <<opt, marker, hmac, hmacs, wide, wrapped, keys, saved, files, added>>

Step(s) == LookAt(s) \/ Make(s)

preflight == LookAt("preflight")
instance == Step("instance")
authorization == Step("authorization")
bucket == Step("bucket")
versioning == Step("versioning")
objectLock == Step("objectLock")
role == Step("role")
serviceID == Step("serviceID")
bucketPolicy == Step("bucketPolicy")
rootKeyPolicy == Step("rootKeyPolicy")
zone == Step("zone")
rule == Step("rule")

writeMarker ==
  /\ cmd.at = "marker"
  /\ marker' = TRUE
  /\ Go("versioning")
  /\ Calm /\ UNCHANGED <<opt, made, roleOurs, hmac, hmacs, wide, wrapped, keys, saved, files, added>>

\* hmac: the policies of the service ID are listed before the key is made.
makeHMAC ==
  /\ cmd.at = "hmac" /\ Refusal("hmac") = "" /\ hmac = 0
  /\ hmac' = hmacs + 1 /\ hmacs' = hmacs + 1
  /\ wide' = wide \union {hmac'}
  /\ \/ cmd' = [cmd EXCEPT !.at = "writeKey", !.before = wide, !.hmac = hmac'] /\ Calm
     \/ Stop("") /\ Disturb
  /\ UNCHANGED <<opt, made, marker, roleOurs, wrapped, keys, saved, files, added>>

\* writePrivate makes a file and then writes it.  One whose write failed stays
\* as it is; when the command is killed in between there is no message either.
Unwritten(why) == Disturb /\ \E said \in (IF Heeds THEN {why} ELSE {why, ""}) : Stop(said)

\* A file that is there is never replaced.
writeKeyFile ==
  /\ cmd.at = "writeKey" /\ keyFile = 0
  /\ \/ keyFile' = hmac /\ Go("removeImplicit") /\ Calm
     \/ keyFile' = Other /\ Unwritten("keyUnwritten")
  /\ UNCHANGED <<opt, account, secretFile, added>>

removeImplicitPolicy ==
  /\ cmd.at = "removeImplicit"
  /\ wide' = wide \intersect cmd.before
  /\ Go("checkNarrow")
  /\ Calm /\ UNCHANGED <<opt, made, marker, roleOurs, hmac, hmacs, wrapped, keys, saved, files, added>>

narrow ==
  /\ cmd.at = "checkNarrow"
  /\ IF checkNarrow # "" THEN Stop(checkNarrow) ELSE Go("keyFile")
  /\ Calm /\ UNCHANGED <<opt, account, files, added>>

\* newBackupKey and wrap; then the key is shown.
backupKey ==
  /\ cmd.at = "backupKey" /\ wrapped = 0
  /\ keys' = keys + 1
  /\ cmd' = [cmd EXCEPT !.at = "ask", !.key = keys']
  /\ Calm /\ UNCHANGED <<opt, made, marker, roleOurs, hmac, hmacs, wide, wrapped, saved, files, added>>

ask ==
  /\ cmd.at = "ask"
  /\ \/ saved' = saved \union {cmd.key} /\ Go("storeKey") /\ Calm
     \/ saved' = saved /\ Stop("") /\ Disturb
  /\ UNCHANGED <<opt, made, marker, roleOurs, hmac, hmacs, wide, wrapped, keys, files, added>>

storeKey ==
  /\ cmd.at = "storeKey"
  /\ wrapped' = cmd.key
  /\ \/ Go("writeSecret") /\ Calm
     \/ Stop("") /\ Disturb
  /\ UNCHANGED <<opt, made, marker, roleOurs, hmac, hmacs, wide, keys, saved, files, added>>

\* writeSecretFile, in the backup key's step and in its own.
secretFileStep ==
  /\ cmd.at = "writeSecret" \/ (cmd.at = "secretFile" /\ secretFile = 0)
  /\ IF secretFile # 0 THEN Stop("secretUnwritten") /\ UNCHANGED secretFile /\ Calm
     ELSE \/ secretFile' = wrapped /\ Go("done") /\ Calm
          \/ secretFile' = Other /\ Unwritten("secretUnwritten")
  /\ UNCHANGED <<opt, account, keyFile, added>>

\* A call that fails, or the command stops.
Trip ==
  /\ cmd.at \notin {"off", "done"}
  /\ Stop("") /\ Disturb
  /\ UNCHANGED <<opt, account, files, added>>

(***************************************************************************)
(* The person.                                                              *)
(***************************************************************************)

\* What the message of a refusal asks for, before the command is run again.
Heed ==
  LET why == cmd.why
  IN  /\ cmd.at = "off" /\ why # ""
      /\ cmd' = NewRun
      /\ opt' = [opt EXCEPT !.inZone = @ \/ why = "zone", !.existing = @ \/ why = "notOurs"]
      /\ made' = CASE why = "notLocked" -> made \union {"versioning", "objectLock"}
                   [] why = "noInstance" -> made \union {"instance"}
                   [] why = "otherRole" -> made \ {"role"}
                   [] OTHER -> made
      /\ hmac' = IF why = "hidden" THEN 0 ELSE hmac
      /\ wide' = IF why = "wide" THEN {} ELSE wide
      /\ keyFile' = IF why = "oldFile" \/ (why = "keyUnwritten" /\ Heeds) THEN 0 ELSE keyFile
      /\ secretFile' = IF why = "secretUnwritten" /\ Heeds THEN 0 ELSE secretFile
      /\ Calm /\ UNCHANGED <<marker, roleOurs, hmacs, wrapped, keys, saved, added>>

AddPolicy ==
  /\ added < Additions /\ added' = added + 1
  /\ "serviceID" \in made /\ wrapped = 0
  /\ cmd.at = "off" \/ Meddles
  /\ wide' = wide \union {0}
  /\ Calm /\ UNCHANGED <<opt, made, marker, roleOurs, hmac, hmacs, wrapped, keys, saved, files, cmd>>

Progress ==
  \/ Run \/ confirm \/ writeMarker \/ makeHMAC \/ writeKeyFile \/ removeImplicitPolicy \/ narrow \/ backupKey
  \/ ask \/ storeKey \/ secretFileStep \/ Heed
  \/ preflight \/ instance \/ authorization \/ bucket \/ versioning \/ objectLock \/ role \/ serviceID
  \/ bucketPolicy \/ rootKeyPolicy \/ zone \/ rule
  \/ LookAt("hmac") \/ LookAt("keyFile") \/ LookAt("backupKey") \/ LookAt("secretFile")

Next == Progress \/ Trip \/ AddPolicy

Spec == Init /\ [][Next]_vars

\* The person runs the command again until it is done.
FairSpec == Spec /\ WF_vars(Progress)

-----------------------------------------------------------------------------

TypeOK ==
  /\ made \subseteq Simple /\ marker \in BOOLEAN /\ roleOurs \in BOOLEAN
  /\ hmac \in 0..hmacs /\ wide \subseteq 0..hmacs /\ hmacs <= Troubles + 1 + Additions
  /\ wrapped \in 0..keys /\ saved \subseteq 1..keys
  /\ keyFile \in {Other} \union 0..hmacs /\ secretFile \in {Other} \union 0..keys
  /\ cmd.at \in Range(Steps) \union Inner \union {"off", "confirm"} /\ cmd.why \in Reasons

\* When the command says it is done, the two files it tells the person to
\* apply hold the secret of the HMAC key that is in the account and the
\* wrapped form of the key that is in the bucket, nothing is missing, and the
\* service ID has no instance-wide policy of an HMAC key.
DoneUsable ==
  cmd.at = "done" => /\ made = Simple /\ hmac # 0 /\ wrapped # 0
                     /\ keyFile = hmac /\ secretFile = wrapped
                     /\ wide \subseteq {0}

\* A wrapped key is in the bucket or in a file only when the person has
\* confirmed a copy of the readable key, which is shown once.
KeySaved == {wrapped, secretFile} \subseteq saved \union {0, Other}

OwnDeleted == cmd.at # "off" => wide \ wide' \subseteq {cmd.hmac}

\* The command deletes no policy but the one its own call made.
OnlyOwnDeleted == [][OwnDeleted]_vars

\* A bucket of which the command says that it did not make it is one it did
\* not make.
RefusesOnlyForeign == cmd.why = "notOurs" => opt.foreign

Finished == cmd.at = "done"

\* Run again after what its message asks for, the command ends done, wherever
\* it stopped before.
SetupFinishes == []<>Finished
=============================================================================
