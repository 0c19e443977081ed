------------------------------ MODULE MCTools ------------------------------
(***************************************************************************)
(* The tools around the driver, one in each behaviour: a PoolBench with    *)
(* its runs (BenchRuns), the command that sets up Cloud Object Storage     *)
(* (CosSetup), the golden images of the pools (GoldenImages), and the      *)
(* sessions that browse backups (BrowseSessions). They share no state, so  *)
(* in each behaviour one of them takes the steps.                          *)
(***************************************************************************)
EXTENDS Integers

VARIABLE part   \* the component that takes the steps of this behaviour
VARIABLES load, pb, made, vms, store, moved, room, up, controls, trouble, opt, cosMade,
          marker, roleOurs, hmac, hmacs, wide, wrapped, keys, saved, keyFile, secretFile,
          cmd, added, pool, size, class, profile, url, native, dv, volume, template,
          source, status, pass, dropped, edits, kind, user, sess, timer, helper, disk,
          secrets, browseSource, slipped, browsePass

\* Four accounts: empty, with a person's bucket in an instance of another name,
\* with another role of the name, a wide policy and a rule that would lock the
\* caller out, and with an old file.
Empty == [existing |-> FALSE, inZone |-> TRUE, mode |-> "enabled", made |-> {}, roleOurs |-> TRUE,
          secretFile |-> 0, keyFile |-> 0, wide |-> {}]
Accounts == {Empty,
             [Empty EXCEPT !.made = {"bucket"}],
             [Empty EXCEPT !.made = {"instance", "role", "serviceID"}, !.roleOurs = FALSE,
                           !.inZone = FALSE, !.wide = {0}],
             [Empty EXCEPT !.keyFile = -1]}

TwoPools == {"p1", "p2"}

\* One run of two steps with two events, and two runs of one step each, of
\* which the second waits for the first and is kept.
Asked == {[runs |-> {"a"}, max |-> 2, events |-> {<<"Backup", 1>>, <<"BootStorm", 1>>}],
          [runs |-> {"a", "b"}, max |-> 1, events |-> {}]}

\* Two sessions of two people, and one alone on a VM disk in COS.
SessionPairs == {[kind |-> <<"folder", "cos">>, user |-> <<"u1", "u2">>],
                 [kind |-> <<"guestcos", "cos">>, user |-> <<"u1", "nobody">>]}

Bench == INSTANCE BenchRuns WITH
  Runs <- {"a", "b"}, StartAfter <- [a |-> "", b |-> "a"], Kept <- {"b"}, StepVMs <- 1,
  SlowVMPercent <- 25, StopAtKnee <- FALSE, Loads <- Asked, RoomStays <- TRUE, Controls <- 1,
  Troubles <- 1

Cos == INSTANCE CosSetup WITH
  Starts <- Accounts, Heeds <- TRUE, Meddles <- FALSE, Additions <- 1, Troubles <- 3,
  made <- cosMade

Images == INSTANCE GoldenImages WITH
  Pools <- TwoPools, Namespaces <- {"n1"}, Targets <- [p \in TwoPools |-> {"n1"}], Sizes <- {1, 2},
  Overlap <- FALSE, Resizes <- FALSE, Edits <- 1, Troubles <- 1

Browse == INSTANCE BrowseSessions WITH
  Made <- 2, Users <- {"u1", "u2"}, Scenarios <- SessionPairs, MaxSessions <- 1,
  MaxPerNamespace <- 2, Troubles <- 1,
  source <- browseSource, pass <- browsePass

butBench == <<opt, cosMade, marker, roleOurs, hmac, hmacs, wide, wrapped, keys, saved,
    keyFile, secretFile, cmd, added, pool, size, class, profile, url, native, dv, volume,
    template, source, status, pass, dropped, edits, kind, user, sess, timer, helper, disk,
    secrets, browseSource, slipped, browsePass>>
butCos == <<load, pb, made, vms, store, moved, room, up, controls, pool, size, class,
    profile, url, native, dv, volume, template, source, status, pass, dropped, edits,
    kind, user, sess, timer, helper, disk, secrets, browseSource, slipped, browsePass>>
butImages == <<load, pb, made, vms, store, moved, room, up, controls, opt, cosMade,
    marker, roleOurs, hmac, hmacs, wide, wrapped, keys, saved, keyFile, secretFile, cmd,
    added, kind, user, sess, timer, helper, disk, secrets, browseSource, slipped,
    browsePass>>
butBrowse == <<load, pb, made, vms, store, moved, room, up, controls, opt, cosMade,
    marker, roleOurs, hmac, hmacs, wide, wrapped, keys, saved, keyFile, secretFile, cmd,
    added, pool, size, class, profile, url, native, dv, volume, template, source, status,
    pass, dropped, edits>>
vars == <<part, Bench!vars, butBench>>

\* The components that take no steps stay in one of their initial states.
Init ==
  /\ part \in {"bench", "cos", "images", "browse"}
  /\ Bench!Init /\ Cos!Init /\ Images!Init /\ Browse!Init
  /\ part # "bench" => load.max = 1 /\ room["a"] /\ room["b"]
  /\ part # "cos" => opt.inZone /\ cosMade = {} /\ keyFile = 0
  /\ part # "images" => size = [p \in TwoPools |-> 1]
  /\ part # "browse" => kind[1] = "folder"

Next ==
  /\ UNCHANGED part
  /\ \/ part = "bench" /\ Bench!Next /\ UNCHANGED butBench
     \/ part = "cos" /\ Cos!Next /\ UNCHANGED butCos
     \/ part = "images" /\ Images!Next /\ UNCHANGED butImages
     \/ part = "browse" /\ Browse!Next /\ UNCHANGED butBrowse

Spec == Init /\ [][Next]_vars

BenchVars == Bench!vars
CosVars == Cos!vars
ImagesVars == Images!vars
BrowseVars == Browse!vars

\* The fairness of each component; see its module.
FairSpec ==
  /\ Spec
  /\ WF_BenchVars(part = "bench" /\ Bench!Progress)
  /\ WF_CosVars(part = "cos" /\ Cos!Progress)
  /\ \A p \in TwoPools : /\ WF_ImagesVars(part = "images" /\ Images!ensureClasses(p))
                           /\ WF_ImagesVars(part = "images" /\ Images!RemovePoolImages(p))
                           /\ WF_ImagesVars(part = "images" /\ Images!handleDeletion(p))
  /\ WF_ImagesVars(part = "images" /\ Images!Import("n1"))
  /\ WF_ImagesVars(part = "images" /\ Images!Collect("n1"))
  /\ WF_ImagesVars(part = "images" /\ Images!Sync)
  /\ WF_BrowseVars(part = "browse" /\ Browse!Controller)
  /\ SF_BrowseVars(part = "browse" /\ Browse!reconcileBrowseList(FALSE))
  /\ \A s \in 1 .. 2 : /\ WF_BrowseVars(part = "browse" /\ Browse!TimePasses(s))
                     /\ WF_BrowseVars(part = "browse" /\ Browse!PodsGone(s))

-----------------------------------------------------------------------------
\* A run whose status says it is cleaned up, and a run whose finalizer let it
\* go, has left nothing: no namespace with VMs, no pool, no backup pool, no
\* policy, wherever it was stopped, deleted, cut off or failed (cleanup,
\* finalize). A run with startAfter makes nothing while the run it waits for
\* has its share and VMs, unless that one is kept (waitingFor). The VM count
\* that is recommended is that of a step that passed, and so did every smaller
\* one. RoomStays: the check of a run does not fail any more once the run has
\* made an object; a check that fails then marks the run cleaned up with its
\* objects still there.
RunsInOrder == part = "bench" => Bench!TypeOK /\ Bench!LeavesNothing /\ Bench!WaitsForClean /\ Bench!RecommendedPassed

\* When the command says it is done, the two files it tells the person to
\* apply hold the secret of the HMAC key that is in the account and the
\* wrapped form of the key that is in the bucket, nothing is missing, and the
\* service ID has no instance-wide policy of an HMAC key. A wrapped key is in
\* the bucket or in a file only when the person has confirmed a copy of the
\* readable key, which is shown once. Heeds: a file whose write did not end is
\* heard of, and the person moves it away, which the message of a failed write
\* does not ask for; a command killed in the write leaves a file it then takes
\* for written.
SetupUsable == part = "cos" => Cos!TypeOK /\ Cos!DoneUsable /\ Cos!KeySaved

\* A catalog entry (Template or DataSource) shows an image that its pool has
\* imported to the end, until the image is deleted. Deleting a pool deletes
\* its golden image objects: none is left of a pool that is gone. Without
\* Overlap a pool is not deleted between a pass's look at it and what the pass
\* then makes.
ImagesWhole == part = "images" => Images!TypeOK /\ Images!EntryHasImage /\ Images!GoneLeavesNothing

\* No more helpers run than the limit allows, but for sessions whose status
\* could not be saved (a person closed them in that moment, or the update
\* failed) while their helper ran: startBrowse counts what it starts, and only
\* sessions that are not running are given back. Helpers that are being
\* stopped, and those of sessions that are deleted, are not counted; all claims
\* are in one namespace, whose own limit is the wider one.
LimitKept == part = "browse" => Browse!TypeOK /\ Browse!LimitKept

Settled ==
  \/ part = "bench" /\ Bench!RunsOver
  \/ part = "cos" /\ Cos!Finished
  \/ part = "images" /\ Images!ImagesSettled
  \/ part = "browse" /\ Browse!SessionsCleared

\* Every run of a PoolBench ends and is cleaned up, unless people pause or hold
\* one or it is kept; the setup command run again as its messages ask ends
\* done; every pool gets its golden images, says that they failed, or goes with
\* them; and of an ended browse session nothing is left.
ToolsSettle == []<>Settled
=============================================================================
