---------------------------- MODULE GoldenImages ----------------------------
(***************************************************************************)
(* What a pool keeps in the cluster besides its volumes: its StorageClass   *)
(* and CDI StorageProfile (reconciler), and the golden image of each target *)
(* namespace, a DataVolume that CDI imports, a Template and a DataSource    *)
(* (golden image syncer).  The syncer works through a list of pools that it *)
(* read at the start of its pass while the reconciler, which deletes a      *)
(* pool's images before the pool, persons and CDI go on.  One image.        *)
(***************************************************************************)
EXTENDS Integers, Sequences, SequencesExt, FiniteSets

CONSTANTS
  Pools, Namespaces,
  Targets,    \* the target namespaces of each pool
  Sizes,      \* values of spec.goldenImages.pvcSizeGB
  Overlap,    \* a pool may be deleted while a pass that lists it runs
  Resizes,    \* pvcSizeGB may change while an image is there
  Edits,      \* bound: what persons change or delete
  Troubles    \* bound: calls that fail, imports that fail

VARIABLES
  pool,     \* [p -> "live", "deleting", "gone"]
  size,     \* [p -> pvcSizeGB]
  class,    \* [p -> the StorageClass exists]
  profile,  \* [p -> the StorageProfile's claimPropertySets and cloneStrategy]
  url,      \* the registry URL of the image's DataImportCron, a version
  native,   \* a pool StorageClass is the cluster's default
  dv,       \* [n -> the DataVolume golden-<image>]
  volume,   \* [n -> the pool that holds the golden claim's volume, NoPool]
  template, source, \* [n -> the Template, the DataSource]
  status,   \* [p -> [n -> status.goldenImages]]
  pass,     \* the syncer's pass
  dropped,  \* [n -> an image was deleted, by a person or with its pool]
  edits, trouble

cluster == <<class, profile, url, native, dv, volume, template, source, dropped>>
vars == <<pool, size, cluster, status, pass, edits, trouble>>

NoPool == "none"
None == [pool |-> NoPool]
Idle == [todo |-> <<>>, at |-> "idle", size |-> [p \in Pools |-> 0], url |-> 0,
         found |-> [p \in Pools |-> [n \in Namespaces |-> ""]]]
Work(P) == SetToSeq({<<p, n>> \in P \X Namespaces : n \in Targets[p]})
Unset == [sets |-> "none", strategy |-> "none"]

Init ==
  /\ pool = [p \in Pools |-> "live"] /\ \E s \in Sizes : size = [p \in Pools |-> s]
  /\ class = [p \in Pools |-> FALSE] /\ profile = [p \in Pools |-> Unset]
  /\ url = 1 /\ native = FALSE
  /\ dv = [n \in Namespaces |-> None] /\ volume = [n \in Namespaces |-> NoPool]
  /\ template = [n \in Namespaces |-> None] /\ source = [n \in Namespaces |-> None]
  /\ status = [p \in Pools |-> [n \in Namespaces |-> ""]]
  /\ pass = Idle /\ dropped = [n \in Namespaces |-> FALSE] /\ edits = 0 /\ trouble = 0

Calm == UNCHANGED trouble
Disturb == trouble < Troubles /\ trouble' = trouble + 1
Edit == edits < Edits /\ edits' = edits + 1

(***************************************************************************)
(* The reconciler.                                                          *)
(***************************************************************************)

\* patchStorageProfile: the access modes when there are none, the clone
\* strategy whenever it is another.
patchStorageProfile(x) == [sets |-> IF x.sets = "none" THEN "rwx" ELSE x.sets, strategy |-> "csi-clone"]

\* ensureStorageClasses leaves a class that exists as it is; its errors are
\* only logged.  CDI makes the profile of a class.
ensureClasses(p) ==
  /\ pool[p] = "live"
  /\ \/ class' = [class EXCEPT ![p] = TRUE] /\ Calm
     \/ class' = class /\ Disturb
  /\ profile' = IF class[p] THEN [profile EXCEPT ![p] = patchStorageProfile(@)] ELSE profile
  /\ UNCHANGED <<pool, size, url, native, dv, volume, template, source, dropped, status, pass, edits>>

Of(objects, p) == {n \in Namespaces : objects[n].pool = p}

\* What RemovePoolImages finds: the DataSources, and in each target namespace
\* the DataVolumes, claims and Templates with the pool's label.
PoolImages(p) ==
  [dv       |-> Of(dv, p) \intersect Targets[p],
   template |-> Of(template, p) \intersect Targets[p],
   source   |-> Of(source, p)]

Without(objects, gone) == [n \in Namespaces |-> IF n \in gone THEN None ELSE objects[n]]

RemovePoolImages(p) ==
  /\ pool[p] = "deleting"
  /\ \E o \in {"dv", "template", "source"} : PoolImages(p)[o] # {}
  /\ dv' = Without(dv, PoolImages(p).dv)
  /\ template' = Without(template, PoolImages(p).template)
  /\ source' = Without(source, PoolImages(p).source)
  /\ dropped' = [n \in Namespaces |-> dropped[n] \/ n \in PoolImages(p).dv]
  /\ Calm /\ UNCHANGED <<pool, size, class, profile, url, native, volume, status, pass, edits>>

\* handleDeletion: the pool goes when no image was found and no volume is
\* left; its StorageClass is its dependent.
handleDeletion(p) ==
  /\ pool[p] = "deleting"
  /\ \A o \in {"dv", "template", "source"} : PoolImages(p)[o] = {}
  /\ \A n \in Namespaces : volume[n] # p
  /\ \/ /\ pool' = [pool EXCEPT ![p] = "gone"] /\ class' = [class EXCEPT ![p] = FALSE]
        /\ profile' = [profile EXCEPT ![p] = Unset] /\ Calm
     \/ UNCHANGED <<pool, class, profile>> /\ Disturb
  /\ UNCHANGED <<size, url, native, dv, volume, template, source, dropped, status, pass, edits>>

(***************************************************************************)
(* The syncer's pass.                                                       *)
(***************************************************************************)

\* processOnce and discoverImages: the pools that are not being deleted, and
\* the image's URL.
processOnce ==
  LET P == {p \in Pools : pool[p] = "live"}
  IN  /\ pass.at = "idle" /\ ~native /\ P # {}
      /\ pass' = [Idle EXCEPT !.todo = Work(P), !.at = "volume", !.size = size, !.url = url]
      /\ Calm /\ UNCHANGED <<pool, size, cluster, status, edits>>

P1 == pass.todo[1][1]
N1 == pass.todo[1][2]
\* The outcome in one namespace; after the pool's last one its status is saved.
Found(s) == [pass EXCEPT !.todo = Tail(@), !.found[P1][N1] = s,
                         !.at = IF \E i \in 2 .. Len(pass.todo) : pass.todo[i][1] = P1 THEN "volume" ELSE "save"]

\* A DataVolume of the name is taken, whoever made it.
UsableMutant == dv[N1].pool # NoPool

Usable == dv[N1].pool = P1 /\ dv[N1].url = pass.url

\* syncImageInNamespace: only an image that is imported goes on to the catalog.
afterImport ==
  CASE ~Usable -> Found("Failed")
    [] dv[N1].phase = "Importing" -> Found("Syncing")
    [] dv[N1].phase = "Failed" -> Found("Failed")
    [] OTHER -> [pass EXCEPT !.at = "source"]

ensureGoldenDataVolume ==
  /\ pass.at = "volume"
  /\ \/ /\ dv[N1] = None
        /\ dv' = [dv EXCEPT ![N1] = [pool |-> P1, url |-> pass.url, size |-> pass.size[P1], phase |-> "Importing"]]
        /\ pass' = Found("Syncing") /\ Calm
     \/ /\ dv[N1] # None
        /\ pass' = afterImport
        /\ dv' = dv /\ Calm
     \/ pass' = Found("Failed") /\ dv' = dv /\ Disturb
  /\ UNCHANGED <<pool, size, class, profile, url, native, volume, template, source, dropped, status, edits>>

\* ensureDataSource: an error is only logged.
ensureDataSource ==
  /\ pass.at = "source" /\ pass' = [pass EXCEPT !.at = "template"]
  /\ \/ source' = [source EXCEPT ![N1] = IF @ = None THEN [pool |-> P1] ELSE @] /\ Calm
     \/ source' = source /\ Disturb
  /\ UNCHANGED <<pool, size, class, profile, url, native, dv, volume, template, dropped, status, edits>>

\* buildVMTemplate: the boot disk's size is the pool's.
buildVMTemplate == [pool |-> P1, size |-> pass.size[P1]]

ensureTemplate ==
  /\ pass.at = "template"
  /\ \/ template' = [template EXCEPT ![N1] = IF @ = None THEN buildVMTemplate ELSE @] /\ pass' = Found("Ready") /\ Calm
     \/ template' = template /\ pass' = Found("Failed") /\ Disturb
  /\ UNCHANGED <<pool, size, class, profile, url, native, dv, volume, source, dropped, status, edits>>

\* syncPool's end: the status is written to the pool as it is now.  The next pool
\* discovers the images again.
syncPool ==
  /\ pass.at = "save"
  /\ pass' = IF pass.todo = <<>> THEN Idle ELSE [pass EXCEPT !.at = "volume", !.found = Idle.found, !.url = url]
  /\ \/ status' = [p \in Pools |-> IF pool[p] = "gone" THEN status[p] ELSE
                     [n \in Namespaces |-> IF pass.found[p][n] = "" THEN status[p][n] ELSE pass.found[p][n]]] /\ Calm
     \/ status' = status /\ Disturb
  /\ UNCHANGED <<pool, size, cluster, edits>>

(***************************************************************************)
(* CDI and persons.                                                         *)
(***************************************************************************)

\* The claim's volume is made on the pool; then the image is imported.
Import(n) ==
  /\ dv[n] # None /\ dv[n].phase = "Importing" /\ class[dv[n].pool] /\ pool[dv[n].pool] # "gone"
  /\ volume[n] \in {NoPool, dv[n].pool}
  /\ volume' = [volume EXCEPT ![n] = dv[n].pool]
  /\ \/ dv' = [dv EXCEPT ![n].phase = "Succeeded"] /\ Calm
     \/ dv' = [dv EXCEPT ![n].phase = "Failed"] /\ Disturb
  /\ UNCHANGED <<pool, size, class, profile, url, native, template, source, dropped, status, pass, edits>>

\* The claim and its volume go after the DataVolume that owns them.
Collect(n) ==
  /\ volume[n] # NoPool /\ dv[n].pool # volume[n]
  /\ volume' = [volume EXCEPT ![n] = NoPool]
  /\ Calm /\ UNCHANGED <<pool, size, class, profile, url, native, dv, template, source, dropped, status, pass, edits>>

DeletePool(p) ==
  /\ pool[p] = "live" /\ Edit
  /\ Overlap \/ pass.at = "idle"
  /\ pool' = [pool EXCEPT ![p] = "deleting"]
  /\ Calm /\ UNCHANGED <<size, cluster, status, pass>>

\* Deleting the DataVolume is the documented way to try an import again.
DeleteVolume(n) ==
  /\ dv[n] # None /\ Edit
  /\ dv' = [dv EXCEPT ![n] = None] /\ dropped' = [dropped EXCEPT ![n] = TRUE]
  /\ Calm /\ UNCHANGED <<pool, size, class, profile, url, native, volume, template, source, status, pass>>

Resize(p) ==
  /\ Edit
  /\ Resizes \/ \A n \in Namespaces : dv[n] = None /\ template[n] = None /\ pass.at = "idle"
  /\ \E s \in Sizes \ {size[p]} : size' = [size EXCEPT ![p] = s]
  /\ Calm /\ UNCHANGED <<pool, cluster, status, pass>>

NewImage ==
  /\ url < 2 /\ Edit /\ url' = url + 1
  /\ Calm /\ UNCHANGED <<pool, size, class, profile, native, dv, volume, template, source, dropped, status, pass>>

SetDefault ==
  /\ Edit /\ native' = ~native
  /\ Calm /\ UNCHANGED <<pool, size, class, profile, url, dv, volume, template, source, dropped, status, pass>>

SetProfile(p) ==
  /\ class[p] /\ Edit
  /\ profile' = [profile EXCEPT ![p] = [sets |-> "chosen", strategy |-> "chosen"]]
  /\ Calm /\ UNCHANGED <<pool, size, class, url, native, dv, volume, template, source, dropped, status, pass>>

Next ==
  \/ processOnce \/ ensureGoldenDataVolume \/ ensureDataSource \/ ensureTemplate \/ syncPool \/ NewImage \/ SetDefault
  \/ \E p \in Pools : ensureClasses(p) \/ RemovePoolImages(p) \/ handleDeletion(p) \/ DeletePool(p) \/ Resize(p) \/ SetProfile(p)
  \/ \E n \in Namespaces : Import(n) \/ Collect(n) \/ DeleteVolume(n)

Sync == processOnce \/ ensureGoldenDataVolume \/ ensureDataSource \/ ensureTemplate \/ syncPool

Spec == Init /\ [][Next]_vars

\* The reconciler and the syncer pass again and again, CDI works, and what has
\* no owner is collected.
FairSpec ==
  /\ Spec
  /\ \A p \in Pools : WF_vars(ensureClasses(p)) /\ WF_vars(RemovePoolImages(p)) /\ WF_vars(handleDeletion(p))
  /\ \A n \in Namespaces : WF_vars(Import(n)) /\ WF_vars(Collect(n))
  /\ WF_vars(Sync)

-----------------------------------------------------------------------------

TypeOK ==
  /\ pool \in [Pools -> {"live", "deleting", "gone"}] /\ size \in [Pools -> Sizes] /\ url \in 1..2
  /\ \A n \in Namespaces : /\ dv[n] # None => dv[n].phase \in {"Importing", "Succeeded", "Failed"}
                           /\ {dv[n].pool, volume[n], template[n].pool, source[n].pool} \subseteq Pools \union {NoPool}
  /\ pass.at \in {"idle", "volume", "source", "template", "save"} /\ (pass.todo = <<>> => pass.at \in {"idle", "save"})
  /\ \A p \in Pools, n \in Namespaces : status[p][n] \in {"", "Syncing", "Failed", "Ready"}

\* A catalog entry (Template or DataSource) shows an image that its pool has
\* imported to the end, until the image is deleted.
EntryHasImage ==
  \A n \in Namespaces : \A e \in {template[n], source[n]} :
    e # None /\ ~dropped[n] => dv[n].pool = e.pool /\ dv[n].phase = "Succeeded"

\* Deleting a pool deletes its golden image objects: none is left of a pool
\* that is gone.
GoneLeavesNothing ==
  \A p \in Pools : pool[p] = "gone" => Of(dv, p) = {} /\ Of(template, p) = {} /\ Of(source, p) = {}

\* The boot disk of a Template is as large as the golden image it is copied
\* from.
BootDiskFits == \A n \in Namespaces : template[n] # None /\ dv[n] # None /\ ~dropped[n] => template[n].size >= dv[n].size

\* A clone strategy that a person set stays until a person changes it.
ChoiceKept == [][\A p \in Pools : profile[p].strategy = "chosen" /\ pool'[p] # "gone" => profile'[p].strategy = "chosen"]_vars

ImagesSettled ==
  \A p \in Pools : /\ pool[p] # "deleting"
                   /\ \A n \in Targets[p] : status[p][n] \in {"Ready", "Failed"} \/ pool[p] # "live" \/ native

\* Again and again, no pool is left half deleted, and every target namespace of
\* a pool has its image, or the pool's status says that it failed.
ImagesArrive == []<>ImagesSettled
=============================================================================
