----------------------------- MODULE MCDiskChain -----------------------------
(***************************************************************************)
(* DiskChain for TLC: snapshots are interchangeable.  A VM may be stored   *)
(* later than it was admitted, and the cached list of volumes may lack a   *)
(* restore; the cached copies of the volume and its snapshots are current. *)
(***************************************************************************)
EXTENDS DiskChain, TLC

SnapSymmetry == Permutations(Snaps)

\* A behaviour is followed until no property speaks of it any more.
Followed == Undisturbed /\ ~rest.overlooked

-----------------------------------------------------------------------------
\* A Job that changes the disk's files never runs while a VM starts or runs
\* with the disk (checkVMStopped, and the mark that the webhook reads).  The
\* code has three gaps, which are left out here and of which the first is the
\* run disk_marked: a VM admitted before the mark and stored after the check; a
\* call cut between mark and check, which is not checked again; a webhook that
\* cannot read the SubVolume and admits the VM.  In every other order of starts,
\* stops, cut calls, repeated calls and Jobs the two are apart.
JobsApart == TypeOK /\ JobAlone
=============================================================================
