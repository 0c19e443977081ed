-------------------------- MODULE MCShareProvision --------------------------
(***************************************************************************)
(* The instance of ShareProvision that TLC checks, with what keeps it      *)
(* small.                                                                  *)
(***************************************************************************)
EXTENDS ShareProvision

\* A copy that is no longer the latest version is not looked at again: the
\* Manager's when it saves, the Reconciler's in its last update.
View ==
    <<pool, cache, vols, current, vpc, faults, asks, late,
      rec.pc, IF rec.pc = "persist" /\ "rec" \notin current THEN Idle ELSE rec,
      IF "mgr" \in current THEN mgr ELSE [mgr EXCEPT !.copy = NewPool]>>

\* Once both a fault and a request of the administrator have happened, no
\* further expansion is followed to its end.
Bounded == faults + asks <= 1 \/ (rec.pc # "expand" /\ mgr.pc # "expandWait")
=============================================================================
