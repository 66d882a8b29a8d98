------------------------------- MODULE ByoHost -------------------------------
(***************************************************************************)
(* The ByoHost object as the API server stores it, the edits the three     *)
(* reconcilers make to their private copies of it, and the patch helper    *)
(* that turns such an edit into API calls.                                 *)
(*                                                                         *)
(* Data abstraction.  The claim of a host (byomachine_controller.go        *)
(* 789-863) writes the cluster-name label, the attached-machine label,     *)
(* Spec.BootstrapSecret and the endpoint annotations with ONE call, and    *)
(* the agent's removeAnnotations (host_reconciler.go 1030-1064) removes    *)
(* them with ONE call, so they are a single field, "label".  Annotations   *)
(* holding a time keep only whether the cleanup timeout has passed since.  *)
(***************************************************************************)
EXTENDS Naturals

CONSTANTS Machines,    \* UIDs of the ByoMachine objects
          NoMachine    \* a nil reference

ASSUME NoMachineAssumption == NoMachine \notin Machines

MaybeMachine == Machines \cup {NoMachine}

(* Age of a timestamp relative to the host's cleanup timeout. *)
Ages == {"none", "fresh", "old"}

(* K8sNodeBootstrapSucceeded: never set; False because the node was reset  *)
(* (K8sNodeAbsent); False for any other reason; True.                      *)
BootConds == {"unset", "absent", "failed", "true"}

HostRec == [registered : BOOLEAN,        \* the object exists
            ref        : MaybeMachine,   \* Status.MachineRef
            label      : MaybeMachine,   \* the metadata and spec half of a claim
            cleanup    : Ages,           \* HostCleanupAnnotation and its age
            startedAt  : Ages,           \* cleanup-started-at annotation
            boot       : BootConds,      \* K8sNodeBootstrapSucceeded
            comp       : BOOLEAN]        \* K8sComponentsInstallationSucceeded is True

(* What Register creates. *)
FreshHost == [registered |-> TRUE, ref |-> NoMachine, label |-> NoMachine,
              cleanup |-> "none", startedAt |-> "none", boot |-> "unset", comp |-> FALSE]

AbsentHost == [FreshHost EXCEPT !.registered = FALSE]

IsAvailable(r) == r.ref = NoMachine

(* Faulty variant: selection by label only, without IsAvailable. *)
ClaimableByLabel(r) == r.registered /\ r.label = NoMachine

(* The hosts attachByoHost lists and selectHostForClaim keeps. *)
Claimable(r) == r.registered /\ r.label = NoMachine /\ IsAvailable(r)

-----------------------------------------------------------------------------
(* Edits of a reconciler's copy.                                           *)

(* attachByoHost: reference, labels, bootstrap secret. *)
Claimed(r, m) == [r EXCEPT !.ref = m, !.label = m]

(* Faulty variant: the labels are removed when the clean-up is asked for. *)
MarkedAndUnlabelled(r) ==
    [r EXCEPT !.cleanup = IF r.cleanup = "none" THEN "fresh" ELSE r.cleanup,
              !.ref     = NoMachine, !.label = NoMachine]

(* markHostForCleanup: the annotation value is "" each time, so marking a  *)
(* marked host changes nothing but the reference.                          *)
MarkedForCleanup(r) ==
    [r EXCEPT !.cleanup = IF r.cleanup = "none" THEN "fresh" ELSE r.cleanup,
              !.ref     = NoMachine]

(* ByoHostReconciler: first sight of the cleanup annotation. *)
CleanupTimed(r) == [r EXCEPT !.startedAt = "fresh"]

(* Faulty variant: the forced clean-up gives the host back to the pool. *)
ForceReleased(r) ==
    [r EXCEPT !.ref = NoMachine, !.label = NoMachine, !.boot = "true",
              !.cleanup = "none", !.startedAt = "none"]

(* ByoHostReconciler: forced cleanup.  The audit annotation is set and     *)
(* deleted again before the patch (145, 153), so it never reaches the API. *)
ForceCleaned(r) ==
    [r EXCEPT !.ref = NoMachine, !.boot = "true",
              !.cleanup = "none", !.startedAt = "none"]

(* hostCleanUp up to the two steps that can fail: the conditions only. *)
ConditionsReset(r) == [r EXCEPT !.boot = "absent", !.comp = FALSE]

(* Faulty variant: removeAnnotations forgets the labels. *)
CleanedUpKeepingLabels(r) ==
    [ConditionsReset(r) EXCEPT !.ref = NoMachine, !.cleanup = "none", !.startedAt = "none"]

(* hostCleanUp to its end, removeAnnotations included. *)
CleanedUp(r) ==
    [ConditionsReset(r) EXCEPT !.ref = NoMachine, !.label = NoMachine,
                               !.cleanup = "none", !.startedAt = "none"]

-----------------------------------------------------------------------------
(* patch.Helper.Patch (Cluster API v1.4.4): it compares the copy as read    *)
(* (b) with the copy as edited (a) and issues up to three calls, in this   *)
(* order: conditions, metadata and spec, status.  A call carries only the  *)
(* fields that differ.  Only the conditions are merged against the stored  *)
(* object (s): if one changed since it was read, and not to the wanted     *)
(* value, the call fails as a whole; the other two calls are still made.   *)

CondsDiffer(b, a)  == <<b.boot, b.comp>> # <<a.boot, a.comp>>
MetaDiffer(b, a)   == <<b.label, b.cleanup, b.startedAt>> # <<a.label, a.cleanup, a.startedAt>>
StatusDiffer(b, a) == b.ref # a.ref

Unless(same, old, new) == IF same THEN old ELSE new

CondsConflict(s, b, a) ==
    \/ a.boot # b.boot /\ s.boot \notin {b.boot, a.boot}
    \/ a.comp # b.comp /\ s.comp \notin {b.comp, a.comp}

MergeConds(s, b, a) ==
    [s EXCEPT !.boot = Unless(a.boot = b.boot, s.boot, a.boot),
              !.comp = Unless(a.comp = b.comp, s.comp, a.comp)]

MergeMeta(s, b, a) ==
    [s EXCEPT !.label     = Unless(a.label = b.label, s.label, a.label),
              !.cleanup   = Unless(a.cleanup = b.cleanup, s.cleanup, a.cleanup),
              !.startedAt = Unless(a.startedAt = b.startedAt, s.startedAt, a.startedAt)]

MergeStatus(s, b, a) == [s EXCEPT !.ref = Unless(a.ref = b.ref, s.ref, a.ref)]

(* The call to make once the calls of the stages before s are over. *)
Stages == {"conds", "meta", "status"}

StageFrom(s, b, a) ==
    IF s = "conds" /\ CondsDiffer(b, a) THEN "conds"
    ELSE IF s \in {"conds", "meta"} /\ MetaDiffer(b, a) THEN "meta"
    ELSE IF s \in Stages /\ StatusDiffer(b, a) THEN "status"
    ELSE "done"

StageAfter(s, b, a) ==
    StageFrom(CASE s = "conds" -> "meta" [] s = "meta" -> "status" [] OTHER -> "done", b, a)

Conflict(st, s, b, a) == st = "conds" /\ CondsConflict(s, b, a)

Merge(st, s, b, a) ==
    CASE st = "conds"  -> MergeConds(s, b, a)
      [] st = "meta"   -> MergeMeta(s, b, a)
      [] st = "status" -> MergeStatus(s, b, a)
      [] OTHER         -> s
==============================================================================
