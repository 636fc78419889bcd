--------------------------- MODULE MCHelmRelease ---------------------------
(* Instances of HelmRelease for TLC: a Deployment and a StatefulSet. *)
EXTENDS HelmRelease

CONSTANTS deployment, statefulset

Both     == {deployment, statefulset}
Stateful == {statefulset}

=============================================================================
