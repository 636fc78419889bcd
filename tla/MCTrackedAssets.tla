--------------------------- MODULE MCTrackedAssets ---------------------------
(* Instances of TrackedAssets for TLC. *)
EXTENDS TrackedAssets, TLC

CONSTANTS f1, f2, v1, v2, p1, p2, t1, t2

(* Two profiles that share the file f1, as profiles share modules. *)
SharedModule == (p1 :> {f1, f2}) @@ (p2 :> {f1})

(* Two profiles made of the same file. *)
SameFile == (p1 :> {f1}) @@ (p2 :> {f1})

AllOrFirst == {{f1, f2}, {f1}}
AllOnly    == {Files}


=============================================================================
