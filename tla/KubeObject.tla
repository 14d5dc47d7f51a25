----------------------------- MODULE KubeObject -----------------------------
(***************************************************************************)
(* The life of one object in the Kubernetes API server, as far as the KNL  *)
(* operator depends on it.  An object that carries the operator's          *)
(* finalizer survives a delete request (it only gets a deletionTimestamp)  *)
(* and goes away when the finalizer is removed.  The API server is not     *)
(* part of the repository: this is how src/ uses it.                       *)
(***************************************************************************)

\* "gone"  : not stored
\* "bare"  : stored, no finalizer (a bare object never has a
\*           deletionTimestamp: deleting it removes it at once)
\* "held"  : stored with finalizer lab.kubenetlab.net/finalizer
\* "dying" : held, and with a deletionTimestamp
Phase == {"gone", "bare", "held", "dying"}

Exists(obj)       == obj.ph # "gone"
HasFinalizer(obj) == obj.ph \in {"held", "dying"}

\* controllerutil.AddFinalizer followed by Update.
WithFinalizer(obj) ==
  [obj EXCEPT !.ph = IF @ = "bare" THEN "held" ELSE @]

\* controllerutil.RemoveFinalizer followed by Update.
WithoutFinalizer(obj) ==
  [obj EXCEPT !.ph = CASE @ = "held"  -> "bare"
                       [] @ = "dying" -> "gone"
                       [] OTHER       -> @]

\* A delete request, from a user or from the garbage collector.
Deleted(obj) ==
  [obj EXCEPT !.ph = CASE @ = "bare" -> "gone"
                       [] @ = "held" -> "dying"
                       [] OTHER      -> @]

=============================================================================
