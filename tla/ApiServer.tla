------------------------------- MODULE ApiServer -------------------------------
(***************************************************************************)
(* The part of the Kubernetes API server that the operator relies on when  *)
(* it writes the RHMI custom resource: optimistic concurrency on           *)
(* resourceVersion, the status subresource and finalizers.  The server is  *)
(* not code of the repository; it is modelled from how the repository uses *)
(* it.                                                                     *)
(*                                                                         *)
(* An object is a record with the fields exists, rv, deleting, fin and st. *)
(* A resourceVersion is only ever compared for equality, so a version is a *)
(* token that no live copy of the object carries when it is handed out.    *)
(***************************************************************************)
EXTENDS Naturals

RVs == 0 .. 3

\* A resourceVersion none of three copies of the object carries.
FreshRV(a, b, c) == CHOOSE v \in RVs : v \notin {a.rv, b.rv, c.rv}

\* The server accepts a write only for the version it holds.
Accepts(server, obj) == server.exists /\ server.rv = obj.rv

\* The object is removed when it is being deleted and has no finalizer left.
Collected(obj, gone) == IF obj.deleting /\ obj.fin = {} THEN gone ELSE obj

\* client.Update: takes the metadata and ignores the status; a write that
\* changes nothing leaves the version alone.  The server answers with this
\* object, and keeps it unless it is to be removed.
Stored(server, obj, rv) ==
  IF obj.fin = server.fin THEN server ELSE [server EXCEPT !.fin = obj.fin, !.rv = rv]

Put(server, obj, rv, gone) == Collected(Stored(server, obj, rv), gone)

\* client.Status().Update: stores the status and ignores the metadata.
PutStatus(server, obj, rv) ==
  IF obj.st = server.st THEN server ELSE [server EXCEPT !.st = obj.st, !.rv = rv]

================================================================================
