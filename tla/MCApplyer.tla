----------------------------- MODULE MCApplyer ------------------------------
(***************************************************************************)
(* Applyer for TLC: the manifests and the commands of the runs.            *)
(***************************************************************************)
EXTENDS Applyer, TLC

CONSTANTS n1, n2, n3, ns1, v1, v2, f1, f2, f3, f4

Doc(name, ns, value) == [name |-> name, ns |-> ns, value |-> value]

\* n1 is mentioned twice in f1, with different values; n2 is of the whole
\* cluster; f3 has a document that cannot be decoded and f4 begins with a kind
\* that is not known.
Manifests ==
  (f1 :> <<Doc(n1, ns1, v1), Doc(n1, NoNamespace, v2)>>)
    @@ (f2 :> <<Doc(n2, NoNamespace, v1)>>)
    @@ (f3 :> <<Doc(n2, NoNamespace, v2), Malformed>>)
    @@ (f4 :> <<Doc(n3, ns1, v1)>>)

Order(op, serverSide, dryRun, force, ns, files) ==
  [op |-> op, serverSide |-> serverSide, dryRun |-> dryRun, force |-> force,
   ns |-> ns, files |-> files]

\* Server-side apply and delete of two good files, client-side apply of one; an
\* apply and a delete of one file with Force; dry applies; commands without
\* namespace; files that are broken, not there (a run goes on without them), or
\* of a kind that is not known.
Orders ==
  {Order("apply", TRUE, FALSE, FALSE, ns1, {f1, f2}), Order("apply", FALSE, FALSE, FALSE, ns1, {f1})}
    \cup {Order("delete", FALSE, FALSE, FALSE, ns1, {f1, f2})}
    \cup {Order("apply", TRUE, FALSE, TRUE, ns1, {f1}), Order("delete", FALSE, FALSE, TRUE, ns1, {f1})}
    \cup {Order("apply", s, TRUE, FALSE, ns1, {f1}) : s \in BOOLEAN}
    \cup {Order("apply", s, FALSE, FALSE, NoNamespace, {f1}) : s \in BOOLEAN}
    \cup {Order(op, FALSE, FALSE, FALSE, ns1, {f1, f3}) : op \in {"apply", "delete"}}
    \cup {Order("apply", FALSE, FALSE, FALSE, ns1, {f2, f4})}
    \cup {Order(op, FALSE, FALSE, FALSE, ns1, {}) : op \in {"apply", "delete"}}
    \cup {Order("unknown", FALSE, FALSE, FALSE, ns1, {f2})}

\* One delete that is meant to be dry.
DryDeletes == {Order("delete", FALSE, TRUE, FALSE, ns1, {f1, f2})}

ApplyerSymmetry == Permutations(Dialers)
=============================================================================
