---- MODULE SecretCustody ----
(* What the installation promises about a secret that an operator of a product
   generates and the product's data depends on: the system seed of 3scale, the
   administrator credentials of the two Keycloak servers.  The copy in the
   product's namespace is live; the copy in the operator's own namespace is
   saved.  The product's namespace may be lost with everything in it, while
   the databases behind it stay.  The saved copy must survive that, and the
   product must come back with it. *)
EXTENDS Naturals

CONSTANT None   \* no copy of the secret

VARIABLES live, saved

custody == <<live, saved>>

\* The product is not installed yet, or is and has saved its secret.
Init == live = saved /\ live \in Nat \union {None}

\* The product's operator makes up a value, for a product that has none.
Generate ==
    /\ live = None /\ saved = None
    /\ live' \in Nat \ {None}
    /\ UNCHANGED saved

\* The value in use is copied to the operator's namespace.
Save ==
    /\ live # None
    /\ saved' = live
    /\ UNCHANGED live

\* The saved value is copied back before the product is created again.
Restore ==
    /\ saved # None
    /\ live' = saved
    /\ UNCHANGED saved

Lose ==
    /\ live' = None
    /\ UNCHANGED saved

Next == Generate \/ Save \/ Restore \/ Lose

Spec == Init /\ [][Next]_custody

\* A live copy next to a saved one is the saved one: the reason why saving
\* again, which every reconcile of a product does, replaces nothing.
CopiesAgree == live # None /\ saved # None => live = saved

\* Once saved, the value is never replaced: the data that was written with it
\* stays readable however often the product's namespace is lost.
NeverReplaced == [][saved # None => saved' = saved]_custody
====
