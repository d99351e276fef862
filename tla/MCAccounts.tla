---- MODULE MCAccounts ----
(* Instance of Accounts for TLC.  Tenants start with one user and two failures to come, with
   two or three users and one, or with one user that asks for three tenants, one of them in
   ann-stage-dev, and one.  Users bob-k and bob--k have the same tenant name.  Two users fill
   the pages that are read, the accounts of three reach beyond.  Of the people two have names
   that differ in case only. *)
EXTENDS Accounts

ann == <<"ann">>
bob == <<"bob", "k">>
rob == <<"bob", "", "k">>

MCUsers   == {ann, bob, rob}
In(names) == {<<n, "t">> : n \in names}
Dev(us)   == In({Append(u, "dev") : u \in us})
Anns      == In({<<"ann", "dev">>, <<"ann", "stage">>, <<"ann", "stage", "dev">>})
MCTenants == Dev(MCUsers) \union Anns
MCStarts  ==
    {[users |-> {ann}, tenants |-> Dev({ann}), trouble |-> 0],
     [users |-> {ann, rob}, tenants |-> Dev({ann, rob}), trouble |-> 1],
     [users |-> MCUsers, tenants |-> Dev(MCUsers), trouble |-> 1],
     [users |-> {ann}, tenants |-> Anns, trouble |-> 1]}
MCTenantName == [u \in MCUsers |-> IF u = ann THEN ann ELSE bob]
MCInside == {<<n, n>> : n \in {ann, bob}}
MCLower(u) == IF u = "Ann" THEN "ann" ELSE u
====
