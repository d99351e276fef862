---- MODULE UserSync ----
(* Users.  The rhsso reconciler keeps a KeycloakUser for every OpenShift user of an
   active identity provider, and 3scale's reconciler an account in 3scale for every
   KeycloakUser, whose id it records in the KeycloakUser.  The two run one after the
   other in every reconcile of the RHMI.  Meanwhile the Keycloak operator removes
   deleted KeycloakUsers, users come and go, and accounts are renamed, deleted and
   demoted in 3scale.  (The install type is managed-api.  A user deleted and created
   again under the same name is the same user here, since it is found by name.) *)
EXTENDS Naturals, FiniteSets

CONSTANTS Users,      \* OpenShift users
          Lower(_),   \* their names in lower case
          MaxEvents,  \* bound on changes by people and on failures
          MaxId       \* bound on 3scale accounts ever created

VARIABLES
    active,    \* users with an identity of an active identity provider
    excluded,  \* users in an exclusion group
    admins,    \* users in dedicated-admins
    kc,        \* KeycloakUsers: state, instance label, and the 3scale id recorded
    accounts,  \* 3scale accounts but the system's own: id, name, admin
    lastId,
    pass,      \* where the pass is, and the KeycloakUsers and accounts it has read
    events

vars == <<active, excluded, admins, kc, accounts, lastId, pass, events>>
people == <<active, excluded, admins>>

Names  == {Lower(u) : u \in Users} \union {"renamed"}
NoUser == [state |-> "none", label |-> FALSE, id |-> 0]
Start  == [at |-> "rhsso", kcu |-> {}, ts |-> {}]

Init ==
    /\ active = {} /\ excluded = {} /\ admins = {} /\ kc = [u \in Users |-> NoUser]
    /\ accounts = {} /\ lastId = 0 /\ pass = Start /\ events = 0

Event == events < MaxEvents /\ events' = events + 1
Fine  == UNCHANGED events

Named(n) == {a \in accounts : a.name = n}

--------------------------------------------------------------------------------
\* Users log in for the first time, are deleted or leave the active providers; they
\* join and leave groups.
ChangeUser ==
    /\ Event
    /\ \E u \in Users :
         \/ active' = (active \ {u}) \union ({u} \ active) /\ UNCHANGED <<excluded, admins>>
         \/ u \notin excluded /\ excluded' = excluded \union {u} /\ UNCHANGED <<active, admins>>
         \/ admins' = (admins \ {u}) \union ({u} \ admins) /\ UNCHANGED <<active, excluded>>
    /\ UNCHANGED <<kc, accounts, lastId, pass>>

\* In 3scale an account is renamed to a free name, deleted or demoted.
ChangeAccount ==
    /\ Event
    /\ \E a \in accounts :
         \/ \E n \in Names : Named(n) = {} /\ accounts' = (accounts \ {a}) \union {[a EXCEPT !.name = n]}
         \/ accounts' = accounts \ {a}
         \/ a.admin /\ accounts' = (accounts \ {a}) \union {[a EXCEPT !.admin = FALSE]}
    /\ UNCHANGED <<people, kc, lastId, pass>>

\* The Keycloak operator removes a user from Keycloak, and its finalizer.
FinalizeUser(u) ==
    /\ kc[u].state = "deleting" /\ kc' = [kc EXCEPT ![u] = NoUser]
    /\ UNCHANGED <<people, accounts, lastId, pass, events>>

--------------------------------------------------------------------------------
\* rhsso.  Users are compared by name.
Listed   == {u \in Users : kc[u].label}
KcDelete == Listed \ active
KcAdd    == (active \ Listed) \ excluded

Deleted(u) == [kc[u] EXCEPT !.state = "deleting"]
Created(u) == [kc[u] EXCEPT !.state = IF @ = "none" THEN "live" ELSE @, !.label = TRUE]
WriteUsers(del, add) ==
    kc' = [u \in Users |-> IF u \in del THEN Deleted(u) ELSE IF u \in add THEN Created(u) ELSE kc[u]]

\* Deletes the KeycloakUsers of users that are gone, and then creates the missing
\* ones and writes the others as they were; a failure ends it.
syncronizeWithOpenshiftUsers ==
    /\ pass.at = "rhsso" /\ pass' = [Start EXCEPT !.at = "3scale"]
    /\ \/ Fine /\ WriteUsers(KcDelete, KcAdd)
       \/ /\ Event
          /\ \/ \E del \in SUBSET KcDelete : WriteUsers(del, {})
             \/ \E add \in SUBSET KcAdd : WriteUsers(KcDelete, add)
    /\ UNCHANGED <<people, accounts, lastId>>

--------------------------------------------------------------------------------
\* 3scale.  It reads the KeycloakUsers and the accounts once.
ReadUsers ==
    /\ pass.at = "3scale"
    /\ \/ Fine /\ pass' = [at |-> "delete", kcu |-> Listed, ts |-> accounts]
       \/ Event /\ pass' = Start
    /\ UNCHANGED <<people, kc, accounts, lastId>>

\* getUserDiff: accounts whose name no KeycloakUser has, split by whether one records
\* their id; and KeycloakUsers whose name no account has.
Recorded(id) == \E u \in Users : kc[u].label /\ kc[u].id = id
Unknown == {a \in pass.ts : \A u \in pass.kcu : Lower(u) # a.name}

\* Mutant: the ids are not compared.
tsDeletedByName == Unknown

tsDeleted == {a \in Unknown : \A u \in pass.kcu : kc[u].id # a.id}
tsUpdated == Unknown \ tsDeleted
tsAdded   == {u \in pass.kcu : \A a \in pass.ts : a.name # Lower(u)}

\* Deletions come first; one that fails is only logged.  An account whose KeycloakUser
\* could not be read to compare the ids is taken for one to delete.
DeleteUsers ==
    /\ pass.at = "delete"
    /\ \E gone \in SUBSET Unknown :
         /\ IF gone = tsDeleted THEN Fine ELSE Event
         /\ accounts' = {a \in accounts : \A b \in gone : a.id # b.id}
    /\ pass' = [pass EXCEPT !.at = "update"]
    /\ UNCHANGED <<people, kc, lastId>>

\* A renamed account gets the name of a KeycloakUser that records its id, if that is
\* free; an update that fails is only logged.
Restored(a) ==
    {[a EXCEPT !.name = Lower(u)] : u \in {v \in Users : /\ \E b \in tsUpdated : b.id = a.id
                                                         /\ kc[v].label /\ kc[v].id = a.id}}
UpdateUsers ==
    /\ pass.at = "update"
    /\ \E f \in [accounts -> accounts \union UNION {Restored(a) : a \in accounts}] :
         /\ \A a \in accounts : f[a] \in Restored(a) \union {a}
         /\ \A a, b \in accounts : f[a].name = f[b].name => a = b
         /\ IF \A a \in accounts : \/ f[a] \in Restored(a)
                                  \/ \A r \in Restored(a) : \E b \in accounts : f[b].name = r.name
            THEN Fine ELSE Event
         /\ accounts' = {f[a] : a \in accounts}
    /\ pass' = [pass EXCEPT !.at = "add"]
    /\ UNCHANGED <<people, kc, lastId>>

\* An account is added for every name that has none by now; a failure is only logged.
AddUsers ==
    LET new == {Lower(u) : u \in tsAdded} \ {a.name : a \in accounts} IN
    /\ pass.at = "add" /\ lastId + Cardinality(new) <= MaxId
    /\ \E some \in SUBSET new :
         /\ IF some = new THEN Fine ELSE Event
         /\ lastId' = lastId + Cardinality(some)
         /\ \E id \in [some -> lastId + 1 .. lastId + Cardinality(some)] :
              /\ \A m, n \in some : id[m] = id[n] => m = n
              /\ accounts' = accounts \union {[id |-> id[n], name |-> n, admin |-> FALSE] : n \in some}
    /\ pass' = [pass EXCEPT !.at = "record"]
    /\ UNCHANGED <<people, kc>>

\* The id of its account is written to every KeycloakUser that was read at first.  One
\* that is gone by now is created again, without the label.  A user whose account cannot
\* be read is passed over; a write that fails ends the pass.
RecordId(u) ==
    LET mine == {a.id : a \in Named(Lower(u))} IN
    IF u \notin pass.kcu \/ mine = {} THEN kc[u]
    ELSE [state |-> IF kc[u].state = "none" THEN "live" ELSE kc[u].state,
          label |-> kc[u].label, id |-> CHOOSE i \in mine : TRUE]

\* Mutant: an id that was recorded once is kept.
RecordOnce(u) == IF kc[u].id # 0 THEN kc[u] ELSE RecordId(u)

Record(u) == RecordId(u)

updateKeycloakUsersAttributeWith3ScaleUserId ==
    /\ pass.at = "record"
    /\ \/ Fine /\ kc' = [u \in Users |-> Record(u)] /\ pass' = [pass EXCEPT !.at = "admins"]
       \/ /\ Event /\ pass' \in {Start, [pass EXCEPT !.at = "admins"]}
          /\ \E done \in SUBSET pass.kcu : kc' = [u \in Users |-> IF u \in done THEN Record(u) ELSE kc[u]]
    /\ UNCHANGED <<people, accounts, lastId>>

\* Members of dedicated-admins become administrators; none is demoted here.
IsAdmin(a) == \E u \in admins : Lower(u) = a.name
Promote(as) == accounts' = {[a EXCEPT !.admin = a.admin \/ a \in as] : a \in accounts}
syncOpenshiftAdminMembership ==
    /\ pass.at = "admins" /\ pass' = Start
    /\ \/ Fine /\ Promote({a \in accounts : IsAdmin(a)})
       \/ Event /\ \E as \in SUBSET {a \in accounts : IsAdmin(a)} : Promote(as)
    /\ UNCHANGED <<people, kc, lastId>>

Step ==
    \/ syncronizeWithOpenshiftUsers \/ ReadUsers \/ DeleteUsers \/ UpdateUsers \/ AddUsers
    \/ updateKeycloakUsersAttributeWith3ScaleUserId \/ syncOpenshiftAdminMembership

Next == ChangeUser \/ ChangeAccount \/ (\E u \in Users : FinalizeUser(u)) \/ Step

\* The RHMI is reconciled again and again, and the Keycloak operator works.
Fairness == []<><<pass' # pass>>_vars /\ \A u \in Users : WF_vars(FinalizeUser(u))

Spec == Init /\ [][Next]_vars /\ Fairness

--------------------------------------------------------------------------------
\* Type invariant; the names and the ids of the accounts are unique.
TypeOK ==
    /\ active \subseteq Users /\ excluded \subseteq Users /\ admins \subseteq Users
    /\ kc \in [Users -> [state : {"none", "live", "deleting"}, label : BOOLEAN, id : 0 .. MaxId]]
    /\ accounts \subseteq [id : 1 .. MaxId, name : Names, admin : BOOLEAN]
    /\ \A a, b \in accounts : a.name = b.name \/ a.id = b.id => a = b
    /\ lastId \in 0 .. MaxId /\ pass.kcu \subseteq Users

\* Unless a read fails, the synchronisation never deletes an account whose id a
\* KeycloakUser records, though it was renamed in 3scale: it gets its name back.
RecordedKept ==
    pass.at = "delete" /\ pass'.at = "update" /\ events' = events
        => \A a \in accounts : Recorded(a.id) => a \in accounts'

\* Users are in step: every active user, but those excluded before they were first seen, has
\* a KeycloakUser that records its account, and dedicated administrators are
\* administrators in 3scale; everyone else's KeycloakUser and account are gone.
InStep ==
    /\ \A u \in active \ excluded :
         /\ kc[u].state = "live" /\ kc[u].label
         /\ \E a \in Named(Lower(u)) : kc[u].id = a.id /\ (u \in admins => a.admin)
    /\ \A u \in Users : kc[u].label => u \in active
    /\ \A a \in accounts : \E u \in Users : kc[u].label /\ Lower(u) = a.name
====
