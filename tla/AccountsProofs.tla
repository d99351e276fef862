---- MODULE AccountsProofs ----
(* Tenants, users and logins, for any users, tenant resources and namespaces and any number
   of failures.  Of the tenants (module TenancyProofs): no user has two that are
   provisioned in the user's two namespaces, and none gets a second account while the
   first is in use and was read.  Of the users: the names and the
   ids of the accounts in 3scale stay unique, and an account whose id a KeycloakUser
   records survives the synchronisation.  Of the logins: every copy of a client secret is
   one that was generated, or typed by somebody. *)
EXTENDS TenancyProofs

--------------------------------------------------------------------------------
(* Users: x1, x2 and x3 are the active and the excluded users and the administrators, x4
   the KeycloakUsers, x5 the accounts of 3scale, x6 the last id that it gave. *)

AccountNames == {Lower(u) : u \in People} \union {"renamed"}
UserAccounts == [id : 1 .. MaxId, name : AccountNames, admin : BOOLEAN]
KeycloakUsers == [state : {"none", "live", "deleting"}, label : BOOLEAN, id : 0 .. MaxId]
SyncSteps == {"rhsso", "3scale", "delete", "update", "add", "record", "admins"}

UsersTyped ==
    /\ x1 \subseteq People /\ x2 \subseteq People /\ x3 \subseteq People
    /\ x4 \in [People -> KeycloakUsers] /\ x5 \subseteq UserAccounts /\ x6 \in 0 .. MaxId
    /\ pass \in [at : SyncSteps, kcu : SUBSET People, ts : SUBSET UserAccounts]
    /\ mishaps \in Nat

\* Names and ids are unique, also among the accounts to come.
AccountsUnique ==
    /\ \A a, b \in x5 : a.name = b.name \/ a.id = b.id => a = b
    /\ \A a \in x5 : a.id <= x6

\* KeycloakUsers that could record an id were read before accounts are deleted: they
\* only get fewer in between.
ListedAreRead == pass.at = "delete" => \A u \in People : x4[u].label => u \in pass.kcu

UsersInv == UsersTyped /\ AccountsUnique /\ ListedAreRead

\* The type invariant follows.
LEMMA UsersAreTyped == UsersInv => Sync!TypeOK
<1> SUFFICES ASSUME UsersInv PROVE Sync!TypeOK
  OBVIOUS
<1>1. pass.kcu \subseteq People
  BY DEF UsersInv, UsersTyped
<1> QED
  BY Zenon, <1>1 DEF UsersInv, UsersTyped, AccountsUnique, Sync!TypeOK, Sync!Names, AccountNames,
     UserAccounts, KeycloakUsers

\* At first there are no users and no accounts.
LEMMA InitUsers == Sync!Init => UsersInv
<1> SUFFICES ASSUME Sync!Init PROVE UsersInv
  OBVIOUS
<1>1. x4 \in [People -> KeycloakUsers] /\ 0 \in 0 .. MaxId
  BY PeopleAssumption DEF Sync!Init, Sync!NoUser, KeycloakUsers
<1>2. pass \in [at : SyncSteps, kcu : SUBSET People, ts : SUBSET UserAccounts] /\ pass.at = "rhsso"
  BY DEF Sync!Init, Sync!Start, SyncSteps
<1>3. UsersTyped
  BY <1>1, <1>2 DEF Sync!Init, UsersTyped
<1> QED
  BY <1>2, <1>3 DEF UsersInv, AccountsUnique, ListedAreRead, Sync!Init

\* The parts of the types after a step.
LEMMA UsersTypedNext ==
    ASSUME x1' \subseteq People, x2' \subseteq People, x3' \subseteq People,
           x4' \in [People -> KeycloakUsers], x5' \subseteq UserAccounts, x6' \in 0 .. MaxId,
           pass' \in [at : SyncSteps, kcu : SUBSET People, ts : SUBSET UserAccounts],
           mishaps' \in Nat
    PROVE  UsersTyped'
BY Zenon DEF UsersTyped, KeycloakUsers, UserAccounts, AccountNames, SyncSteps

\* Every step counts what went wrong, if something did.
LEMMA EventsCounted ==
    ASSUME mishaps \in Nat, Sync!Fine \/ Sync!Event
    PROVE  mishaps' \in Nat
BY DEF Sync!Fine, Sync!Event

\* Users come and go.
LEMMA UserChanges == ASSUME UsersInv, Sync!ChangeUser PROVE UsersInv'
<1>1. /\ UNCHANGED <<x4, x5, x6, pass>> /\ Sync!Event
      /\ x1' \subseteq People /\ x2' \subseteq People /\ x3' \subseteq People
  BY DEF Sync!ChangeUser, UsersInv, UsersTyped
<1>2. mishaps' \in Nat
  BY <1>1, EventsCounted DEF UsersInv, UsersTyped
<1>3. UsersTyped'
  BY <1>1, <1>2, UsersTypedNext DEF UsersInv, UsersTyped
<1> QED
  BY <1>1, <1>3 DEF UsersInv, AccountsUnique, ListedAreRead

\* Accounts are renamed to free names, deleted and demoted in 3scale.
LEMMA AccountChanges == ASSUME UsersInv, Sync!ChangeAccount PROVE UsersInv'
<1>1. /\ UNCHANGED <<x1, x2, x3, x4, x6, pass>> /\ Sync!Event
  BY DEF Sync!ChangeAccount, Sync!people
<1>2. mishaps' \in Nat
  BY <1>1, EventsCounted DEF UsersInv, UsersTyped
<1>3. x5' \subseteq UserAccounts /\ AccountsUnique'
  <2>1. PICK a \in x5 :
          \/ \E n \in Sync!Names : /\ Sync!Named(n) = {}
                                   /\ x5' = (x5 \ {a}) \union {[a EXCEPT !.name = n]}
          \/ x5' = x5 \ {a}
          \/ a.admin /\ x5' = (x5 \ {a}) \union {[a EXCEPT !.admin = FALSE]}
    BY DEF Sync!ChangeAccount
  <2>2. x5 \subseteq UserAccounts /\ a \in UserAccounts /\ AccountsUnique /\ UNCHANGED x6
    BY <1>1, <2>1 DEF UsersInv, UsersTyped
  <2>3. ASSUME NEW n \in Sync!Names, Sync!Named(n) = {},
               x5' = (x5 \ {a}) \union {[a EXCEPT !.name = n]}
        PROVE  x5' \subseteq UserAccounts /\ AccountsUnique'
    <3> DEFINE b == [a EXCEPT !.name = n]
    <3>1. b \in UserAccounts /\ b.id = a.id /\ b.name = n
      BY <2>2, <2>3 DEF UserAccounts, Sync!Names, AccountNames
    <3>2. \A c \in x5 : c.name # n
      BY <2>3 DEF Sync!Named
    <3>3. x5' = (x5 \ {a}) \union {b}
      BY <2>3
    <3> HIDE DEF b
    <3>4. \A c \in x5' : c = b \/ (c \in x5 /\ c # a)
      BY <3>3
    <3>5. \A c, d \in x5' : c.name = d.name \/ c.id = d.id => c = d
      BY <2>1, <2>2, <3>1, <3>2, <3>4 DEF AccountsUnique
    <3>6. \A c \in x5' : c.id <= x6'
      BY <2>1, <2>2, <3>1, <3>4 DEF AccountsUnique
    <3> QED
      BY <2>2, <3>1, <3>3, <3>5, <3>6 DEF AccountsUnique
  <2>4. CASE x5' = x5 \ {a}
    BY <2>2, <2>4 DEF AccountsUnique
  <2>5. CASE x5' = (x5 \ {a}) \union {[a EXCEPT !.admin = FALSE]}
    <3> DEFINE b == [a EXCEPT !.admin = FALSE]
    <3>1. b \in UserAccounts /\ b.id = a.id /\ b.name = a.name
      BY <2>2 DEF UserAccounts
    <3>2. x5' = (x5 \ {a}) \union {b}
      BY <2>5
    <3> HIDE DEF b
    <3> QED
      BY <2>1, <2>2, <3>1, <3>2 DEF AccountsUnique
  <2> QED
    BY <2>1, <2>3, <2>4, <2>5
<1>4. UsersTyped'
  BY <1>1, <1>2, <1>3, UsersTypedNext DEF UsersInv, UsersTyped
<1> QED
  BY <1>1, <1>3, <1>4 DEF UsersInv, ListedAreRead

\* A step that writes KeycloakUsers and leaves the accounts alone.
LEMMA KeycloakWrites ==
    ASSUME UsersInv, UNCHANGED <<x1, x2, x3, x5, x6>>, x4' \in [People -> KeycloakUsers],
           pass' \in [at : SyncSteps, kcu : SUBSET People, ts : SUBSET UserAccounts],
           mishaps' \in Nat,
           pass'.at = "delete" => \A u \in People : x4'[u].label => u \in pass'.kcu
    PROVE  UsersInv'
<1>1. UsersTyped'
  BY UsersTypedNext DEF UsersInv, UsersTyped
<1>2. AccountsUnique' /\ ListedAreRead'
  BY DEF UsersInv, AccountsUnique, ListedAreRead
<1> QED
  BY <1>1, <1>2 DEF UsersInv

\* The Keycloak operator removes a KeycloakUser.
LEMMA FinalizeMoves == ASSUME UsersInv, NEW u \in People, Sync!FinalizeUser(u) PROVE UsersInv'
<1>1. /\ UNCHANGED <<x1, x2, x3, x5, x6, pass, mishaps>>
      /\ x4' = [x4 EXCEPT ![u] = Sync!NoUser]
  BY DEF Sync!FinalizeUser, Sync!people
<1>2. x4 \in [People -> KeycloakUsers] /\ Sync!NoUser \in KeycloakUsers /\ Sync!NoUser.label = FALSE
  BY PeopleAssumption DEF UsersInv, UsersTyped, Sync!NoUser, KeycloakUsers
<1>3. x4' \in [People -> KeycloakUsers] /\ \A v \in People : x4'[v].label => x4[v].label
  BY <1>1, <1>2
<1> QED
  BY <1>1, <1>3, KeycloakWrites DEF UsersInv, UsersTyped, ListedAreRead

\* The rhsso reconciler writes KeycloakUsers and goes on to 3scale.
LEMMA RhssoMoves == ASSUME UsersInv, Sync!syncronizeWithOpenshiftUsers PROVE UsersInv'
<1>1. /\ UNCHANGED <<x1, x2, x3, x5, x6>> /\ pass' = [Sync!Start EXCEPT !.at = "3scale"]
      /\ Sync!Fine \/ Sync!Event
  BY DEF Sync!syncronizeWithOpenshiftUsers, Sync!people
<1>2. PICK del, add : Sync!WriteUsers(del, add)
  BY DEF Sync!syncronizeWithOpenshiftUsers
<1>3. x4 \in [People -> KeycloakUsers]
  BY DEF UsersInv, UsersTyped
<1>4. ASSUME NEW u \in People
      PROVE  Sync!Deleted(u) \in KeycloakUsers /\ Sync!Created(u) \in KeycloakUsers
  BY <1>3 DEF Sync!Deleted, Sync!Created, KeycloakUsers
<1>5. x4' \in [People -> KeycloakUsers]
  BY <1>2, <1>3, <1>4 DEF Sync!WriteUsers
<1>6. /\ pass' \in [at : SyncSteps, kcu : SUBSET People, ts : SUBSET UserAccounts]
      /\ pass'.at = "3scale"
  BY <1>1 DEF Sync!Start, SyncSteps
<1>7. mishaps' \in Nat
  BY <1>1, EventsCounted DEF UsersInv, UsersTyped
<1> QED
  BY <1>1, <1>5, <1>6, <1>7, KeycloakWrites

\* 3scale's reconciler reads the KeycloakUsers and the accounts.
LEMMA ReadMoves == ASSUME UsersInv, Sync!ReadUsers PROVE UsersInv'
<1>1. /\ UNCHANGED <<x1, x2, x3, x4, x5, x6>> /\ (Sync!Fine \/ Sync!Event)
      /\ \/ pass' = [at |-> "delete", kcu |-> Sync!Listed, ts |-> x5]
         \/ pass' = Sync!Start
  BY DEF Sync!ReadUsers, Sync!people
<1>2. x5 \subseteq UserAccounts /\ x4 \in [People -> KeycloakUsers]
  BY DEF UsersInv, UsersTyped
<1>3. /\ pass' \in [at : SyncSteps, kcu : SUBSET People, ts : SUBSET UserAccounts]
      /\ pass'.at = "delete" => pass'.kcu = Sync!Listed
  <2>1. Sync!Listed \in SUBSET People /\ x5 \in SUBSET UserAccounts
    BY <1>2 DEF Sync!Listed
  <2> QED
    BY <1>1, <2>1 DEF Sync!Start, SyncSteps
<1>4. mishaps' \in Nat
  BY <1>1, EventsCounted DEF UsersInv, UsersTyped
<1>5. pass'.at = "delete" => \A u \in People : x4'[u].label => u \in pass'.kcu
  BY <1>1, <1>3 DEF Sync!Listed
<1> QED
  BY <1>1, <1>2, <1>3, <1>4, <1>5, KeycloakWrites

\* A step that goes on with the accounts.
LEMMA AccountWrites ==
    ASSUME UsersInv, UNCHANGED <<x1, x2, x3, x4>>, Sync!Fine \/ Sync!Event,
           x5' \subseteq UserAccounts, x6' \in 0 .. MaxId, AccountsUnique',
           \/ pass' = Sync!Start
           \/ \E at \in SyncSteps \ {"delete"} : pass' = [pass EXCEPT !.at = at]
    PROVE  UsersInv'
<1>1. /\ pass' \in [at : SyncSteps, kcu : SUBSET People, ts : SUBSET UserAccounts]
      /\ pass'.at # "delete"
  BY DEF UsersInv, UsersTyped, Sync!Start, SyncSteps
<1>2. mishaps' \in Nat
  BY EventsCounted DEF UsersInv, UsersTyped
<1>3. UsersTyped'
  BY <1>1, <1>2, UsersTypedNext DEF UsersInv, UsersTyped
<1> QED
  BY <1>1, <1>3 DEF UsersInv, ListedAreRead

\* Accounts that are no more needed are deleted.
LEMMA DeleteMoves == ASSUME UsersInv, Sync!DeleteUsers PROVE UsersInv'
<1>1. /\ UNCHANGED <<x1, x2, x3, x4, x6>> /\ (Sync!Fine \/ Sync!Event)
      /\ x5' \subseteq x5 /\ pass' = [pass EXCEPT !.at = "update"]
  BY DEF Sync!DeleteUsers, Sync!people
<1>2. AccountsUnique'
  BY <1>1 DEF UsersInv, AccountsUnique
<1> QED
  BY <1>1, <1>2, AccountWrites DEF UsersInv, UsersTyped, SyncSteps

\* Renamed accounts get names back that are free by then; their ids stay.
LEMMA UpdateMoves == ASSUME UsersInv, Sync!UpdateUsers PROVE UsersInv'
<1>1. PICK f \in [x5 -> x5 \union UNION {Sync!Restored(a) : a \in x5}] :
        /\ \A a \in x5 : f[a] \in Sync!Restored(a) \union {a}
        /\ \A a, b \in x5 : f[a].name = f[b].name => a = b
        /\ IF \A a \in x5 : \/ f[a] \in Sync!Restored(a)
                            \/ \A r \in Sync!Restored(a) : \E b \in x5 : f[b].name = r.name
           THEN Sync!Fine ELSE Sync!Event
        /\ x5' = {f[a] : a \in x5}
  BY DEF Sync!UpdateUsers
<1>2. /\ UNCHANGED <<x1, x2, x3, x4, x6>> /\ pass' = [pass EXCEPT !.at = "add"]
  BY DEF Sync!UpdateUsers, Sync!people
<1>3. Sync!Fine \/ Sync!Event
  BY <1>1
<1>4. x5 \subseteq UserAccounts /\ AccountsUnique /\ x6 \in 0 .. MaxId
  BY DEF UsersInv, UsersTyped
<1>5. ASSUME NEW a \in x5 PROVE f[a] \in UserAccounts /\ f[a].id = a.id
  <2>1. CASE f[a] = a
    BY <1>4, <2>1
  <2>2. CASE f[a] \in Sync!Restored(a)
    <3>1. PICK u \in People : f[a] = [a EXCEPT !.name = Lower(u)]
      BY <2>2 DEF Sync!Restored
    <3> QED
      BY <1>4, <3>1 DEF UserAccounts, AccountNames
  <2> QED
    BY <1>1, <2>1, <2>2
<1>6. x5' \subseteq UserAccounts
  BY <1>1, <1>5
<1>7. AccountsUnique'
  <2>1. \A c \in x5' : \E a \in x5 : c = f[a]
    BY <1>1
  <2>2. \A c, d \in x5' : c.name = d.name \/ c.id = d.id => c = d
    <3> SUFFICES ASSUME NEW c \in x5', NEW d \in x5', c.name = d.name \/ c.id = d.id PROVE c = d
      OBVIOUS
    <3>1. PICK a \in x5 : c = f[a]
      BY <2>1
    <3>2. PICK b \in x5 : d = f[b]
      BY <2>1
    <3>3. a = b
      BY <1>1, <1>4, <1>5, <3>1, <3>2 DEF AccountsUnique
    <3> QED
      BY <3>1, <3>2, <3>3
  <2>3. \A c \in x5' : c.id <= x6'
    BY <1>2, <1>4, <1>5, <2>1 DEF AccountsUnique
  <2> QED
    BY <2>2, <2>3 DEF AccountsUnique
<1>8. "add" \in SyncSteps \ {"delete"}
  BY DEF SyncSteps
<1> QED
  BY <1>2, <1>3, <1>4, <1>6, <1>7, <1>8, AccountWrites

\* New accounts have names that are free and ids that were never given.
LEMMA AddMoves == ASSUME UsersInv, Sync!AddUsers PROVE UsersInv'
<1> DEFINE new == {Lower(u) : u \in Sync!tsAdded} \ {a.name : a \in x5}
           fresh(id, some) == {[id |-> id[n], name |-> n, admin |-> FALSE] : n \in some}
<1>1. PICK some \in SUBSET new :
        /\ IF some = new THEN Sync!Fine ELSE Sync!Event
        /\ x6' = x6 + Sync!Cardinality(some)
        /\ \E id \in [some -> x6 + 1 .. x6 + Sync!Cardinality(some)] :
             /\ \A m, n \in some : id[m] = id[n] => m = n
             /\ x5' = x5 \union fresh(id, some)
  BY DEF Sync!AddUsers
<1>2. /\ UNCHANGED <<x1, x2, x3, x4>> /\ pass' = [pass EXCEPT !.at = "record"]
      /\ x6 + Sync!Cardinality(new) <= MaxId
  BY DEF Sync!AddUsers, Sync!people
<1>3. x5 \subseteq UserAccounts /\ AccountsUnique /\ x6 \in 0 .. MaxId
  BY DEF UsersInv, UsersTyped
<1>4. Sync!tsAdded \subseteq People
  BY DEF Sync!tsAdded, UsersInv, UsersTyped
<1>5. Cardinality(some) \in Nat /\ Cardinality(new) \in Nat /\ Cardinality(some) <= Cardinality(new)
  <2>1. IsFiniteSet(Sync!tsAdded)
    BY <1>4, PeopleAssumption, FS_Subset
  <2> DEFINE names == {Lower(u) : u \in Sync!tsAdded}
             lower == [u \in Sync!tsAdded |-> Lower(u)]
  <2>2. lower \in Surjection(Sync!tsAdded, names)
    BY DEF Surjection
  <2>3. IsFiniteSet(names)
    <3> HIDE DEF names, lower
    <3> QED
      BY <2>1, <2>2, FS_Surjection
  <2>4. new \in SUBSET names
    OBVIOUS
  <2> HIDE DEF names, lower, new
  <2>5. IsFiniteSet(new)
    BY <2>3, <2>4, FS_Subset
  <2>6. IsFiniteSet(some) /\ Cardinality(some) <= Cardinality(new)
    BY <1>1, <2>5, FS_Subset
  <2> QED
    BY <2>5, <2>6, FS_CardinalityType
<1>6. ASSUME NEW S PROVE Sync!Cardinality(S) = Cardinality(S)
  BY Zenon DEF Sync!Cardinality, Cardinality
<1>7. PICK id \in [some -> x6 + 1 .. x6 + Cardinality(some)] :
        (\A m, n \in some : id[m] = id[n] => m = n) /\ x5' = x5 \union fresh(id, some)
  BY <1>1, <1>6
<1>8. /\ x6' = x6 + Cardinality(some) /\ x6' \in 0 .. MaxId /\ x6 <= x6'
      /\ \A n \in some : id[n] \in 1 .. MaxId /\ x6 < id[n] /\ id[n] <= x6'
  <2>1. x6' = x6 + Cardinality(some) /\ x6 + Cardinality(new) <= MaxId
    BY <1>1, <1>2, <1>6
  <2> HIDE DEF new
  <2> QED
    BY <1>3, <1>5, <1>7, <2>1, PeopleAssumption
<1>9. \A n \in some : n \in AccountNames /\ \A a \in x5 : a.name # n
  BY <1>1, <1>4 DEF AccountNames
<1>10. ASSUME NEW c \in fresh(id, some)
       PROVE  /\ c \in UserAccounts /\ c.name \in some /\ c.id = id[c.name]
              /\ c = [id |-> id[c.name], name |-> c.name, admin |-> FALSE]
  <2>1. PICK n \in some : c = [id |-> id[n], name |-> n, admin |-> FALSE]
    OBVIOUS
  <2> QED
    BY <1>8, <1>9, <2>1 DEF UserAccounts
<1> HIDE DEF fresh, new
<1>11. x5' \subseteq UserAccounts
  BY <1>3, <1>7, <1>10
<1>12. AccountsUnique'
  <2>1. \A c, d \in x5' : c.name = d.name \/ c.id = d.id => c = d
    <3> SUFFICES ASSUME NEW c \in x5', NEW d \in x5', c.name = d.name \/ c.id = d.id PROVE c = d
      OBVIOUS
    <3>1. CASE c \in x5 /\ d \in x5
      BY <1>3, <3>1 DEF AccountsUnique
    <3>2. CASE c \in fresh(id, some) /\ d \in fresh(id, some)
      <4>1. /\ c.name \in some /\ c.id = id[c.name] /\ d.name \in some /\ d.id = id[d.name]
            /\ c = [id |-> id[c.name], name |-> c.name, admin |-> FALSE]
            /\ d = [id |-> id[d.name], name |-> d.name, admin |-> FALSE]
        BY <1>10, <3>2
      <4>2. c.name = d.name
        BY <1>7, <4>1
      <4> QED
        BY Zenon, <4>1, <4>2
    <3>3. ASSUME NEW a \in x5, NEW b \in fresh(id, some)
          PROVE  a.name # b.name /\ a.id # b.id
      <4>1. a.id \in Nat /\ a.id <= x6 /\ b.id = id[b.name] /\ b.name \in some
        BY <1>3, <1>10 DEF AccountsUnique, UserAccounts
      <4> QED
        BY <1>3, <1>8, <1>9, <4>1
    <3> QED
      BY <1>7, <3>1, <3>2, <3>3
  <2>2. \A c \in x5' : c.id <= x6'
    <3>1. ASSUME NEW a \in x5 PROVE a.id <= x6'
      <4>1. a.id \in Nat /\ a.id <= x6
        BY <1>3 DEF AccountsUnique, UserAccounts
      <4>2. x6 \in Nat /\ x6' \in Nat /\ x6 <= x6'
        BY <1>3, <1>8
      <4> QED
        BY <4>1, <4>2
    <3> QED
      BY <1>7, <1>8, <1>10, <3>1
  <2> QED
    BY <2>1, <2>2 DEF AccountsUnique
<1>13. (Sync!Fine \/ Sync!Event) /\ "record" \in SyncSteps \ {"delete"}
  BY <1>1 DEF SyncSteps
<1> QED
  BY <1>2, <1>8, <1>11, <1>12, <1>13, AccountWrites

\* The ids of accounts are recorded in the KeycloakUsers that were read.
LEMMA RecordMoves ==
    ASSUME UsersInv, Sync!updateKeycloakUsersAttributeWith3ScaleUserId
    PROVE  UsersInv'
<1>1. /\ UNCHANGED <<x1, x2, x3, x5, x6>> /\ (Sync!Fine \/ Sync!Event)
      /\ pass' = Sync!Start \/ pass' = [pass EXCEPT !.at = "admins"]
  BY DEF Sync!updateKeycloakUsersAttributeWith3ScaleUserId, Sync!people
<1>2. PICK done : x4' = [u \in People |-> IF u \in done THEN Sync!Record(u) ELSE x4[u]]
  <2>1. CASE x4' = [u \in People |-> Sync!Record(u)]
    BY <2>1
  <2> QED
    BY <2>1 DEF Sync!updateKeycloakUsersAttributeWith3ScaleUserId
<1>3. x4 \in [People -> KeycloakUsers] /\ x5 \subseteq UserAccounts
  BY DEF UsersInv, UsersTyped
<1>4. ASSUME NEW u \in People PROVE Sync!Record(u) \in KeycloakUsers
  <2> DEFINE mine == {a.id : a \in Sync!Named(Lower(u))}
             first == CHOOSE i \in mine : TRUE
             recorded == [state |-> IF x4[u].state = "none" THEN "live" ELSE x4[u].state,
                          label |-> x4[u].label, id |-> first]
  <2>1. mine \subseteq 1 .. MaxId
    BY <1>3 DEF Sync!Named, UserAccounts
  <2>2. mine # {} => first \in mine
    OBVIOUS
  <2>3. Sync!Record(u) = x4[u] \/ (mine # {} /\ Sync!Record(u) = recorded)
    BY Zenon DEF Sync!Record, Sync!RecordId
  <2> HIDE DEF mine, first
  <2>4. 1 .. MaxId \subseteq 0 .. MaxId
    BY PeopleAssumption
  <2>5. mine # {} => first \in 0 .. MaxId
    BY Zenon, <2>1, <2>2, <2>4
  <2>6. CASE mine # {} /\ Sync!Record(u) = recorded
    <3>1. x4[u].label \in BOOLEAN
          /\ (IF x4[u].state = "none" THEN "live" ELSE x4[u].state) \in {"none", "live", "deleting"}
      BY <1>3 DEF KeycloakUsers
    <3> QED
      BY <2>5, <2>6, <3>1 DEF KeycloakUsers
  <2> QED
    BY <1>3, <2>3, <2>6
<1>5. x4' \in [People -> KeycloakUsers]
  BY <1>2, <1>3, <1>4
<1>6. /\ pass' \in [at : SyncSteps, kcu : SUBSET People, ts : SUBSET UserAccounts]
      /\ pass'.at # "delete"
  BY <1>1 DEF UsersInv, UsersTyped, Sync!Start, SyncSteps
<1>7. mishaps' \in Nat
  BY <1>1, EventsCounted DEF UsersInv, UsersTyped
<1> QED
  BY <1>1, <1>5, <1>6, <1>7, KeycloakWrites

\* Administrators are promoted.
LEMMA AdminMoves == ASSUME UsersInv, Sync!syncOpenshiftAdminMembership PROVE UsersInv'
<1>1. /\ UNCHANGED <<x1, x2, x3, x4, x6>> /\ (Sync!Fine \/ Sync!Event) /\ pass' = Sync!Start
  BY DEF Sync!syncOpenshiftAdminMembership, Sync!people
<1>2. PICK as : x5' = {[a EXCEPT !.admin = a.admin \/ a \in as] : a \in x5}
  BY DEF Sync!syncOpenshiftAdminMembership, Sync!Promote
<1>3. x5 \subseteq UserAccounts /\ AccountsUnique /\ x6 \in 0 .. MaxId
  BY DEF UsersInv, UsersTyped
<1> DEFINE promoted(a) == [a EXCEPT !.admin = a.admin \/ a \in as]
<1>4. ASSUME NEW a \in x5
      PROVE  /\ promoted(a) \in UserAccounts /\ promoted(a).id = a.id /\ promoted(a).name = a.name
             /\ a.id <= x6
  <2>1. (a.admin \/ a \in as) \in BOOLEAN
    BY Zenon
  <2> QED
    BY <1>3, <2>1 DEF UserAccounts, AccountsUnique
<1>5. \A c \in x5' : \E a \in x5 : c = promoted(a)
  BY <1>2
<1> HIDE DEF promoted
<1>6. x5' \subseteq UserAccounts
  BY <1>4, <1>5
<1>7. \A c, d \in x5' : c.name = d.name \/ c.id = d.id => c = d
  BY <1>3, <1>4, <1>5 DEF AccountsUnique
<1>8. \A c \in x5' : c.id <= x6'
  BY <1>1, <1>4, <1>5
<1>9. AccountsUnique'
  BY <1>7, <1>8 DEF AccountsUnique
<1> QED
  BY <1>1, <1>3, <1>6, <1>9, AccountWrites

\* Every step of the synchronisation, of the users and of 3scale preserves the invariant.
LEMMA NextUsers == ASSUME UsersInv, Sync!Next PROVE UsersInv'
BY UserChanges, AccountChanges, FinalizeMoves, RhssoMoves, ReadMoves, DeleteMoves,
   UpdateMoves, AddMoves, RecordMoves, AdminMoves DEF Sync!Next, Sync!Step

\* An account whose id a KeycloakUser records is not deleted by a step that reads without
\* failing: the KeycloakUser was read, so that the ids were compared.
LEMMA RecordedStays == ASSUME UsersInv, [Sync!Next]_(Sync!vars) PROVE Sync!RecordedKept
<1> SUFFICES ASSUME pass.at = "delete", pass'.at = "update", mishaps' = mishaps,
                    NEW a \in x5, Sync!Recorded(a.id)
             PROVE  a \in x5'
  BY DEF Sync!RecordedKept
<1>1. Sync!DeleteUsers
  BY DEF Sync!Next, Sync!Step, Sync!vars, Sync!ChangeUser, Sync!ChangeAccount, Sync!FinalizeUser,
     Sync!syncronizeWithOpenshiftUsers, Sync!ReadUsers, Sync!UpdateUsers, Sync!AddUsers,
     Sync!updateKeycloakUsersAttributeWith3ScaleUserId, Sync!syncOpenshiftAdminMembership
<1>2. ~Sync!Event
  BY DEF Sync!Event, UsersInv, UsersTyped
<1>3. x5' = {c \in x5 : \A b \in Sync!tsDeleted : c.id # b.id}
  BY <1>1, <1>2 DEF Sync!DeleteUsers
<1>4. PICK u \in People : x4[u].label /\ x4[u].id = a.id
  BY DEF Sync!Recorded
<1>5. u \in pass.kcu
  BY <1>4 DEF UsersInv, ListedAreRead
<1>6. \A b \in Sync!tsDeleted : a.id # b.id
  BY <1>4, <1>5 DEF Sync!tsDeleted
<1> QED
  BY <1>3, <1>6

--------------------------------------------------------------------------------
(* Logins: x1 is the Secret with the client secrets, x2 the OAuthClients, x3 the realms,
   x4 the identity providers, x5 and x6 3scale's client and provider, x7 the secrets
   generated so far. *)

\* The secrets that may be held once n were generated.
Held(n) == 0 .. n \union {Login!Typed}

Passes == [at : {"bootstrap", "products", "sync", "oauth"}, left : SUBSET Login!Products]

Copies(secret) ==
    /\ x1 \in [Login!Products -> secret]
    /\ x2 \in [Login!Products \union {Login!SecretName} -> secret]
    /\ x3 \in [Login!Sso -> secret] /\ x4 \in [Login!Sso -> secret]
    /\ x5 \in secret /\ x6 \in secret

\* Nothing is held anywhere that was not generated, or typed by somebody.
LoginsTyped ==
    /\ x7 \in Nat /\ mishaps \in 0 .. LoginMishaps /\ Copies(Held(x7))
    /\ pass \in Passes

\* The Secret holds all secrets or none; they are generated once, and again after each
\* mishap at most.  (No OAuthClient has the name under which they are looked up.)
GeneratedOnce ==
    /\ x2[Login!SecretName] = 0
    /\ \/ (\A p \in Login!Products : x1[p] = 0) /\ x7 <= 3 * mishaps
       \/ (\A p \in Login!Products : x1[p] # 0) /\ x7 <= 3 * mishaps + 3

LoginsInv == LoginsTyped /\ GeneratedOnce

\* There are three products.
LEMMA ThreeProducts ==
    /\ IsFiniteSet(Login!Products) /\ Cardinality(Login!Products) = 3
    /\ \A S : Login!Cardinality(S) = Cardinality(S)
    /\ \A p \in Login!Products : p # Login!SecretName /\ Login!productsList[p] \in Nat
<1>1. IsFiniteSet({}) /\ Cardinality({}) = 0
  BY FS_EmptySet
<1>2. IsFiniteSet({"rhsso"}) /\ Cardinality({"rhsso"}) = 1
  BY FS_Singleton
<1>3. IsFiniteSet({"rhsso", "rhssouser"}) /\ Cardinality({"rhsso", "rhssouser"}) = 2
  <2>1. {"rhsso"} \union {"rhssouser"} = {"rhsso", "rhssouser"} /\ "rhssouser" \notin {"rhsso"}
    OBVIOUS
  <2> QED
    BY <1>2, <2>1, FS_AddElement
<1>4. IsFiniteSet(Login!Products) /\ Cardinality(Login!Products) = 3
  <2>1. /\ {"rhsso", "rhssouser"} \union {"3scale"} = Login!Products
        /\ "3scale" \notin {"rhsso", "rhssouser"}
    BY DEF Login!Products, Login!Sso
  <2> QED
    BY <1>3, <2>1, FS_AddElement
<1>5. ASSUME NEW S PROVE Login!Cardinality(S) = Cardinality(S)
  BY Zenon DEF Login!Cardinality, Cardinality
<1>6. ASSUME NEW p \in Login!Products PROVE p # Login!SecretName /\ Login!productsList[p] \in Nat
  BY DEF Login!Products, Login!Sso, Login!SecretName, Login!productsList
<1> QED
  BY <1>4, <1>5, <1>6

\* The types after a step, part by part.
LEMMA LoginsTypedNext ==
    ASSUME x7' \in Nat, mishaps' \in 0 .. LoginMishaps,
           pass' \in Passes,
           x1' \in [Login!Products -> Held(x7')],
           x2' \in [Login!Products \union {Login!SecretName} -> Held(x7')],
           x3' \in [Login!Sso -> Held(x7')], x4' \in [Login!Sso -> Held(x7')],
           x5' \in Held(x7'), x6' \in Held(x7')
    PROVE  LoginsTyped'
<1>1. Copies(Held(x7))'
  BY DEF Copies, Held, Login!Products, Login!Sso, Login!SecretName, Login!Typed
<1>2. (pass \in Passes)'
  BY DEF Passes, Login!Products, Login!Sso
<1> QED
  BY <1>1, <1>2 DEF LoginsTyped

\* The types of a state.
LEMMA LoginsTypedNow ==
    ASSUME LoginsTyped
    PROVE  /\ x7 \in Nat /\ mishaps \in 0 .. LoginMishaps /\ LoginMishaps \in Nat
           /\ pass \in Passes
           /\ x1 \in [Login!Products -> Held(x7)]
           /\ x2 \in [Login!Products \union {Login!SecretName} -> Held(x7)]
           /\ x3 \in [Login!Sso -> Held(x7)] /\ x4 \in [Login!Sso -> Held(x7)]
           /\ x5 \in Held(x7) /\ x6 \in Held(x7)
           /\ 0 \in Held(x7) /\ Login!Typed \in Held(x7)
           /\ "3scale" \in Login!Products /\ "rhsso" \in Login!Sso
           /\ Login!Sso \subseteq Login!Products
<1>1. 0 \in 0 .. x7
  BY DEF LoginsTyped
<1>2. "3scale" \in Login!Products /\ "rhsso" \in Login!Sso /\ Login!Sso \subseteq Login!Products
  BY DEF Login!Products, Login!Sso
<1> QED
  BY Zenon, <1>1, <1>2, LoginsAssumption DEF LoginsTyped, Copies, Held

\* At first there is no secret.
LEMMA InitLogins == Login!Init => LoginsInv
<1> SUFFICES ASSUME Login!Init PROVE LoginsInv
  OBVIOUS
<1>1. 0 \in Held(0) /\ x7 = 0 /\ mishaps \in 0 .. LoginMishaps /\ mishaps = 0
  BY LoginsAssumption DEF Login!Init, Held
<1>2. pass \in Passes
  BY DEF Login!Init, Passes
<1>3. Copies(Held(x7))
  BY <1>1 DEF Login!Init, Copies
<1>4. LoginsTyped
  BY <1>1, <1>2, <1>3 DEF LoginsTyped
<1>5. GeneratedOnce
  BY <1>1 DEF Login!Init, GeneratedOnce
<1> QED
  BY <1>4, <1>5 DEF LoginsInv

\* A step leaves or enters a product's reconciler, or begins a pass.
LEMMA PassMoves ==
    ASSUME LoginsTyped,
           \/ UNCHANGED pass
           \/ \E p \in Login!Products : Login!Leave(p)
           \/ \E step \in {"sync", "oauth"} : Login!Goto(step)
           \/ pass' = [at |-> "bootstrap", left |-> {}]
           \/ pass' = [at |-> "products", left |-> Login!Products]
    PROVE  pass' \in Passes
<1>1. pass \in Passes
  BY DEF LoginsTyped
<1>2. ASSUME NEW p \in Login!Products, Login!Leave(p)
      PROVE  pass' \in Passes
  BY <1>1, <1>2 DEF Login!Leave, Passes
<1>3. ASSUME NEW step \in {"sync", "oauth"}, Login!Goto(step)
      PROVE  pass' \in Passes
  BY <1>1, <1>3 DEF Login!Goto, Passes
<1> QED
  BY <1>1, <1>2, <1>3 DEF Passes

\* Mishaps are counted up to their bound.
LEMMA MishapsCounted ==
    ASSUME LoginsTyped, Login!Fine \/ Login!Mishap
    PROVE  mishaps' \in 0 .. LoginMishaps /\ mishaps <= mishaps' /\ mishaps' <= mishaps + 1
BY LoginsAssumption DEF LoginsTyped, Login!Fine, Login!Mishap

\* The bound on the secrets grows with the mishaps.
LEMMA BoundGrows ==
    \A m, n, g \in Nat : m <= n => /\ g <= 3 * m => g <= 3 * n
                                   /\ g <= 3 * m + 3 => g <= 3 * n + 3
                                   /\ n = m + 1 /\ g <= 3 * m + 3 => g <= 3 * n
OBVIOUS

\* A step that copies secrets and generates none.
LEMMA CopyMoves ==
    ASSUME LoginsInv, Login!Fine \/ Login!Mishap, UNCHANGED <<x1, x7>>,
           pass' \in Passes,
           x2' \in [Login!Products \union {Login!SecretName} -> Held(x7)],
           x2'[Login!SecretName] = x2[Login!SecretName],
           x3' \in [Login!Sso -> Held(x7)], x4' \in [Login!Sso -> Held(x7)],
           x5' \in Held(x7), x6' \in Held(x7)
    PROVE  LoginsInv'
<1>1. LoginsTyped'
  BY LoginsTypedNext, LoginsTypedNow, MishapsCounted DEF LoginsInv
<1>2. GeneratedOnce'
  <2>1. /\ mishaps \in Nat /\ mishaps' \in Nat /\ mishaps <= mishaps' /\ x7 \in Nat
    BY MishapsCounted, LoginsTypedNow DEF LoginsInv
  <2>2. x7 <= 3 * mishaps => x7 <= 3 * mishaps'
    BY Zenon, <2>1, BoundGrows
  <2>3. x7 <= 3 * mishaps + 3 => x7 <= 3 * mishaps' + 3
    BY Zenon, <2>1, BoundGrows
  <2>4. (\A p \in Login!Products : x1[p] = 0) => (\A p \in Login!Products : x1[p] = 0)'
    BY Zenon DEF Login!Products, Login!Sso
  <2>5. (\A p \in Login!Products : x1[p] # 0) => (\A p \in Login!Products : x1[p] # 0)'
    BY Zenon DEF Login!Products, Login!Sso
  <2>6. (x2[Login!SecretName] = 0)'
    BY DEF Login!SecretName, LoginsInv, GeneratedOnce
  <2> QED
    BY <2>2, <2>3, <2>4, <2>5, <2>6 DEF LoginsInv, GeneratedOnce
<1> QED
  BY <1>1, <1>2 DEF LoginsInv

\* The reconcilers of the products, the Keycloak operator and a restart copy what they find.
LEMMA ProductMoves ==
    ASSUME LoginsInv,
           \/ \E p \in Login!Sso : Login!SetupOpenshiftIDP(p) \/ Login!CreateRealm(p)
           \/ Login!SyncOpenshiftIDPClientSecret \/ Login!reconcileRHSSOIntegration
           \/ Login!ReconcileOauthClient \/ Login!Restart
    PROVE  LoginsInv'
<1>a. LoginsTyped
  BY DEF LoginsInv
<1>b. /\ x1 \in [Login!Products -> Held(x7)]
      /\ x2 \in [Login!Products \union {Login!SecretName} -> Held(x7)]
      /\ x3 \in [Login!Sso -> Held(x7)] /\ x4 \in [Login!Sso -> Held(x7)]
      /\ x5 \in Held(x7) /\ x6 \in Held(x7)
      /\ "3scale" \in Login!Products /\ "rhsso" \in Login!Sso /\ Login!Sso \subseteq Login!Products
      /\ \A p \in Login!Products : p # Login!SecretName
  BY <1>a, LoginsTypedNow, ThreeProducts
<1>1. ASSUME NEW p \in Login!Sso, Login!SetupOpenshiftIDP(p) PROVE LoginsInv'
  <2>1. /\ UNCHANGED <<x1, x4, x5, x6, x7>> /\ (Login!Fine \/ Login!Mishap)
        /\ x2' = x2 \/ x2' = [x2 EXCEPT ![p] = x1[p]]
        /\ x3' = x3 \/ x3' = [x3 EXCEPT ![p] = x1[p]]
        /\ Login!Leave(p) \/ Login!Goto("sync")
    BY <1>1 DEF Login!SetupOpenshiftIDP
  <2>2. pass' \in Passes
    BY <1>a, <1>b, <2>1, PassMoves
  <2>3. x2' \in [Login!Products \union {Login!SecretName} -> Held(x7)]
        /\ x2'[Login!SecretName] = x2[Login!SecretName]
    BY <1>b, <2>1
  <2>4. x3' \in [Login!Sso -> Held(x7)]
    BY <1>b, <2>1
  <2> QED
    BY <1>b, <2>1, <2>2, <2>3, <2>4, CopyMoves
<1>2. ASSUME NEW p \in Login!Sso, Login!CreateRealm(p) PROVE LoginsInv'
  <2>1. /\ UNCHANGED <<x1, x2, x3, x5, x6, x7, pass>> /\ Login!Fine
        /\ x4' = [x4 EXCEPT ![p] = x3[p]]
    BY <1>2 DEF Login!CreateRealm, Login!Fine
  <2>2. pass' \in Passes
    BY <1>a, <2>1, PassMoves
  <2>3. x4' \in [Login!Sso -> Held(x7)]
    BY <1>b, <2>1
  <2> QED
    BY <1>b, <2>1, <2>2, <2>3, CopyMoves
<1>3. CASE Login!SyncOpenshiftIDPClientSecret
  <2>1. /\ UNCHANGED <<x1, x2, x3, x5, x6, x7>> /\ (Login!Fine \/ Login!Mishap)
        /\ \/ UNCHANGED x4 \/ x4' = [x4 EXCEPT !["rhsso"] = x1["rhsso"]]
           \/ x4' = [x4 EXCEPT !["rhsso"] = @]
        /\ Login!Leave("rhsso")
    BY <1>3 DEF Login!SyncOpenshiftIDPClientSecret
  <2>2. pass' \in Passes
    BY <1>a, <1>b, <2>1, PassMoves
  <2>3. x4' \in [Login!Sso -> Held(x7)]
    BY <1>b, <2>1
  <2> QED
    BY <1>b, <2>1, <2>2, <2>3, CopyMoves
<1>4. CASE Login!reconcileRHSSOIntegration
  <2>1. /\ UNCHANGED <<x1, x2, x3, x4, x7>> /\ (Login!Fine \/ Login!Mishap)
        /\ x5' \in {x5, x1["3scale"]} /\ x6' \in {x6, x1["3scale"]}
        /\ Login!Leave("3scale") \/ Login!Goto("oauth")
    BY <1>4 DEF Login!reconcileRHSSOIntegration
  <2>2. pass' \in Passes
    BY <1>a, <1>b, <2>1, PassMoves
  <2>3. x5' \in Held(x7) /\ x6' \in Held(x7)
    BY <1>b, <2>1
  <2> QED
    BY <1>b, <2>1, <2>2, <2>3, CopyMoves
<1>5. CASE Login!ReconcileOauthClient
  <2>1. /\ UNCHANGED <<x1, x3, x4, x5, x6, x7>> /\ (Login!Fine \/ Login!Mishap)
        /\ \/ UNCHANGED x2 \/ x2' = [x2 EXCEPT !["3scale"] = x1["3scale"]]
           \/ x2' = [x2 EXCEPT !["3scale"] = @]
        /\ Login!Leave("3scale")
    BY <1>5 DEF Login!ReconcileOauthClient
  <2>2. pass' \in Passes
    BY <1>a, <1>b, <2>1, PassMoves
  <2>3. x2' \in [Login!Products \union {Login!SecretName} -> Held(x7)]
        /\ x2'[Login!SecretName] = x2[Login!SecretName]
    BY <1>b, <2>1
  <2> QED
    BY <1>b, <2>1, <2>2, <2>3, CopyMoves
<1>6. CASE Login!Restart
  <2>1. UNCHANGED <<x1, x2, x3, x4, x5, x6, x7>> /\ Login!Mishap
    BY <1>6 DEF Login!Restart
  <2>2. pass' \in Passes
    BY <1>6, <1>a, PassMoves DEF Login!Restart
  <2> QED
    BY <1>b, <2>1, <2>2, CopyMoves
<1> QED
  BY <1>1, <1>2, <1>3, <1>4, <1>5, <1>6

\* An administrator deletes the Secret or a copy, or types over one.
LEMMA InterfereMoves == ASSUME LoginsInv, Login!Interfere PROVE LoginsInv'
<1>a. LoginsTyped
  BY DEF LoginsInv
<1>b. /\ x1 \in [Login!Products -> Held(x7)] /\ x7 \in Nat /\ mishaps \in Nat
      /\ x2 \in [Login!Products \union {Login!SecretName} -> Held(x7)]
      /\ x3 \in [Login!Sso -> Held(x7)] /\ x4 \in [Login!Sso -> Held(x7)]
      /\ x5 \in Held(x7) /\ x6 \in Held(x7) /\ 0 \in Held(x7) /\ Login!Typed \in Held(x7)
      /\ \A p \in Login!Products : p # Login!SecretName
  BY <1>a, LoginsTypedNow, ThreeProducts
<1>1. UNCHANGED <<x3, x7, pass>> /\ Login!Mishap
  BY DEF Login!Interfere
<1>2. pass' \in Passes
  BY <1>a, <1>1, PassMoves
<1>3. CASE x1' = [p \in Login!Products |-> 0] /\ UNCHANGED <<x2, x4, x5, x6>>
  <2>1. x1' \in [Login!Products -> Held(x7)]
    BY <1>3, <1>b
  <2>2. LoginsTyped'
    BY <1>a, <1>b, <1>1, <1>2, <1>3, <2>1, LoginsTypedNext, MishapsCounted
  <2>3. mishaps' \in Nat /\ mishaps' = mishaps + 1 /\ mishaps <= mishaps'
    BY <1>b, <1>1 DEF Login!Mishap
  <2>4. x7 <= 3 * mishaps'
    <3>1. x7 <= 3 * mishaps \/ x7 <= 3 * mishaps + 3
      BY DEF LoginsInv, GeneratedOnce
    <3> QED
      BY Zenon, <1>b, <2>3, <3>1, BoundGrows
  <2>5. (\A p \in Login!Products : x1[p] = 0)'
    BY <1>3 DEF Login!Products, Login!Sso
  <2>6. (x2[Login!SecretName] = 0)'
    BY <1>3 DEF Login!SecretName, LoginsInv, GeneratedOnce
  <2> QED
    BY <1>1, <2>2, <2>4, <2>5, <2>6 DEF LoginsInv, GeneratedOnce
<1>4. CASE /\ UNCHANGED <<x1, x4, x5, x6>>
           /\ \E p \in Login!Products : x2' = [x2 EXCEPT ![p] = 0]
  <2>1. x2' \in [Login!Products \union {Login!SecretName} -> Held(x7)]
        /\ x2'[Login!SecretName] = x2[Login!SecretName]
    BY <1>b, <1>4
  <2> QED
    BY <1>b, <1>1, <1>2, <1>4, <2>1, CopyMoves
<1>5. CASE UNCHANGED <<x1, x2, x4>> /\ x5' \in {x5, 0} /\ x6' \in {x6, 0}
  <2>1. x5' \in Held(x7) /\ x6' \in Held(x7)
    BY <1>b, <1>5
  <2> QED
    BY <1>b, <1>1, <1>2, <1>5, <2>1, CopyMoves
<1>6. CASE /\ UNCHANGED <<x1, x2, x5, x6>>
           /\ \E p \in Login!Sso : x4' = [x4 EXCEPT ![p] = Login!Typed]
  <2>1. x4' \in [Login!Sso -> Held(x7)]
    BY <1>b, <1>6
  <2> QED
    BY <1>b, <1>1, <1>2, <1>6, <2>1, CopyMoves
<1> QED
  BY <1>3, <1>4, <1>5, <1>6 DEF Login!Interfere

\* Among a set of products a product is the first, the second or the third.
LEMMA NthProduct ==
    ASSUME NEW p \in Login!Products, NEW S, S \subseteq Login!Products
    PROVE  LET N == Login!Cardinality({q \in S : Login!productsList[q] <= Login!productsList[p]})
           IN  N \in 0 .. 3 /\ (p \in S => N # 0)
<1> DEFINE T == {q \in S : Login!productsList[q] <= Login!productsList[p]}
<1>1. T \subseteq Login!Products
  OBVIOUS
<1>2. IsFiniteSet(T) /\ Cardinality(T) \in Nat /\ Cardinality(T) <= 3
  BY <1>1, ThreeProducts, FS_Subset, FS_CardinalityType
<1>3. p \in S => T # {}
  <2>1. Login!productsList[p] <= Login!productsList[p]
    BY ThreeProducts
  <2> QED
    BY <2>1
<1>4. Cardinality(T) = 0 <=> T = {}
  BY <1>2, FS_EmptySet
<1>5. Login!Cardinality(T) = Cardinality(T)
  BY ThreeProducts
<1> QED
  BY <1>2, <1>3, <1>4, <1>5

\* reconcileOauthSecrets leaves a secret for every product.  It generates three of them,
\* or none.
LEMMA SecretsGenerated ==
    ASSUME LoginsInv, Login!reconcileOauthSecrets
    PROVE  /\ x7' \in Nat /\ x7 <= x7' /\ x7' <= 3 * mishaps + 3
           /\ x1' \in [Login!Products -> Held(x7')]
           /\ \A p \in Login!Products : x1'[p] # 0
<1> DEFINE missing == {p \in Login!Products : x1[p] = 0 /\ x2[Login!LookedUp(p)] = 0}
           Nth(p) == Login!Cardinality({q \in missing :
                                        Login!productsList[q] <= Login!productsList[p]})
<1>1. /\ x7 \in Nat /\ mishaps \in Nat /\ x1 \in [Login!Products -> Held(x7)]
      /\ x2[Login!SecretName] = 0
  BY LoginsTypedNow DEF LoginsInv, GeneratedOnce
<1>2. /\ x1' = [p \in Login!Products |->
                   IF x1[p] # 0 THEN x1[p]
                   ELSE IF p \in missing THEN x7 + Nth(p) ELSE x2[Login!LookedUp(p)]]
      /\ x7' = x7 + Login!Cardinality(missing)
  BY Zenon DEF Login!reconcileOauthSecrets
<1>3. \A p \in Login!Products : Nth(p) \in 0 .. 3 /\ (p \in missing => Nth(p) # 0)
  BY NthProduct
<1>4. Login!Cardinality(Login!Products) = 3 /\ Login!Cardinality({}) = 0
  BY ThreeProducts, FS_EmptySet
<1> HIDE DEF Nth
<1>5. CASE (\A p \in Login!Products : x1[p] = 0) /\ x7 <= 3 * mishaps
  <2>1. missing = Login!Products
    BY <1>1, <1>5 DEF Login!LookedUp
  <2> HIDE DEF missing
  <2>2. x7' = x7 + 3
    BY <1>2, <1>4, <2>1
  <2>3. x1' = [p \in Login!Products |-> x7 + Nth(p)]
    BY <1>2, <1>5, <2>1
  <2>4. \A p \in Login!Products : x7 + Nth(p) \in 0 .. x7' /\ x7 + Nth(p) # 0
    BY <1>1, <1>3, <2>1, <2>2
  <2>5. x1' \in [Login!Products -> Held(x7')] /\ \A p \in Login!Products : x1'[p] # 0
    BY <2>3, <2>4 DEF Held
  <2>6. x7' \in Nat /\ x7 <= x7' /\ x7' <= 3 * mishaps + 3
    BY <1>1, <1>5, <2>2
  <2> QED
    BY <2>5, <2>6
<1>6. CASE (\A p \in Login!Products : x1[p] # 0) /\ x7 <= 3 * mishaps + 3
  <2>1. missing = {}
    BY <1>6
  <2> HIDE DEF missing
  <2>2. x7' = x7
    BY <1>1, <1>2, <1>4, <2>1
  <2>3. x1' = x1
    BY <1>1, <1>2, <1>6, <2>1
  <2> QED
    BY <1>1, <1>6, <2>2, <2>3
<1> QED
  BY <1>5, <1>6 DEF LoginsInv, GeneratedOnce

\* The bootstrap stage generates the secrets, and fails before or after.
LEMMA BootstrapMoves == ASSUME LoginsInv, Login!Bootstrap PROVE LoginsInv'
<1>a. LoginsTyped
  BY DEF LoginsInv
<1>b. /\ x7 \in Nat /\ mishaps \in Nat
      /\ x2 \in [Login!Products \union {Login!SecretName} -> Held(x7)]
      /\ x3 \in [Login!Sso -> Held(x7)] /\ x4 \in [Login!Sso -> Held(x7)]
      /\ x5 \in Held(x7) /\ x6 \in Held(x7)
  BY <1>a, LoginsTypedNow
<1>1. UNCHANGED <<x2, x3, x4, x5, x6>> /\ (Login!Fine \/ Login!Mishap)
  BY DEF Login!Bootstrap
<1>2. pass' \in Passes
  BY <1>a, PassMoves DEF Login!Bootstrap
<1>3. CASE UNCHANGED <<x1, x7>>
  BY <1>b, <1>1, <1>2, <1>3, CopyMoves
<1>4. CASE Login!reconcileOauthSecrets
  <2>1. /\ x7' \in Nat /\ x7 <= x7' /\ x7' <= 3 * mishaps + 3
        /\ x1' \in [Login!Products -> Held(x7')]
        /\ \A p \in Login!Products : x1'[p] # 0
    BY <1>4, SecretsGenerated
  <2>2. Held(x7) \subseteq Held(x7')
    <3>1. 0 .. x7 \subseteq 0 .. x7'
      BY <1>b, <2>1
    <3> QED
      BY <3>1 DEF Held
  <2>3. /\ x2' \in [Login!Products \union {Login!SecretName} -> Held(x7')]
        /\ x3' \in [Login!Sso -> Held(x7')] /\ x4' \in [Login!Sso -> Held(x7')]
        /\ x5' \in Held(x7') /\ x6' \in Held(x7')
    BY <1>b, <1>1, <2>2
  <2>4. LoginsTyped'
    BY <1>a, <1>1, <1>2, <2>1, <2>3, LoginsTypedNext, MishapsCounted
  <2>5. mishaps' \in Nat /\ mishaps <= mishaps'
    BY <1>a, <1>1, MishapsCounted
  <2>6. x7' <= 3 * mishaps' + 3
    BY Zenon, <1>b, <2>1, <2>5, BoundGrows
  <2>7. (\A p \in Login!Products : x1[p] # 0)'
    BY Zenon, <2>1 DEF Login!Products, Login!Sso
  <2>8. (x2[Login!SecretName] = 0)'
    BY <1>1 DEF Login!SecretName, LoginsInv, GeneratedOnce
  <2> QED
    BY <2>4, <2>6, <2>7, <2>8 DEF LoginsInv, GeneratedOnce
<1> QED
  BY <1>3, <1>4 DEF Login!Bootstrap

\* Every step of the logins keeps their invariant.
LEMMA NextLogins == ASSUME LoginsInv, Login!Next PROVE LoginsInv'
BY ProductMoves, InterfereMoves, BootstrapMoves DEF Login!Next, Login!Step

\* The invariant of the logins implies their types.
LEMMA LoginsAreTyped == LoginsInv => Login!TypeOK
<1> SUFFICES ASSUME LoginsInv PROVE Login!TypeOK
  OBVIOUS
<1>1. /\ x7 \in Nat /\ mishaps \in 0 .. LoginMishaps /\ LoginMishaps \in Nat
      /\ Copies(0 .. x7 \union {Login!Typed})
      /\ pass \in Passes
  BY LoginsAssumption DEF LoginsInv, LoginsTyped, Held
<1>2. x7 \in 0 .. Login!Cardinality(Login!Products) * (LoginMishaps + 1)
  <2>1. x7 <= 3 * mishaps \/ x7 <= 3 * mishaps + 3
    BY DEF LoginsInv, GeneratedOnce
  <2>2. \A m, n, g \in Nat : m <= n /\ (g <= 3 * m \/ g <= 3 * m + 3) => g \in 0 .. 3 * (n + 1)
    OBVIOUS
  <2>3. x7 \in 0 .. 3 * (LoginMishaps + 1)
    BY <1>1, <2>1, <2>2
  <2>4. Login!Cardinality(Login!Products) = 3
    BY ThreeProducts
  <2> QED
    BY <2>3, <2>4
<1>3. pass.at \in {"bootstrap", "products", "sync", "oauth"} /\ pass.left \subseteq Login!Products
  BY <1>1 DEF Passes
<1> QED
  BY <1>1, <1>2, <1>3 DEF Copies, Login!TypeOK

--------------------------------------------------------------------------------
(* The three parts together: a behaviour has one of them run, and its invariant holds. *)

AccountsInv ==
    /\ which \in {"tenants", "users", "logins"}
    /\ which = "tenants" => TenantsInv
    /\ which = "users" => UsersInv
    /\ which = "logins" => LoginsInv

\* The part that was installed starts in its invariant.
LEMMA InitAccounts == Init => AccountsInv
BY InitTenants, InitUsers, InitLogins DEF Init, AccountsInv

\* A step that changes nothing keeps the invariant of the part that runs.
LEMMA StutterAccounts ==
    ASSUME AccountsInv, UNCHANGED vars
    PROVE  AccountsInv'
<1>1. which = "tenants" => TenantsInv'
  <2>1. UNCHANGED (Tenant!vars)
    BY DEF vars, Tenant!vars, Tenant!users, Tenant!threeScale, Tenant!sso
  <2> QED
    BY <2>1, NextTenants DEF AccountsInv
<1>2. which = "users" => UsersInv'
  BY KeycloakWrites DEF vars, AccountsInv, UsersInv, UsersTyped, ListedAreRead
<1>3. which = "logins" => LoginsInv'
  <2> SUFFICES ASSUME LoginsInv PROVE LoginsInv'
    BY DEF AccountsInv
  <2>1. /\ pass \in Passes
        /\ x2 \in [Login!Products \union {Login!SecretName} -> Held(x7)]
        /\ x3 \in [Login!Sso -> Held(x7)] /\ x4 \in [Login!Sso -> Held(x7)]
        /\ x5 \in Held(x7) /\ x6 \in Held(x7)
    BY LoginsTypedNow DEF LoginsInv
  <2>2. UNCHANGED <<pass, mishaps, x1, x2, x3, x4, x5, x6, x7>> /\ Login!Fine
    BY DEF vars, Login!Fine
  <2> QED
    BY <2>1, <2>2, CopyMoves
<1>4. which' = which
  BY DEF vars
<1> QED
  BY Zenon, <1>1, <1>2, <1>3, <1>4 DEF AccountsInv

\* Every step keeps the invariant of the part that runs.
LEMMA NextAccounts ==
    ASSUME AccountsInv, [Next]_vars
    PROVE  AccountsInv'
<1>1. CASE InTenants /\ Tenant!Next
  BY <1>1, NextTenants DEF InTenants, AccountsInv
<1>2. CASE InUsers /\ Sync!Next
  BY <1>2, NextUsers DEF InUsers, AccountsInv
<1>3. CASE InLogins /\ Login!Next
  BY <1>3, NextLogins DEF InLogins, AccountsInv
<1>4. CASE UNCHANGED vars
  BY <1>4, StutterAccounts
<1> QED
  BY <1>1, <1>2, <1>3, <1>4 DEF Next

\* The inductive invariant holds throughout.
THEOREM AccountsInvariant == Spec => []AccountsInv
<1>1. AccountsInv /\ [Next]_vars => AccountsInv'
  BY NextAccounts
<1> QED
  BY <1>1, InitAccounts, PTL DEF Spec

\* Tenants, users and logins keep their types, for any users, failures and mishaps.
THEOREM AccountsAreTyped == Spec => []TypeOK
<1>1. AccountsInv => TypeOK
  BY TenantsAreTyped, UsersAreTyped, LoginsAreTyped DEF AccountsInv, TypeOK
<1> QED
  BY <1>1, AccountsInvariant, PTL

\* No user gets a second account in 3scale while the first one is in use and was in the
\* pages that the pass has read, for any users, page size, failures and crashes, and though
\* reconcile3scaleMultiTenancy removes accounts from the list while it walks over it.
THEOREM NoSecondAccount == Spec => OneAccountPerUser
<1>1. AccountsInv /\ [Next]_vars => [which = "tenants" => Tenant!OneAccountPerUser]_vars
  <2> SUFFICES ASSUME AccountsInv, Next, which = "tenants" PROVE Tenant!OneAccountPerUser
    OBVIOUS
  <2>1. TenantsInv
    BY DEF AccountsInv
  <2>2. Tenant!Next
    BY DEF Next, InTenants, InUsers, InLogins
  <2> QED
    BY <2>1, <2>2, NextTenants
<1> QED
  BY <1>1, AccountsInvariant, PTL DEF Spec, OneAccountPerUser

\* Of the tenants in the two namespaces of a user, <user>-dev and <user>-stage, at most one
\* is provisioned, for any users, resources and failures (verifyAPIManagementTenant).
THEOREM OneTenantIsProvisioned == Spec => []OneTenantPerUser
<1>1. AccountsInv => OneTenantPerUser
  BY DEF AccountsInv, TenantsInv, StatusInv, OneTenantPerUser
<1> QED
  BY <1>1, AccountsInvariant, PTL

\* The synchronisation of users keeps its types for any number of users and failures: in
\* particular 3scale never has two accounts of one name or one id, though accounts are
\* added, renamed and deleted on both sides (reconcileOpenshiftUsers).
THEOREM UserAccountsStayUnique == Spec => [](which = "users" => Sync!TypeOK)
<1>1. AccountsInv => (which = "users" => Sync!TypeOK)
  BY UsersAreTyped DEF AccountsInv
<1> QED
  BY <1>1, AccountsInvariant, PTL

\* Unless a read fails, the synchronisation never deletes an account whose id a
\* KeycloakUser records, though it was renamed in the meantime (reconcileOpenshiftUsers).
THEOREM RecordedAccountsSurvive == Spec => RecordedAccountKept
<1>1. AccountsInv /\ [Next]_vars => [which = "users" => Sync!RecordedKept]_vars
  <2> SUFFICES ASSUME AccountsInv, [Next]_vars, which = "users" PROVE Sync!RecordedKept
    OBVIOUS
  <2>1. UsersInv
    BY DEF AccountsInv
  <2>2. CASE UNCHANGED vars
    <3>1. UNCHANGED (Sync!vars)
      BY <2>2 DEF vars, Sync!vars
    <3> QED
      BY <2>1, <3>1, RecordedStays
  <2>3. CASE Next
    <3>1. Sync!Next
      BY <2>3 DEF Next, InTenants, InUsers, InLogins
    <3> QED
      BY <2>1, <3>1, RecordedStays
  <2> QED
    BY <2>2, <2>3
<1> QED
  BY <1>1, AccountsInvariant, PTL DEF Spec, RecordedAccountKept

\* Every copy of a client secret holds one that was generated or typed by somebody, and at
\* most one set of secrets is generated per mishap, whatever is deleted and whenever the
\* operator restarts (reconcileOauthSecrets and the copies in the products).
THEOREM LoginSecretsAreGenerated == Spec => [](which = "logins" => Login!TypeOK)
<1>1. AccountsInv => (which = "logins" => Login!TypeOK)
  BY LoginsAreTyped DEF AccountsInv
<1> QED
  BY <1>1, AccountsInvariant, PTL
====
