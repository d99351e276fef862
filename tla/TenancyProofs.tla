---- MODULE TenancyProofs ----
(* Tenants, for any users, tenant resources, page size and number of failures: no user has
   two tenants that are provisioned in the user's two namespaces, and no user gets a second
   account while the first one is in use, if that was in the pages the operator has read.

   The accounts are set up by a loop over the list that was read, from which the loop
   itself removes accounts.  It is a function on the positions of the list, so its proof
   is an induction.  The induction here is over a set of numbers, and rests on the fact
   that a set of numbers has a least element. *)
EXTENDS Accounts, Sequences, FiniteSetTheorems, WellFoundedInduction, TLAPS

--------------------------------------------------------------------------------
(* Induction and what follows from it. *)

\* A set that has zero and with every number the next one has all numbers.
LEMMA Induct ==
    ASSUME NEW S, 0 \in S, \A n \in Nat : n \in S => n + 1 \in S
    PROVE  Nat \subseteq S
<1> DEFINE R == {p \in Nat \X Nat : p[1] < p[2]}
<1>1. IsWellFoundedOn(R, Nat)
  BY NatLessThanWellFounded DEF OpToRel
<1>2. SUFFICES ASSUME Nat \ S # {} PROVE FALSE
  OBVIOUS
<1>3. PICK x \in Nat \ S : \A y \in Nat \ S : <<y, x>> \notin R
  <2> HIDE DEF R
  <2>1. Nat \ S \subseteq Nat
    OBVIOUS
  <2> QED
    BY <1>1, <1>2, <2>1, WFMin
<1>4. x # 0 /\ x - 1 \in Nat
  OBVIOUS
<1>5. <<x - 1, x>> \in R
  BY <1>4
<1>6. x - 1 \in S
  BY <1>3, <1>4, <1>5
<1> QED
  BY <1>4, <1>6

\* The numbers that a function has on 1 .. n have a greatest one.
LEMMA Greatest ==
    ASSUME NEW n \in Nat \ {0}, NEW f \in [1 .. n -> Nat]
    PROVE  \E i \in 1 .. n : \A j \in 1 .. n : f[j] <= f[i]
<1> DEFINE Top(k) == \E i \in 1 .. k : \A j \in 1 .. k : f[j] <= f[i]
           S == {k \in Nat : k + 1 <= n => Top(k + 1)}
<1>1. 0 \in S
  <2>1. Top(1)
    <3>1. 1 \in 1 .. 1 /\ \A j \in 1 .. 1 : j = 1 /\ f[j] \in Nat
      OBVIOUS
    <3> QED
      BY <3>1
  <2> QED
    BY <2>1
<1>2. ASSUME NEW k \in Nat, k \in S PROVE k + 1 \in S
  <2> SUFFICES ASSUME k + 2 <= n PROVE Top(k + 2)
    OBVIOUS
  <2>1. PICK i \in 1 .. k + 1 : \A j \in 1 .. k + 1 : f[j] <= f[i]
    BY <1>2
  <2>2. f[i] \in Nat /\ f[k + 2] \in Nat
    OBVIOUS
  <2>3. CASE f[k + 2] <= f[i]
    <3>1. \A j \in 1 .. k + 2 : f[j] <= f[i]
      BY <2>1, <2>3
    <3> QED
      BY <3>1
  <2>4. CASE f[i] < f[k + 2]
    <3>1. \A j \in 1 .. k + 2 : f[j] <= f[k + 2]
      BY <2>1, <2>2, <2>4
    <3>2. k + 2 \in 1 .. k + 2
      OBVIOUS
    <3> QED
      BY <3>1, <3>2
  <2> QED
    BY <2>2, <2>3, <2>4
<1>3. n - 1 \in S
  <2>1. Nat \subseteq S
    <3> HIDE DEF S
    <3> QED
      BY <1>1, <1>2, Induct
  <2>2. n - 1 \in Nat
    OBVIOUS
  <2> HIDE DEF S
  <2> QED
    BY <2>1, <2>2
<1>4. Top(n - 1 + 1)
  BY <1>3
<1> QED
  BY <1>4

\* So has a finite set of them.
LEMMA GreatestOf ==
    ASSUME NEW T, T \subseteq Nat, T # {}, IsFiniteSet(T)
    PROVE  Tenant!Max(T) \in T /\ \A y \in T : y <= Tenant!Max(T)
<1>1. PICK n \in Nat : ExistsBijection(1 .. n, T)
  BY FS_NatBijection
<1>2. PICK f \in [1 .. n -> T] : \A y \in T : \E i \in 1 .. n : f[i] = y
  BY <1>1 DEF ExistsBijection, Bijection, Injection, Surjection
<1>3. n # 0
  <2>1. PICK y \in T : TRUE
    OBVIOUS
  <2>2. PICK i \in 1 .. n : f[i] = y
    BY <1>2
  <2> QED
    BY <2>2
<1>4. PICK i \in 1 .. n : \A j \in 1 .. n : f[j] <= f[i]
  <2>1. n \in Nat \ {0} /\ f \in [1 .. n -> Nat]
    BY <1>2, <1>3
  <2> QED
    BY <2>1, Greatest
<1>5. f[i] \in T /\ \A y \in T : f[i] >= y
  BY <1>2, <1>4
<1>6. Tenant!Max(T) \in T /\ \A y \in T : Tenant!Max(T) >= y
  BY <1>5 DEF Tenant!Max
<1> QED
  BY <1>6

\* Loop is defined: it begins with begin and goes from position to position by Visit.
LEMMA WalkDef ==
    ASSUME NEW begin, NEW fails, NEW n \in Nat, n = Len(pass.list)
    PROVE  /\ Tenant!Walk(begin, fails)[0] = begin
           /\ \A i \in 1 .. n : Tenant!Walk(begin, fails)[i] =
                Tenant!Visit(Tenant!Walk(begin, fails)[i - 1], i, fails)
<1> DEFINE At(f, i) == IF i = 0 THEN begin ELSE Tenant!Visit(f[i - 1], i, fails)
           Def(f, k) == f = [i \in 0 .. k |-> At(f, i)]
           S == {k \in Nat : \E f : Def(f, k)}
<1>1. 0 \in S
  <2>1. Def([i \in 0 .. 0 |-> begin], 0)
    OBVIOUS
  <2> QED
    BY <2>1
<1>2. ASSUME NEW k \in Nat, k \in S PROVE k + 1 \in S
  <2>1. PICK f : Def(f, k)
    BY <1>2
  <2> DEFINE g == [i \in 0 .. k + 1 |-> IF i = k + 1 THEN At(f, i) ELSE f[i]]
  <2>2. Def(g, k + 1)
    <3>1. \A i \in 0 .. k : f[i] = At(f, i)
      BY <2>1
    <3>2. \A i \in 0 .. k + 1 : g[i] = At(g, i)
      BY <3>1
    <3> QED
      BY <3>2
  <2>3. \E h : Def(h, k + 1)
    <3> HIDE DEF Def, g
    <3> QED
      BY <2>2
  <2> QED
    BY <2>3
<1>3. \E f : Def(f, n)
  <2>1. Nat \subseteq S
    <3> HIDE DEF S
    <3> QED
      BY <1>1, <1>2, Induct
  <2> QED
    BY <2>1
<1>4. Def(Tenant!Walk(begin, fails), n)
  BY <1>3 DEF Tenant!Walk
<1> QED
  BY <1>4

--------------------------------------------------------------------------------
(* The accounts: x1, x2 and x3 are the users, the annotated ones and those with the
   annotation ssoReady, x4 the status of the tenants, x5 the accounts of 3scale, x6 their
   tokens, x7 the names set up, x8 the client secrets and x10 the clients. *)

States == {"approved", "broken", "scheduled"}
Account ==
    {a \in [id : Nat, user : Users, org : Tenant!Names, state : States, active : BOOLEAN,
            provider : BOOLEAN] : a.org = TenantName[a.user]}
\* What the requests of the loop change.
World == [accounts : Seq(Account), clients : SUBSET Tenant!Names, ssoReady : SUBSET x1,
          created : SUBSET Tenant!Names]

\* Accounts b are accounts a, some of which have been scheduled for deletion.
Same(a, b) ==
    /\ DOMAIN b = DOMAIN a
    /\ \A i \in DOMAIN a : /\ b[i].id = a[i].id /\ b[i].org = a[i].org
                          /\ b[i].state \in {a[i].state, "scheduled"}

LEMMA SameTwice ==
    ASSUME NEW a, NEW b, NEW c, Same(a, b), Same(b, c)
    PROVE  Same(a, c)
BY DEF Same

\* A change to some of the accounts that keeps their names.
LEMMA AccountsKept ==
    ASSUME NEW a \in Seq(Account), NEW b, b = [i \in DOMAIN a |-> b[i]],
           \A i \in DOMAIN a : b[i] = a[i]
                               \/ (/\ b[i] \in Account /\ b[i].id = a[i].id /\ b[i].org = a[i].org
                                   /\ b[i].state \in {a[i].state, "scheduled"})
    PROVE  b \in Seq(Account) /\ Same(a, b)
<1>1. a \in [1 .. Len(a) -> Account] /\ Len(a) \in Nat
  OBVIOUS
<1>2. b \in [1 .. Len(a) -> Account]
  BY <1>1
<1>3. b \in Seq(Account)
  BY <1>1, <1>2
<1>4. Same(a, b)
  BY <1>1 DEF Same
<1> QED
  BY <1>3, <1>4

\* A flag of an account is set.
LEMMA WithTyped ==
    ASSUME NEW w \in World, NEW id, NEW field \in {"active", "provider"}
    PROVE  LET u == Tenant!With(w, id, field) IN
           /\ u \in World /\ Same(w.accounts, u.accounts)
           /\ u.clients = w.clients /\ u.ssoReady = w.ssoReady /\ u.created = w.created
<1> DEFINE u == Tenant!With(w, id, field)
           a == w.accounts
           set(x) == [x EXCEPT ![field] = TRUE]
           b == [i \in DOMAIN a |-> IF a[i].id = id THEN set(a[i]) ELSE a[i]]
<1>1. \A x \in Account : set(x) \in Account /\ set(x).id = x.id /\ set(x).org = x.org /\ set(x).state = x.state
  <2>1. CASE field = "active"
    BY <2>1 DEF Account
  <2>2. CASE field = "provider"
    BY <2>2 DEF Account
  <2> QED
    BY <2>1, <2>2
<1>2. a \in Seq(Account)
  BY DEF World
<1>3. u = [w EXCEPT !.accounts = b]
  BY DEF Tenant!With
<1>4. b \in Seq(Account) /\ Same(a, b)
  <2> HIDE DEF a
  <2>1. \A i \in DOMAIN a : a[i] \in Account
    BY <1>2
  <2>2. b = [i \in DOMAIN a |-> b[i]]
    OBVIOUS
  <2>3. \A i \in DOMAIN a : b[i] = a[i] \/ b[i] = set(a[i])
    OBVIOUS
  <2> HIDE DEF b, set
  <2>4. \A i \in DOMAIN a : b[i] = a[i]
                             \/ (/\ b[i] \in Account /\ b[i].id = a[i].id /\ b[i].org = a[i].org
                                 /\ b[i].state \in {a[i].state, "scheduled"})
    BY <1>1, <2>1, <2>3
  <2> QED
    BY <1>2, <2>2, <2>4, AccountsKept
<1> HIDE DEF b
<1>5. /\ u.accounts = b /\ u.clients = w.clients /\ u.ssoReady = w.ssoReady
      /\ u.created = w.created /\ u \in World
  BY <1>3, <1>4 DEF World
<1> QED
  BY <1>4, <1>5

\* So is an account given a provider and a client in Keycloak.
LEMMA ProviderTyped ==
    ASSUME NEW w \in World, NEW a \in Account
    PROVE  LET u == Tenant!addAuthProviderToMTAccount(a, w) IN
           u \in World /\ Same(w.accounts, u.accounts)
<1> DEFINE v == [w EXCEPT !.clients = @ \union {a.org}]
<1>1. v \in World /\ v.accounts = w.accounts
  BY DEF World, Account
<1>2. Same(w.accounts, w.accounts)
  BY DEF Same
<1>3. Tenant!With(v, a.id, "provider") \in World
      /\ Same(w.accounts, Tenant!With(v, a.id, "provider").accounts)
  <2> HIDE DEF v
  <2> QED
    BY <1>1, WithTyped
<1> HIDE DEF v
<1>4. Tenant!addAuthProviderToMTAccount(a, w) \in {w, Tenant!With(v, a.id, "provider")}
  BY DEF Tenant!addAuthProviderToMTAccount, v
<1> QED
  BY <1>2, <1>3, <1>4

\* The requests on behalf of an account schedule none for deletion and rename none.
LEMMA SetUpTyped ==
    ASSUME NEW w \in World, NEW a \in Account, NEW fails
    PROVE  LET u == Tenant!SetUp(a, w, fails) IN
           u \in World /\ Same(w.accounts, u.accounts)
<1> DEFINE does(request) == \A i \in DOMAIN Tenant!Requests :
                              Tenant!Requests[i] = request => i < fails
           active == IF does("activate") THEN Tenant!With(w, a.id, "active") ELSE w
           client == IF Tenant!HasProvider(w, a.id) THEN active
                     ELSE [active EXCEPT !.clients = @ \union {a.org}]
           provider == Tenant!addAuthProviderToMTAccount(a, active)
           ready == [provider EXCEPT !.ssoReady = @ \union {a.org}]
           marked == [ready EXCEPT !.created = @ \union {a.org}]
           Fine(u) == u \in World /\ Same(w.accounts, u.accounts)
           u == Tenant!SetUp(a, w, fails)
<1>1. u \in {w, active, client, provider} \/ (u \in {ready, marked} /\ a.org \in x1)
  <2> DEFINE c1 == ~a.active /\ ~does("activate")
             c2 == x6[a.org] # a.id \/ ~(Tenant!HasProvider(w, a.id) \/ a.org \in x8)
                   \/ ~does("client")
             c3 == ~does("provider")
             c4 == ~Tenant!SsoIsReady(a.org) \/ ~does("annotate") \/ a.org \notin x1
             c5 == ~does("link") \/ ~does("mark")
  <2>1. u = IF c1 THEN w ELSE IF c2 THEN active ELSE IF c3 THEN client
            ELSE IF c4 THEN provider ELSE IF c5 THEN ready ELSE marked
    BY DEF Tenant!SetUp
  <2>2. ~c4 => a.org \in x1
    OBVIOUS
  <2> HIDE DEF c1, c2, c3, c4, c5, u, active, client, provider, ready, marked
  <2> QED
    BY <2>1, <2>2
<1>2. Fine(w)
  BY DEF Same
<1>3. Fine(active)
  BY <1>2, WithTyped
<1>4. Fine(client)
  <2> HIDE DEF active
  <2> QED
    BY <1>3 DEF World, Account
<1>5. Fine(provider)
  <2> HIDE DEF active
  <2>1. provider \in World /\ Same(active.accounts, provider.accounts)
    BY <1>3, ProviderTyped
  <2> QED
    BY <1>3, <2>1, SameTwice
<1>6. a.org \in x1 => Fine(ready)
  <2> HIDE DEF provider
  <2> QED
    BY <1>5 DEF World
<1>7. a.org \in x1 => Fine(marked)
  <2> HIDE DEF ready
  <2> QED
    BY <1>6 DEF World, Account
<1> HIDE DEF u, active, client, provider, ready, marked
<1> QED
  BY <1>1, <1>2, <1>3, <1>4, <1>5, <1>6, <1>7 DEF u

\* A deletion.
LEMMA ScheduledTyped ==
    ASSUME NEW w \in World, NEW id
    PROVE  LET u == Tenant!Scheduled(w, id) IN
           u \in World /\ Same(w.accounts, u.accounts)
<1> DEFINE u == Tenant!Scheduled(w, id)
           a == w.accounts
           set(x) == [x EXCEPT !.state = "scheduled"]
           b == [i \in DOMAIN a |-> IF a[i].id = id THEN set(a[i]) ELSE a[i]]
<1>1. \A x \in Account : set(x) \in Account /\ set(x).id = x.id /\ set(x).org = x.org /\ set(x).state = "scheduled"
  BY DEF Account, States
<1>2. a \in Seq(Account)
  BY DEF World
<1>3. u = [w EXCEPT !.accounts = b]
  BY DEF Tenant!Scheduled
<1>4. b \in Seq(Account) /\ Same(a, b)
  <2> HIDE DEF a
  <2>1. \A i \in DOMAIN a : a[i] \in Account
    BY <1>2
  <2>2. b = [i \in DOMAIN a |-> b[i]]
    OBVIOUS
  <2>3. \A i \in DOMAIN a : b[i] = a[i] \/ b[i] = set(a[i])
    OBVIOUS
  <2> HIDE DEF b, set
  <2>4. \A i \in DOMAIN a : b[i] = a[i]
                             \/ (/\ b[i] \in Account /\ b[i].id = a[i].id /\ b[i].org = a[i].org
                                 /\ b[i].state \in {a[i].state, "scheduled"})
    BY <1>1, <2>1, <2>3
  <2> QED
    BY <1>2, <2>2, <2>4, AccountsKept
<1> HIDE DEF b
<1>5. u.accounts = b /\ u \in World
  BY <1>3, <1>4 DEF World
<1> QED
  BY <1>4, <1>5

\* Every approved account of the list is among the first n of the array.
Covers(list, array, n) ==
    \A k \in DOMAIN list : list[k].state = "approved" => \E m \in 1 .. n : array[m] = list[k]

Loop == [w : World, array : Seq(Account), len : Int, over : BOOLEAN]

\* Where the loop is after its first i steps: it removed at most i entries of the array,
\* and unless it is over none of an account in use.
LoopInv(l, i) ==
    /\ l \in Loop
    /\ Len(l.array) = Len(pass.list)
    /\ Len(pass.list) - i <= l.len /\ l.len <= Len(pass.list)
    /\ Same(x5, l.w.accounts)
    /\ l.over \/ Covers(pass.list, l.array, l.len)

\* A step of the loop: an entry that is removed is not that of an account in use.
LEMMA VisitKeeps ==
    ASSUME pass.list \in Seq(Account), NEW i \in 1 .. Len(pass.list), NEW fails, NEW l,
           LoopInv(l, i - 1)
    PROVE  LoopInv(Tenant!Visit(l, i, fails), i)
<1> DEFINE n == Len(pass.list)
           a == l.array[i]
           up == Tenant!SetUp(a, l.w, fails[a.id])
           v == Tenant!Visit(l, i, fails)
<1>1. n \in Nat /\ i \in Nat /\ 1 <= i /\ i <= n
  OBVIOUS
<1>2. /\ l \in Loop /\ l.w \in World /\ l.array \in Seq(Account) /\ l.len \in Int
      /\ l.over \in BOOLEAN /\ Len(l.array) = n /\ n - i < l.len /\ l.len <= n
      /\ Same(x5, l.w.accounts) /\ (l.over \/ Covers(pass.list, l.array, l.len))
  BY <1>1 DEF LoopInv, Loop
<1>3. a \in Account
  BY <1>1, <1>2
<1> HIDE DEF a
<1>4. CASE v = l
  <2>1. n - i <= l.len
    BY <1>1, <1>2
  <2> QED
    BY <1>2, <1>4, <2>1 DEF LoopInv
<1>5. CASE v = [l EXCEPT !.w = up, !.over = fails[a.id] = Len(Tenant!Requests) /\ a.org \in up.ssoReady]
           /\ ~l.over
  <2>1. up \in World /\ Same(x5, up.accounts)
    BY <1>2, <1>3, SetUpTyped, SameTwice
  <2> HIDE DEF up
  <2>2. v \in Loop /\ v.w = up /\ v.array = l.array /\ v.len = l.len
    BY <1>2, <1>5, <2>1 DEF Loop
  <2>3. n - i <= l.len
    BY <1>1, <1>2
  <2> QED
    BY <1>2, <1>5, <2>1, <2>2, <2>3 DEF LoopInv
<1> DEFINE less == [j \in DOMAIN l.array |->
                      IF i <= j /\ j < l.len THEN l.array[j + 1] ELSE l.array[j]]
           new == IF fails[a.id] = 1 THEN l.w ELSE Tenant!Scheduled(l.w, a.id)
<1>6. CASE /\ ~l.over /\ a.state # "approved"
           /\ v = [w |-> new, over |-> i > l.len, array |-> less, len |-> l.len - 1]
  <2>1. new \in World /\ Same(x5, new.accounts)
    BY <1>2, ScheduledTyped, SameTwice
  <2>2. l.array \in [1 .. n -> Account]
    BY <1>2
  <2>3. less \in [1 .. n -> Account]
    BY <1>1, <1>2, <2>2
  <2>4. less \in Seq(Account) /\ Len(less) = n
    <3> HIDE DEF less
    <3> QED
      BY <1>1, <2>3
  <2>5. i <= l.len => Covers(pass.list, less, l.len - 1)
    <3> SUFFICES ASSUME i <= l.len, NEW k \in DOMAIN pass.list, pass.list[k].state = "approved"
                 PROVE  \E m \in 1 .. l.len - 1 : less[m] = pass.list[k]
      BY DEF Covers
    <3>1. PICK m \in 1 .. l.len : l.array[m] = pass.list[k]
      BY <1>2, <1>6 DEF Covers
    <3>2. m # i /\ m \in Nat /\ m \in 1 .. n /\ DOMAIN l.array = 1 .. n
      BY <1>1, <1>2, <1>6, <2>2, <3>1 DEF a
    <3>3. CASE m < i
      <4>1. m \in 1 .. l.len - 1 /\ less[m] = l.array[m]
        BY <1>1, <1>2, <3>2, <3>3
      <4> QED
        BY <3>1, <4>1
    <3>4. CASE m > i
      <4>1. m - 1 \in 1 .. l.len - 1 /\ less[m - 1] = l.array[m]
        BY <1>1, <1>2, <3>2, <3>4
      <4> QED
        BY <3>1, <4>1
    <3> QED
      BY <1>1, <3>2, <3>3, <3>4
  <2> HIDE DEF less, new
  <2>6. /\ v = [w |-> new, over |-> i > l.len, array |-> less, len |-> l.len - 1]
        /\ l.len - 1 \in Int /\ (i > l.len) \in BOOLEAN
    BY <1>1, <1>2, <1>6
  <2> HIDE DEF v
  <2>7. v \in Loop /\ v.w = new /\ v.array = less /\ v.len = l.len - 1 /\ v.over = (i > l.len)
    BY <2>1, <2>4, <2>6 DEF Loop
  <2>8. n - i <= l.len - 1 /\ l.len - 1 <= n
    BY <1>1, <1>2
  <2>9. n - i <= v.len /\ v.len <= n /\ Len(v.array) = n /\ Same(x5, v.w.accounts)
    BY Zenon, <2>1, <2>4, <2>7, <2>8
  <2>10. v.over \/ Covers(pass.list, v.array, v.len)
    <3>1. CASE i > l.len
      BY <2>7, <3>1
    <3>2. CASE i <= l.len
      BY Zenon, <2>5, <2>7, <3>2
    <3> QED
      BY <1>1, <1>2, <3>1, <3>2
  <2> QED
    BY <2>7, <2>9, <2>10 DEF LoopInv, v
<1> HIDE DEF v
<1>7. \/ v = l
      \/ /\ v = [l EXCEPT !.w = up,
                          !.over = fails[a.id] = Len(Tenant!Requests) /\ a.org \in up.ssoReady]
         /\ ~l.over
      \/ /\ ~l.over /\ a.state # "approved"
         /\ v = [w |-> new, over |-> i > l.len, array |-> less, len |-> l.len - 1]
  BY Zenon DEF Tenant!Visit, Tenant!Without, v, a
<1> QED
  BY <1>4, <1>5, <1>6, <1>7 DEF v

--------------------------------------------------------------------------------
(* The invariant. *)

TenantPass == [at : {"idle", "list", "accounts", "create", "delete"}, users : SUBSET Users,
               list : Seq(Account), read : SUBSET Nat]

\* The types.
TenantsTyped ==
    /\ x1 \subseteq Users /\ x2 \subseteq x1 /\ x3 \subseteq x1
    /\ x4 \in [Tenants -> {"absent", "", "wont provision"} \union Tenant!Accepted]
    /\ x5 \in Seq(Account) /\ x6 \in [Tenant!Names -> Nat]
    /\ x7 \subseteq Tenant!Names /\ x8 \subseteq Tenant!Names /\ x10 \subseteq Tenant!Names
    /\ pass \in TenantPass

\* Between the list and the creation of accounts, the list has the name of every account in
\* use that was read.
ReadListed ==
    pass.at \in {"accounts", "create"} =>
        \A i \in DOMAIN x5 : x5[i].state = "approved" /\ x5[i].id \in pass.read =>
            \E k \in DOMAIN pass.list :
                pass.list[k].state = "approved" /\ pass.list[k].org = x5[i].org

\* What the pass has read is typed.
LEMMA ReadTyped ==
    ASSUME TenantsTyped
    PROVE  /\ pass.list \in Seq(Account) /\ Len(pass.list) \in Nat /\ pass.users \subseteq Users
           /\ pass.at \in {"idle", "list", "accounts", "create", "delete"}
<1>1. pass \in TenantPass
  BY Zenon DEF TenantsTyped
<1>2. pass.list \in Seq(Account)
  BY <1>1 DEF TenantPass
<1> QED
  BY <1>1, <1>2 DEF TenantPass

\* The loop over the whole list.
LEMMA LoopEnds ==
    ASSUME TenantsTyped, NEW fails, NEW begin, LoopInv(begin, 0)
    PROVE  LoopInv(Tenant!Walk(begin, fails)[Len(pass.list)], Len(pass.list))
<1> DEFINE n == Len(pass.list)
           S == {k \in Nat : k <= n => LoopInv(Tenant!Walk(begin, fails)[k], k)}
<1>1. pass.list \in Seq(Account) /\ n \in Nat
  BY ReadTyped
<1>2. /\ Tenant!Walk(begin, fails)[0] = begin
      /\ \A i \in 1 .. n : Tenant!Walk(begin, fails)[i] =
           Tenant!Visit(Tenant!Walk(begin, fails)[i - 1], i, fails)
  BY <1>1, WalkDef
<1>3. 0 \in S
  BY <1>2
<1>4. ASSUME NEW k \in Nat, k \in S PROVE k + 1 \in S
  <2> SUFFICES ASSUME k + 1 <= n PROVE LoopInv(Tenant!Walk(begin, fails)[k + 1], k + 1)
    OBVIOUS
  <2> DEFINE l == Tenant!Walk(begin, fails)[k]
  <2>1. LoopInv(l, k) /\ k + 1 \in 1 .. n /\ k + 1 - 1 = k
    BY <1>1, <1>4
  <2>2. Tenant!Walk(begin, fails)[k + 1] = Tenant!Visit(l, k + 1, fails)
    BY <1>2, <2>1
  <2> HIDE DEF l
  <2>3. LoopInv(Tenant!Visit(l, k + 1, fails), k + 1)
    BY <1>1, <2>1, VisitKeeps
  <2> QED
    BY <2>2, <2>3
<1>5. Nat \subseteq S
  <2> HIDE DEF S
  <2> QED
    BY <1>3, <1>4, Induct
<1> QED
  BY <1>1, <1>5

\* The accounts are set up: nothing new is in use, and every account in use stays listed.
LEMMA ReconcileAccounts ==
    ASSUME TenantsTyped, Tenant!reconcileAccounts
    PROVE  TenantsTyped' /\ Same(x5, x5') /\ (ReadListed => ReadListed')
<1>1. PICK id, k : LET begin == [w |-> [accounts |-> x5, clients |-> x10, ssoReady |-> x3, created |-> x7],
                                 array |-> pass.list, len |-> Len(pass.list), over |-> FALSE]
                       end == Tenant!Walk(begin, Tenant!Fails(id, k))[Len(pass.list)]
                   IN  /\ x5' = end.w.accounts /\ x10' = end.w.clients
                       /\ x3' = end.w.ssoReady /\ x7' = end.w.created
                       /\ pass' = IF end.over THEN Tenant!Idle
                                  ELSE [pass EXCEPT !.at = "create",
                                                    !.list = SubSeq(end.array, 1, end.len)]
  BY DEF Tenant!reconcileAccounts
<1> DEFINE begin == [w |-> [accounts |-> x5, clients |-> x10, ssoReady |-> x3, created |-> x7],
                     array |-> pass.list, len |-> Len(pass.list), over |-> FALSE]
           end == Tenant!Walk(begin, Tenant!Fails(id, k))[Len(pass.list)]
           n == Len(pass.list)
<1>2. /\ pass.list \in Seq(Account) /\ pass.at = "accounts" /\ n \in Nat
      /\ UNCHANGED <<x1, x2, x4, x6, x8>>
  BY ReadTyped DEF Tenant!reconcileAccounts
<1>3. LoopInv(begin, 0)
  <2>1. begin.w \in World
    BY DEF TenantsTyped, World
  <2>2. begin \in Loop
    BY <1>2, <2>1 DEF Loop
  <2>3. Covers(pass.list, pass.list, n)
    BY <1>2 DEF Covers
  <2>4. Same(x5, x5)
    BY DEF Same
  <2> QED
    BY <1>2, <2>2, <2>3, <2>4 DEF LoopInv
<1> HIDE DEF begin
<1>4. LoopInv(end, n)
  BY <1>3, LoopEnds
<1>5. /\ x5' = end.w.accounts /\ x10' = end.w.clients /\ x3' = end.w.ssoReady /\ x7' = end.w.created
      /\ pass' = IF end.over THEN Tenant!Idle
                 ELSE [pass EXCEPT !.at = "create", !.list = SubSeq(end.array, 1, end.len)]
  BY <1>1 DEF begin
<1> HIDE DEF end
<1>6. /\ end.w \in World /\ end.array \in Seq(Account) /\ Len(end.array) = n /\ end.len \in Nat
      /\ end.len <= n /\ Same(x5, end.w.accounts) /\ end.over \in BOOLEAN
      /\ (end.over \/ Covers(pass.list, end.array, end.len))
  BY <1>2, <1>4 DEF LoopInv, Loop
<1> DEFINE list == SubSeq(end.array, 1, end.len)
<1>7. /\ list \in Seq(Account) /\ Len(list) = end.len
      /\ \A m \in 1 .. end.len : list[m] = end.array[m]
  BY <1>2, <1>6
<1> HIDE DEF list
<1>8. pass' = IF end.over THEN Tenant!Idle ELSE [pass EXCEPT !.at = "create", !.list = list]
  BY <1>5 DEF list
<1>9. TenantsTyped'
  <2>1. /\ x5' \in Seq(Account) /\ x10' \subseteq Tenant!Names /\ x3' \subseteq x1
        /\ x7' \subseteq Tenant!Names
    BY <1>5, <1>6 DEF World
  <2>2. pass' \in TenantPass
    <3>1. pass \in TenantPass
      BY Zenon DEF TenantsTyped
    <3>2. Tenant!Idle \in TenantPass
      BY DEF Tenant!Idle, TenantPass
    <3>3. [pass EXCEPT !.at = "create", !.list = list] \in TenantPass
      BY <1>7, <3>1 DEF TenantPass
    <3> QED
      BY <1>8, <3>2, <3>3
  <2> QED
    BY <1>2, <2>1, <2>2 DEF TenantsTyped, TenantPass, Account, Tenant!Names, Tenant!Accepted
<1>10. ASSUME ReadListed PROVE ReadListed'
  <2> SUFFICES ASSUME pass'.at \in {"accounts", "create"}, NEW i \in DOMAIN x5',
                      x5'[i].state = "approved", x5'[i].id \in pass'.read
               PROVE  \E m \in DOMAIN pass'.list :
                        pass'.list[m].state = "approved" /\ pass'.list[m].org = x5'[i].org
    BY DEF ReadListed
  <2>1. ~end.over /\ pass'.list = list /\ pass'.read = pass.read
    <3>1. pass \in TenantPass
      BY Zenon DEF TenantsTyped
    <3> QED
      BY <1>6, <1>8, <3>1 DEF TenantPass, Tenant!Idle
  <2>2. /\ i \in DOMAIN x5 /\ x5[i].state = "approved"
        /\ x5[i].org = x5'[i].org /\ x5[i].id = x5'[i].id
    BY <1>5, <1>6 DEF Same
  <2>3. PICK j \in DOMAIN pass.list : pass.list[j].state = "approved" /\ pass.list[j].org = x5[i].org
    BY <1>2, <1>10, <2>1, <2>2 DEF ReadListed
  <2>4. PICK m \in 1 .. end.len : end.array[m] = pass.list[j]
    BY <1>6, <2>1, <2>3 DEF Covers
  <2>5. m \in DOMAIN list /\ list[m] = pass.list[j]
    BY <1>6, <1>7, <2>4
  <2> QED
    BY <2>1, <2>2, <2>3, <2>5
<1> QED
  BY <1>5, <1>6, <1>9, <1>10

\* The accounts of 3scale have different ids.
IdsUnique == \A i, j \in DOMAIN x5 : x5[i].id = x5[j].id => i = j

\* Every account after a step was there before, at another place: s[i] for the i-th.  None
\* is in use that was not, and there are no more of them.
From(s) ==
    /\ s \in [DOMAIN x5' -> DOMAIN x5] /\ Len(x5') <= Len(x5)
    /\ \A i, j \in DOMAIN x5' : s[i] = s[j] => i = j
    /\ \A i \in DOMAIN x5' :
         /\ x5'[i].id = x5[s[i]].id /\ x5'[i].org = x5[s[i]].org
         /\ x5'[i].state = "approved" => x5[s[i]].state = "approved"

\* Such a step keeps the ids different.
LEMMA FewerIds == ASSUME IdsUnique, NEW s, From(s) PROVE IdsUnique'
<1> SUFFICES ASSUME NEW i \in DOMAIN x5', NEW j \in DOMAIN x5', x5'[i].id = x5'[j].id
             PROVE  i = j
  BY DEF IdsUnique
<1>1. s[i] \in DOMAIN x5 /\ s[j] \in DOMAIN x5 /\ x5[s[i]].id = x5[s[j]].id
  BY DEF From
<1>2. s[i] = s[j]
  BY <1>1 DEF IdsUnique
<1> QED
  BY <1>2 DEF From

\* Some accounts are scheduled for deletion, or none.
LEMMA SameFrom ==
    ASSUME Same(x5, x5'), x5 \in Seq(Account), x5' \in Seq(Account)
    PROVE  From([i \in DOMAIN x5 |-> i])
<1>1. Len(x5') = Len(x5) /\ Len(x5) \in Nat
  BY DEF Same
<1> QED
  BY <1>1 DEF Same, From

\* Such a step leaves every account in use that was read listed.
LEMMA FewerListed ==
    ASSUME ReadListed, NEW s, From(s), pass' = pass
    PROVE  ReadListed'
<1> SUFFICES ASSUME pass.at \in {"accounts", "create"}, NEW i \in DOMAIN x5',
                    x5'[i].state = "approved", x5'[i].id \in pass.read
             PROVE  \E m \in DOMAIN pass.list :
                      pass.list[m].state = "approved" /\ pass.list[m].org = x5'[i].org
  BY DEF ReadListed
<1>1. /\ s[i] \in DOMAIN x5 /\ x5[s[i]].state = "approved"
      /\ x5[s[i]].id = x5'[i].id /\ x5[s[i]].org = x5'[i].org
  BY DEF From
<1> QED
  BY <1>1 DEF ReadListed

\* The list is read: it has the accounts in the pages.
LEMMA ListAccounts ==
    ASSUME TenantsTyped, IdsUnique, Tenant!ListTenantAccounts
    PROVE  TenantsTyped' /\ x5' = x5 /\ ReadListed'
<1> DEFINE n == Tenant!Places
           m == IF n < Len(x5) THEN n ELSE Len(x5)
           list == SubSeq(x5, 1, m)
           read == {x5[i].id : i \in 1 .. m}
<1>1. /\ pass' = [at |-> "accounts", users |-> x2, list |-> list, read |-> read]
      /\ UNCHANGED <<x1, x2, x3, x4, x5, x6, x7, x8, x10>>
  BY DEF Tenant!ListTenantAccounts, Tenant!GetMultiTenantUsers, Tenant!users, Tenant!threeScale,
         Tenant!sso
<1>2. x5 \in Seq(Account) /\ Len(x5) \in Nat /\ x2 \subseteq Users
  <2>1. x5 \in Seq(Account) /\ x2 \subseteq Users
    BY Zenon DEF TenantsTyped
  <2> QED
    BY <2>1
<1>3. Tenant!Cardinality(x2) \in Nat
  <2>1. IsFiniteSet(x2)
    BY <1>2, TenantsAssumption, FS_Subset
  <2> QED
    BY <2>1, FS_CardinalityType DEF Tenant!Cardinality, Cardinality
<1>4. n \in Nat
  <2> DEFINE k == Tenant!Pages(Tenant!Cardinality(x2))
  <2>1. k \in Nat /\ k >= 1
    BY <1>3, TenantsAssumption DEF Tenant!Pages
  <2>2. n = k * PageSize - 2
    BY DEF Tenant!Places, Tenant!GetMultiTenantUsers
  <2> HIDE DEF k, n
  <2>3. PageSize \in Nat /\ PageSize >= 2
    BY TenantsAssumption
  <2>4. k * PageSize = PageSize + (k - 1) * PageSize /\ (k - 1) * PageSize \in Nat
    BY <2>1, <2>3
  <2> QED
    BY <2>2, <2>3, <2>4
<1> HIDE DEF n
<1>5. m \in 0 .. Len(x5)
  BY <1>2, <1>4
<1> HIDE DEF m
<1>6. \A i \in 1 .. m : i \in DOMAIN x5 /\ x5[i] \in Account
  BY <1>2, <1>5
<1>7. list \in Seq(Account) /\ DOMAIN list = 1 .. m /\ \A i \in 1 .. m : list[i] = x5[i]
  BY <1>2, <1>5
<1>8. read \subseteq Nat
  BY <1>6 DEF Account
<1> HIDE DEF list
<1>9. pass' \in TenantPass /\ pass'.list = list /\ pass'.read = read
  <2> HIDE DEF read
  <2> QED
    BY <1>1, <1>2, <1>7, <1>8 DEF TenantPass
<1>10. TenantsTyped'
  BY <1>1, <1>9 DEF TenantsTyped, TenantPass, Account, Tenant!Names, Tenant!Accepted
<1>11. ReadListed'
  <2> SUFFICES ASSUME NEW i \in DOMAIN x5, x5[i].state = "approved", x5[i].id \in read
               PROVE  \E k \in DOMAIN list : list[k].state = "approved" /\ list[k].org = x5[i].org
    BY <1>1, <1>9 DEF ReadListed
  <2>1. PICK j \in 1 .. m : x5[j].id = x5[i].id
    OBVIOUS
  <2>2. i = j
    BY <1>6, <2>1 DEF IdsUnique
  <2> QED
    BY <1>7, <2>1, <2>2
<1> QED
  BY <1>1, <1>10, <1>11

\* There are finitely many names.
LEMMA NamesFinite == IsFiniteSet(Tenant!Names)
<1> DEFINE f == [u \in Users |-> TenantName[u]]
<1>1. f \in Surjection(Users, Tenant!Names)
  BY DEF Surjection, Tenant!Names
<1> HIDE DEF f
<1> QED
  BY <1>1, TenantsAssumption, FS_Surjection

\* The next id of 3scale is a number, and greater than all others.
LEMMA NextIdTyped ==
    ASSUME TenantsTyped
    PROVE  /\ Tenant!NextId \in Nat /\ Tenant!NextId # 0
           /\ \A i \in DOMAIN x5 : x5[i].id \in Nat /\ x5[i].id < Tenant!NextId
<1> DEFINE ids == {x5[i].id : i \in DOMAIN x5}
           stored == {x6[n] : n \in Tenant!Names}
           T == {0} \union ids \union stored
<1>1. x5 \in Seq(Account) /\ x6 \in [Tenant!Names -> Nat]
  BY Zenon DEF TenantsTyped
<1>2. IsFiniteSet(ids)
  <2> DEFINE f == [i \in 1 .. Len(x5) |-> x5[i].id]
  <2>1. DOMAIN x5 = 1 .. Len(x5) /\ Len(x5) \in Nat
    BY <1>1
  <2>2. f \in Surjection(1 .. Len(x5), ids)
    BY <2>1 DEF Surjection
  <2>3. IsFiniteSet(1 .. Len(x5))
    BY <2>1, FS_Interval
  <2> HIDE DEF f, ids
  <2> QED
    BY <2>2, <2>3, FS_Surjection
<1>3. IsFiniteSet(stored)
  <2> DEFINE f == [n \in Tenant!Names |-> x6[n]]
  <2>1. f \in Surjection(Tenant!Names, stored)
    BY DEF Surjection
  <2> HIDE DEF f, stored
  <2> QED
    BY <2>1, NamesFinite, FS_Surjection
<1>4. IsFiniteSet(T)
  <2> HIDE DEF ids, stored
  <2>1. IsFiniteSet({0}) /\ IsFiniteSet({0} \union ids)
    BY <1>2, FS_Singleton, FS_Union
  <2> QED
    BY <1>3, <2>1, FS_Union
<1>5. T \subseteq Nat /\ T # {}
  <2>1. \A i \in DOMAIN x5 : x5[i] \in Account
    BY <1>1
  <2>2. ids \subseteq Nat
    BY <2>1 DEF Account
  <2>3. stored \subseteq Nat
    BY <1>1
  <2> QED
    BY <2>2, <2>3
<1>6. Tenant!Max(T) \in Nat /\ \A y \in T : y \in Nat /\ y <= Tenant!Max(T)
  <2> HIDE DEF T
  <2> QED
    BY <1>4, <1>5, GreatestOf
<1>7. Tenant!NextId = 1 + Tenant!Max(T)
  BY DEF Tenant!NextId
<1>8. \A i \in DOMAIN x5 : x5[i].id \in T
  OBVIOUS
<1> HIDE DEF T
<1> QED
  BY <1>6, <1>7, <1>8

\* The users without an account in the list, in some order.
Missing == {u \in pass.users : TenantName[u] \notin Tenant!ListedOrgs}

LEMMA ToBeCreated ==
    ASSUME TenantsTyped
    PROVE  LET new == Tenant!getMTAccountsToBeCreated IN
           /\ new \in Seq(Missing) /\ Len(new) \in Nat /\ DOMAIN new = 1 .. Len(new)
           /\ Missing \subseteq Users
<1> DEFINE new == Tenant!getMTAccountsToBeCreated
           n == Cardinality(Missing)
<1>1. Missing \subseteq Users
  BY ReadTyped DEF Missing
<1>2. IsFiniteSet(Missing)
  BY <1>1, TenantsAssumption, FS_Subset
<1>3. n \in Nat /\ ExistsBijection(1 .. n, Missing)
  BY <1>2, FS_CardinalityType
<1>4. Tenant!Cardinality(Missing) = n
  BY DEF Tenant!Cardinality, Cardinality
<1>5. new = CHOOSE f \in Tenant!Injection(1 .. n, Missing) : TRUE
  BY <1>4 DEF Tenant!getMTAccountsToBeCreated, Missing
<1>6. Tenant!Injection(1 .. n, Missing) # {}
  BY <1>3 DEF ExistsBijection, Bijection, Injection, IsInjective,
              Tenant!Injection, Tenant!IsInjective
<1> HIDE DEF n, new
<1>7. new \in Tenant!Injection(1 .. n, Missing)
  BY <1>5, <1>6
<1>8. new \in [1 .. n -> Missing]
  BY <1>7 DEF Tenant!Injection, Tenant!IsInjective
<1>9. new \in Seq(Missing) /\ Len(new) = n /\ DOMAIN new = 1 .. n
  BY <1>3, <1>8 DEF n
<1> QED
  BY <1>1, <1>3, <1>9 DEF new, n

\* The entries of a list that is added to another.
LEMMA Joined ==
    ASSUME NEW S, NEW a \in Seq(S), NEW b \in Seq(S)
    PROVE  LET c == a \o b IN
           /\ c \in Seq(S) /\ DOMAIN c = 1 .. Len(a) + Len(b)
           /\ \A i \in DOMAIN c : \/ i \in DOMAIN a /\ c[i] = a[i]
                                  \/ i - Len(a) \in 1 .. Len(b) /\ c[i] = b[i - Len(a)]
<1> DEFINE c == a \o b
<1>1. Len(a) \in Nat /\ Len(b) \in Nat /\ DOMAIN a = 1 .. Len(a)
  OBVIOUS
<1>2. c \in Seq(S) /\ Len(c) = Len(a) + Len(b) /\ DOMAIN c = 1 .. Len(a) + Len(b)
  OBVIOUS
<1>3. \A i \in 1 .. Len(a) + Len(b) : c[i] = IF i <= Len(a) THEN a[i] ELSE b[i - Len(a)]
  OBVIOUS
<1> HIDE DEF c
<1>4. \A i \in DOMAIN c : \/ i \in DOMAIN a /\ c[i] = a[i]
                          \/ i - Len(a) \in 1 .. Len(b) /\ c[i] = b[i - Len(a)]
  <2> SUFFICES ASSUME NEW i \in 1 .. Len(a) + Len(b)
               PROVE  \/ i \in DOMAIN a /\ c[i] = a[i]
                      \/ i - Len(a) \in 1 .. Len(b) /\ c[i] = b[i - Len(a)]
    BY <1>2
  <2>1. c[i] = IF i <= Len(a) THEN a[i] ELSE b[i - Len(a)]
    BY <1>3
  <2>2. CASE i <= Len(a)
    <3>1. i \in 1 .. Len(a)
      BY <1>1, <2>2
    <3>2. c[i] = a[i]
      BY Zenon, <2>1, <2>2
    <3>3. i \in DOMAIN a
      BY Zenon, <1>1, <3>1
    <3> QED
      BY Zenon, <3>2, <3>3
  <2>3. CASE i > Len(a)
    <3>1. i - Len(a) \in 1 .. Len(b)
      BY <1>1, <2>3
    <3>2. c[i] = b[i - Len(a)]
      BY <1>1, <2>1, <2>3
    <3> QED
      BY <3>1, <3>2
  <2> QED
    BY <1>1, <2>2, <2>3
<1> QED
  BY <1>2, <1>4 DEF c

\* Accounts are created: only for users without an account in use that was read.
LEMMA CreateAccounts ==
    ASSUME TenantsTyped, IdsUnique, Tenant!createTenants
    PROVE  /\ TenantsTyped' /\ ReadListed' /\ IdsUnique'
           /\ ReadListed => Tenant!OneAccountPerUser
<1> DEFINE new == Tenant!getMTAccountsToBeCreated
           id == Tenant!NextId
           mine(n, m, stored) == {i \in 1 .. m : TenantName[new[i]] = n /\ (i < m \/ stored)}
<1>1. PICK m \in 0 .. Len(new), stored \in BOOLEAN :
        /\ x5' = x5 \o [i \in 1 .. m |-> Tenant!CreateTenant(new[i], id + i - 1)]
        /\ x6' = [n \in Tenant!Names |->
             IF mine(n, m, stored) = {} THEN x6[n] ELSE id - 1 + Tenant!Max(mine(n, m, stored))]
        /\ pass' \in {[pass EXCEPT !.at = "delete"], Tenant!Idle}
  BY DEF Tenant!createTenants
<1>2. /\ new \in Seq(Missing) /\ Len(new) \in Nat /\ DOMAIN new = 1 .. Len(new)
      /\ Missing \subseteq Users
  BY ToBeCreated
<1>3. id \in Nat /\ id - 1 \in Nat /\ \A i \in DOMAIN x5 : x5[i].id \in Nat /\ x5[i].id < id
  <2>1. id \in Nat /\ id # 0 /\ \A i \in DOMAIN x5 : x5[i].id \in Nat /\ x5[i].id < id
    BY NextIdTyped
  <2> HIDE DEF id
  <2> QED
    BY <2>1
<1>4. /\ pass.at = "create" /\ UNCHANGED <<x1, x2, x3, x4, x7, x8, x10>>
  BY DEF Tenant!createTenants, Tenant!users, Tenant!sso
<1>5. x5 \in Seq(Account) /\ Len(x5) \in Nat /\ DOMAIN x5 = 1 .. Len(x5) /\ x6 \in [Tenant!Names -> Nat]
  <2>1. x5 \in Seq(Account) /\ x6 \in [Tenant!Names -> Nat]
    BY Zenon DEF TenantsTyped
  <2> QED
    BY <2>1
<1> HIDE DEF new, id
<1> DEFINE c == [i \in 1 .. m |-> Tenant!CreateTenant(new[i], id + i - 1)]
<1>6. \A i \in 1 .. m : /\ i \in DOMAIN new /\ new[i] \in Missing /\ new[i] \in Users
                        /\ TenantName[new[i]] \in Tenant!Names
  BY <1>2 DEF Tenant!Names
<1>7. /\ c \in [1 .. m -> Account]
      /\ \A i \in 1 .. m : c[i].user = new[i] /\ c[i].id = id + i - 1
  <2>1. \A i \in 1 .. m : id + i - 1 \in Nat
    BY <1>2, <1>3
  <2>2. \A i \in 1 .. m : c[i] = [id |-> id + i - 1, user |-> new[i], org |-> TenantName[new[i]],
                                  state |-> "approved", active |-> FALSE, provider |-> FALSE]
    BY DEF Tenant!CreateTenant
  <2>3. c = [i \in 1 .. m |-> c[i]]
    OBVIOUS
  <2> HIDE DEF c
  <2>4. ASSUME NEW i \in 1 .. m PROVE c[i] \in Account /\ c[i].user = new[i] /\ c[i].id = id + i - 1
    <3> DEFINE a == id + i - 1
    <3>1. a \in Nat /\ new[i] \in Users /\ TenantName[new[i]] \in Tenant!Names
      BY <1>6, <2>1
    <3>2. c[i] = [id |-> a, user |-> new[i], org |-> TenantName[new[i]],
                  state |-> "approved", active |-> FALSE, provider |-> FALSE]
      BY <2>2
    <3> HIDE DEF a
    <3>3. c[i] \in Account /\ c[i].user = new[i] /\ c[i].id = a
      BY <3>1, <3>2 DEF Account, States
    <3> QED
      BY <3>3 DEF a
  <2> QED
    BY <2>3, <2>4
<1> HIDE DEF c
<1>8. c \in Seq(Account) /\ Len(c) = m /\ m \in Nat
  BY <1>2, <1>7
<1>9. x5' = x5 \o c
  BY <1>1 DEF c
<1>10. /\ x5' \in Seq(Account) /\ DOMAIN x5' = 1 .. Len(x5) + m
       /\ \A i \in DOMAIN x5' : \/ i \in DOMAIN x5 /\ x5'[i] = x5[i]
                                \/ i - Len(x5) \in 1 .. m /\ x5'[i] = c[i - Len(x5)]
  <2> DEFINE d == x5 \o c
  <2>1. /\ d \in Seq(Account) /\ DOMAIN d = 1 .. Len(x5) + Len(c)
        /\ \A i \in DOMAIN d : \/ i \in DOMAIN x5 /\ d[i] = x5[i]
                               \/ i - Len(x5) \in 1 .. Len(c) /\ d[i] = c[i - Len(x5)]
    BY <1>5, <1>8, Joined
  <2> HIDE DEF d
  <2> QED
    BY <1>8, <1>9, <2>1 DEF d
<1>11. TenantsTyped'
  <2>1. x6' \in [Tenant!Names -> Nat]
    <3> DEFINE own(n) == mine(n, m, stored)
               token(n) == IF own(n) = {} THEN x6[n] ELSE id - 1 + Tenant!Max(own(n))
    <3>1. ASSUME NEW n \in Tenant!Names PROVE token(n) \in Nat
      <4>1. CASE own(n) # {}
        <5>1. own(n) \subseteq 1 .. m
          OBVIOUS
        <5> HIDE DEF own
        <5>2. IsFiniteSet(1 .. m) /\ 1 .. m \subseteq Nat
          BY <1>8, FS_Interval
        <5>3. IsFiniteSet(own(n)) /\ own(n) \subseteq Nat
          BY <5>1, <5>2, FS_Subset
        <5>4. Tenant!Max(own(n)) \in Nat
          BY <4>1, <5>3, GreatestOf
        <5> QED
          BY <1>3, <4>1, <5>4
      <4>2. CASE own(n) = {}
        BY <1>5, <4>2
      <4> QED
        BY <4>1, <4>2
    <3>2. x6' = [n \in Tenant!Names |-> token(n)]
      BY Zenon, <1>1
    <3> HIDE DEF token
    <3> QED
      BY <3>1, <3>2
  <2>2. pass' \in TenantPass
    <3>1. pass \in TenantPass
      BY Zenon DEF TenantsTyped
    <3>2. pass' \in {[pass EXCEPT !.at = "delete"], Tenant!Idle}
      BY Zenon, <1>1
    <3>3. [pass EXCEPT !.at = "delete"] \in TenantPass
      BY <3>1 DEF TenantPass
    <3>4. Tenant!Idle \in TenantPass
      BY DEF TenantPass, Tenant!Idle
    <3> QED
      BY Zenon, <3>2, <3>3, <3>4
  <2> HIDE DEF mine
  <2> QED
    BY <1>4, <1>10, <2>1, <2>2 DEF TenantsTyped, TenantPass, Account, Tenant!Names, Tenant!Accepted
<1>12. ReadListed'
  <2>1. pass \in TenantPass
    BY Zenon DEF TenantsTyped
  <2>2. pass' \in {[pass EXCEPT !.at = "delete"], Tenant!Idle}
    BY Zenon, <1>1
  <2>3. pass'.at \in {"delete", "idle"}
    BY <2>1, <2>2 DEF TenantPass, Tenant!Idle
  <2> QED
    BY <2>3 DEF ReadListed
<1> DEFINE k == Len(x5)
<1>13. IdsUnique'
  <2> SUFFICES ASSUME NEW i \in DOMAIN x5', NEW j \in DOMAIN x5', x5'[i].id = x5'[j].id
               PROVE  i = j
    BY DEF IdsUnique
  <2>1. ASSUME NEW h \in DOMAIN x5, NEW l \in 1 .. m PROVE x5[h].id # c[l].id
    <3>1. c[l].id = id + l - 1 /\ l \in Nat /\ 1 <= l
      BY <1>7, <1>8
    <3> QED
      BY <1>3, <3>1
  <2>2. CASE i \in DOMAIN x5 /\ x5'[i] = x5[i] /\ j \in DOMAIN x5 /\ x5'[j] = x5[j]
    BY <2>2 DEF IdsUnique
  <2>3. CASE i \in DOMAIN x5 /\ x5'[i] = x5[i] /\ j - k \in 1 .. m /\ x5'[j] = c[j - k]
    BY <2>1, <2>3
  <2>4. CASE j \in DOMAIN x5 /\ x5'[j] = x5[j] /\ i - k \in 1 .. m /\ x5'[i] = c[i - k]
    BY <2>1, <2>4
  <2>5. CASE i - k \in 1 .. m /\ x5'[i] = c[i - k] /\ j - k \in 1 .. m /\ x5'[j] = c[j - k]
    <3>1. id + (i - k) - 1 = id + (j - k) - 1
      BY <1>7, <2>5
    <3>2. i \in Int /\ j \in Int /\ k \in Int
      BY <1>5, <1>8, <1>10
    <3> HIDE DEF k
    <3> QED
      BY <1>3, <3>1, <3>2
  <2> QED
    BY <1>10, <2>2, <2>3, <2>4, <2>5
<1>14. ASSUME ReadListed PROVE Tenant!OneAccountPerUser
  <2> SUFFICES ASSUME NEW j \in k + 1 .. Len(x5'), NEW i \in DOMAIN x5, x5[i].state = "approved",
                      x5'[j].user = x5[i].user, x5[i].id \in pass.read
               PROVE  FALSE
    BY DEF Tenant!OneAccountPerUser, Tenant!InUse
  <2>1. j \in DOMAIN x5' /\ j \notin DOMAIN x5
    BY <1>5, <1>10
  <2>2. j - k \in 1 .. m /\ x5'[j] = c[j - k]
    BY <1>10, <2>1
  <2>3. x5[i].user \in Missing
    BY <1>6, <1>7, <2>2
  <2>4. x5[i].org = TenantName[x5[i].user]
    <3>1. x5[i] \in Account
      BY <1>5
    <3> QED
      BY <3>1 DEF Account
  <2>5. x5[i].org \in Tenant!ListedOrgs
    BY <1>4, <1>14 DEF ReadListed, Tenant!ListedOrgs
  <2> QED
    BY <2>3, <2>4, <2>5 DEF Missing
<1> QED
  BY <1>11, <1>12, <1>13, <1>14

\* A deletion ends the pass.
LEMMA DeleteAccounts ==
    ASSUME TenantsTyped, Tenant!DeleteTenants
    PROVE  TenantsTyped' /\ Same(x5, x5') /\ ReadListed'
<1>1. PICK C : x5' = [i \in DOMAIN x5 |-> IF i \in C THEN [x5[i] EXCEPT !.state = "scheduled"] ELSE x5[i]]
  <2> DEFINE ids == [i \in DOMAIN Tenant!getMTAccountsToBeDeleted |->
                       Tenant!getMTAccountsToBeDeleted[i].id]
             tried == Tenant!SelectSeq(ids, Tenant!Deletable)
  <2>1. PICK r \in 0 .. Len(tried) :
          x5' = [i \in DOMAIN x5 |->
                   IF r < Len(tried) /\ x5[i].id = tried[r + 1]
                   THEN [x5[i] EXCEPT !.state = "scheduled"] ELSE x5[i]]
    BY Zenon DEF Tenant!DeleteTenants
  <2> HIDE DEF tried
  <2> DEFINE C == {i \in DOMAIN x5 : r < Len(tried) /\ x5[i].id = tried[r + 1]}
  <2>2. x5' = [i \in DOMAIN x5 |-> IF i \in C THEN [x5[i] EXCEPT !.state = "scheduled"] ELSE x5[i]]
    BY <2>1
  <2> QED
    BY <2>2
<1>2. x5 \in Seq(Account)
  BY Zenon DEF TenantsTyped
<1>3. x5' \in Seq(Account) /\ Same(x5, x5')
  <2> DEFINE set(x) == [x EXCEPT !.state = "scheduled"]
  <2>1. \A i \in DOMAIN x5 : x5[i] \in Account
    BY <1>2
  <2>2. \A x \in Account : set(x) \in Account /\ set(x).id = x.id /\ set(x).org = x.org /\ set(x).state = "scheduled"
    BY DEF Account, States
  <2>3. x5' = [i \in DOMAIN x5 |-> x5'[i]] /\ \A i \in DOMAIN x5 : x5'[i] \in {x5[i], set(x5[i])}
    BY <1>1
  <2> HIDE DEF set
  <2>4. \A i \in DOMAIN x5 : x5'[i] = x5[i]
                              \/ (/\ x5'[i] \in Account /\ x5'[i].id = x5[i].id /\ x5'[i].org = x5[i].org
                                  /\ x5'[i].state \in {x5[i].state, "scheduled"})
    BY <2>1, <2>2, <2>3
  <2> QED
    BY <1>2, <2>3, <2>4, AccountsKept
<1>4. pass' = Tenant!Idle /\ UNCHANGED <<x1, x2, x3, x4, x6, x7, x8, x10>>
  BY DEF Tenant!DeleteTenants, Tenant!users, Tenant!sso
<1>5. pass' \in TenantPass /\ pass'.at = "idle"
  BY <1>4 DEF Tenant!Idle, TenantPass
<1>6. TenantsTyped'
  BY <1>3, <1>4, <1>5 DEF TenantsTyped, TenantPass, Account, Tenant!Names, Tenant!Accepted
<1>7. ReadListed'
  BY <1>5 DEF ReadListed
<1> QED
  BY <1>3, <1>6, <1>7

\* An account is removed from the accounts of 3scale: the later ones move up.
LEMMA Removed ==
    ASSUME NEW a \in Seq(Account), NEW i \in DOMAIN a
    PROVE  LET b == SubSeq(a, 1, i - 1) \o SubSeq(a, i + 1, Len(a)) IN
           /\ b \in Seq(Account) /\ DOMAIN b = 1 .. Len(a) - 1
           /\ \A j \in DOMAIN b : b[j] = a[IF j < i THEN j ELSE j + 1]
<1> DEFINE c == SubSeq(a, 1, i - 1)
           d == SubSeq(a, i + 1, Len(a))
           b == c \o d
           n == Len(a)
<1>1. n \in Nat /\ i \in 1 .. n /\ i - 1 \in 0 .. n
  OBVIOUS
<1>2. c \in Seq(Account) /\ Len(c) = i - 1 /\ \A j \in 1 .. i - 1 : c[j] = a[j]
  BY <1>1
<1>3. d \in Seq(Account) /\ Len(d) = n - i /\ \A j \in 1 .. n - i : d[j] = a[i + j]
  BY <1>1
<1> HIDE DEF c, d, n
<1>4. /\ b \in Seq(Account) /\ DOMAIN b = 1 .. Len(c) + Len(d)
      /\ \A j \in DOMAIN b : \/ j \in DOMAIN c /\ b[j] = c[j]
                             \/ j - Len(c) \in 1 .. Len(d) /\ b[j] = d[j - Len(c)]
  BY <1>2, <1>3, Joined
<1>5. DOMAIN b = 1 .. n - 1 /\ DOMAIN c = 1 .. i - 1
  <2>1. Len(c) + Len(d) = n - 1
    BY <1>1, <1>2, <1>3
  <2>2. DOMAIN c = 1 .. Len(c)
    BY <1>2
  <2> QED
    BY <1>2, <1>4, <2>1, <2>2
<1> HIDE DEF b
<1>6. ASSUME NEW j \in DOMAIN b PROVE b[j] = a[IF j < i THEN j ELSE j + 1]
  <2>1. CASE j \in DOMAIN c /\ b[j] = c[j]
    <3>1. j < i /\ c[j] = a[j]
      BY <1>1, <1>2, <1>5, <2>1
    <3> QED
      BY <2>1, <3>1
  <2>2. CASE j - Len(c) \in 1 .. Len(d) /\ b[j] = d[j - Len(c)]
    <3> DEFINE k == j - (i - 1)
    <3>1. k \in 1 .. n - i /\ j \in Int
      BY <1>1, <1>2, <1>3, <1>5, <2>2
    <3>2. b[j] = a[i + k]
      BY <1>2, <1>3, <2>2, <3>1
    <3>3. ~(j < i) /\ i + k = j + 1
      BY <1>1, <3>1
    <3> QED
      BY <3>2, <3>3
  <2> QED
    BY <1>4, <2>1, <2>2
<1> QED
  BY <1>4, <1>5, <1>6 DEF b, c, d, n

\* 3scale removes an account that was deleted.
LEMMA PurgeOne ==
    ASSUME TenantsTyped, NEW i \in DOMAIN x5, Tenant!PurgeAccount(i)
    PROVE  TenantsTyped' /\ pass' = pass /\ \E s : From(s)
<1>1. /\ x5' = SubSeq(x5, 1, i - 1) \o SubSeq(x5, i + 1, Len(x5))
      /\ pass' = pass /\ UNCHANGED <<x1, x2, x3, x4, x6, x7, x8, x10>>
  BY DEF Tenant!PurgeAccount, Tenant!users, Tenant!sso
<1>2. x5 \in Seq(Account) /\ pass \in TenantPass
  BY Zenon DEF TenantsTyped
<1>3. /\ x5' \in Seq(Account) /\ DOMAIN x5' = 1 .. Len(x5) - 1
      /\ \A j \in DOMAIN x5' : x5'[j] = x5[IF j < i THEN j ELSE j + 1]
  BY Zenon, <1>1, <1>2, Removed
<1>4. TenantsTyped'
  BY <1>1, <1>2, <1>3 DEF TenantsTyped, TenantPass, Account, Tenant!Names, Tenant!Accepted
<1> DEFINE s == [j \in DOMAIN x5' |-> IF j < i THEN j ELSE j + 1]
<1>5. DOMAIN x5 = 1 .. Len(x5) /\ Len(x5) \in Nat /\ i \in Nat
  BY <1>2
<1>6. s \in [DOMAIN x5' -> DOMAIN x5] /\ Len(x5') <= Len(x5)
  BY <1>3, <1>5
<1>7. \A j, k \in DOMAIN x5' : s[j] = s[k] => j = k
  BY <1>3, <1>5
<1>8. \A j \in DOMAIN x5' : x5'[j] = x5[s[j]]
  BY <1>3
<1>9. From(s)
  <2> HIDE DEF s
  <2> QED
    BY <1>6, <1>7, <1>8 DEF From
<1> HIDE DEF s
<1> QED
  BY <1>1, <1>4, <1>9

\* An account in use is broken.
LEMMA BreakOne ==
    ASSUME TenantsTyped, NEW i \in DOMAIN x5, Tenant!BreakAccount(i)
    PROVE  TenantsTyped' /\ pass' = pass /\ \E s : From(s)
<1>1. /\ x5' = [x5 EXCEPT ![i].state = "broken"]
      /\ pass' = pass /\ UNCHANGED <<x1, x2, x3, x4, x6, x7, x8, x10>>
  BY DEF Tenant!BreakAccount, Tenant!users, Tenant!sso
<1>2. x5 \in Seq(Account) /\ pass \in TenantPass
  BY Zenon DEF TenantsTyped
<1>3. x5 \in [1 .. Len(x5) -> Account] /\ Len(x5) \in Nat /\ DOMAIN x5 = 1 .. Len(x5)
  BY <1>2
<1> DEFINE a == [x5[i] EXCEPT !.state = "broken"]
<1>4. a \in Account /\ a.state = "broken" /\ a.id = x5[i].id /\ a.org = x5[i].org
  <2>1. x5[i] \in Account
    BY <1>3
  <2> QED
    BY <2>1 DEF Account, States
<1>5. /\ x5' \in [1 .. Len(x5) -> Account] /\ x5'[i] = a
      /\ \A j \in 1 .. Len(x5) : j # i => x5'[j] = x5[j]
  BY <1>1, <1>3, <1>4
<1> HIDE DEF a
<1>6. x5' \in Seq(Account) /\ DOMAIN x5' = DOMAIN x5 /\ Len(x5') = Len(x5)
  BY <1>3, <1>5
<1>7. TenantsTyped'
  BY <1>1, <1>2, <1>6 DEF TenantsTyped, TenantPass, Account, Tenant!Names, Tenant!Accepted
<1>8. From([j \in DOMAIN x5 |-> j])
  BY <1>3, <1>4, <1>5, <1>6 DEF From
<1> QED
  BY <1>1, <1>7, <1>8

--------------------------------------------------------------------------------
(* The tenants: x4 is the status of the resources. *)

\* The status (x4) of every resource is typed, and the theorem holds.
StatusInv ==
    /\ x4 \in [Tenants -> {"absent", "", "wont provision"} \union Tenant!Accepted]
    /\ Tenant!OneTenantPerUser

\* At first no tenant is provisioned.
LEMMA InitOne == Tenant!Init => StatusInv
<1> SUFFICES ASSUME Tenant!Init PROVE StatusInv
  OBVIOUS
<1>1. x4 \in [Tenants -> {"absent", "", "wont provision"} \union Tenant!Accepted]
  BY DEF Tenant!Init
<1>2. \A t \in Tenants : x4[t] \notin Tenant!Accepted
  BY DEF Tenant!Init, Tenant!Accepted
<1> QED
  BY Zenon, <1>1, <1>2 DEF StatusInv, Tenant!OneTenantPerUser

\* A tenant is accepted only where no other of its user is, or was accepted before.
LEMMA ReconcileOne ==
    ASSUME StatusInv, NEW t \in Tenants, Tenant!ReconcileTenant(t)
    PROVE  StatusInv'
<1>1. CASE ~Tenant!verifyAPIManagementTenant(t)
  <2>1. x4' = [x4 EXCEPT ![t] = "wont provision"]
    BY <1>1 DEF Tenant!ReconcileTenant
  <2>2. x4' \in [Tenants -> {"absent", "", "wont provision"} \union Tenant!Accepted]
    BY <2>1 DEF StatusInv
  <2>3. \A o \in Tenants : x4'[o] \in Tenant!Accepted => x4[o] \in Tenant!Accepted
    BY <2>1 DEF StatusInv, Tenant!Accepted
  <2> QED
    BY Zenon, <2>2, <2>3 DEF StatusInv, Tenant!OneTenantPerUser, Tenant!Accepted
<1>2. CASE Tenant!verifyAPIManagementTenant(t)
  <2>1. \/ x4' = x4
        \/ \E v \in {"accepted", "ready", x4[t]} : x4' = [x4 EXCEPT ![t] = v]
    BY <1>2 DEF Tenant!ReconcileTenant, Tenant!reconcileTenantUrl
  <2>2. x4' \in [Tenants -> {"absent", "", "wont provision"} \union Tenant!Accepted]
    BY <2>1 DEF StatusInv, Tenant!Accepted
  <2>3. \A o \in Tenants : o # t => x4'[o] = x4[o]
    BY <2>1 DEF StatusInv
  <2>4. ASSUME NEW o \in Tenants, o # t, Tenant!UserOf(t) = Tenant!UserOf(o), x4[o] \in Tenant!Accepted,
               t[1] \in Tenant!namespacesToCheck(Tenant!UserOf(t)),
               o[1] \in Tenant!namespacesToCheck(Tenant!UserOf(t))
        PROVE  FALSE
    <3>1. CASE x4[t] \in Tenant!Accepted
      BY Zenon, <2>4, <3>1 DEF StatusInv, Tenant!OneTenantPerUser
    <3>2. CASE Tenant!NoneAccepted(Tenant!UserOf(t))
      BY Zenon, <2>4, <3>2 DEF Tenant!NoneAccepted
    <3> QED
      BY Zenon, <1>2, <3>1, <3>2 DEF Tenant!verifyAPIManagementTenant
  <2>5. Tenant!OneTenantPerUser'
    <3> SUFFICES ASSUME NEW r \in Tenants, NEW o \in Tenants, Tenant!UserOf(r) = Tenant!UserOf(o),
                        {r[1], o[1]} \subseteq Tenant!namespacesToCheck(Tenant!UserOf(r)),
                        x4'[r] \in Tenant!Accepted, x4'[o] \in Tenant!Accepted, r # o
                 PROVE  FALSE
      BY Zenon DEF Tenant!OneTenantPerUser, Tenant!Accepted
    <3>1. /\ r[1] \in Tenant!namespacesToCheck(Tenant!UserOf(r))
          /\ o[1] \in Tenant!namespacesToCheck(Tenant!UserOf(r))
      OBVIOUS
    <3>2. CASE r = t
      BY Zenon, <2>3, <2>4, <3>1, <3>2
    <3>3. CASE o = t
      BY Zenon, <2>3, <2>4, <3>1, <3>3
    <3>4. CASE r # t /\ o # t
      BY Zenon, <2>3, <3>4 DEF StatusInv, Tenant!OneTenantPerUser
    <3> QED
      BY Zenon, <3>2, <3>3, <3>4
  <2> QED
    BY <2>2, <2>5 DEF StatusInv
<1> QED
  BY <1>1, <1>2

\* Resources appear without a status, and disappear.
LEMMA ResourceOne ==
    ASSUME StatusInv, NEW S \in SUBSET Tenants, NEW v \in {"", "absent"},
           x4' = [t \in Tenants |-> IF t \in S THEN v ELSE x4[t]]
    PROVE  StatusInv'
<1>1. x4' \in [Tenants -> {"absent", "", "wont provision"} \union Tenant!Accepted]
  BY DEF StatusInv
<1>2. \A o \in Tenants : x4'[o] \in Tenant!Accepted => x4[o] \in Tenant!Accepted
  BY DEF StatusInv, Tenant!Accepted
<1> QED
  BY Zenon, <1>1, <1>2 DEF StatusInv, Tenant!OneTenantPerUser, Tenant!Accepted

\* Every step of the specification preserves the invariant.
LEMMA NextOne == StatusInv /\ [Tenant!Next]_(Tenant!vars) => StatusInv'
<1> SUFFICES ASSUME StatusInv, [Tenant!Next]_(Tenant!vars) PROVE StatusInv'
  OBVIOUS
<1>1. CASE UNCHANGED x4
  BY <1>1 DEF StatusInv, Tenant!OneTenantPerUser, Tenant!Accepted
<1>2. ASSUME NEW t \in Tenants, Tenant!CreateTenantResource(t) PROVE StatusInv'
  <2>1. x4' = [o \in Tenants |-> IF o \in {t} THEN "" ELSE x4[o]]
    BY <1>2 DEF Tenant!CreateTenantResource, StatusInv
  <2> QED
    BY <2>1, ResourceOne
<1>3. ASSUME NEW t \in Tenants, Tenant!DeleteTenantResource(t) PROVE StatusInv'
  <2>1. x4' = [o \in Tenants |-> IF o \in {t} THEN "absent" ELSE x4[o]]
    BY <1>3 DEF Tenant!DeleteTenantResource, StatusInv
  <2> QED
    BY <2>1, ResourceOne
<1>4. ASSUME NEW u \in Users, Tenant!DeleteUser(u) PROVE StatusInv'
  <2>1. CASE x4' = [t \in Tenants |-> IF Tenant!UserOf(t) = u THEN "absent" ELSE x4[t]]
    <3> DEFINE S == {t \in Tenants : Tenant!UserOf(t) = u}
    <3>1. x4' = [t \in Tenants |-> IF t \in S THEN "absent" ELSE x4[t]]
      BY <2>1
    <3>2. S \in SUBSET Tenants
      OBVIOUS
    <3> HIDE DEF S
    <3> QED
      BY <3>1, <3>2, ResourceOne
  <2> QED
    BY <1>1, <1>4, <2>1 DEF Tenant!DeleteUser
<1> QED
  BY <1>1, <1>2, <1>3, <1>4, ReconcileOne
  DEF Tenant!Next, Tenant!addAnnotationToUser, Tenant!reconcileTenantOauthSecrets,
      Tenant!ListTenantAccounts, Tenant!reconcileAccounts, Tenant!createTenants,
      Tenant!DeleteTenants, Tenant!CreateUser, Tenant!BreakAccount, Tenant!Purge,
      Tenant!PurgeAccount, Tenant!SyncKeycloak, Tenant!vars, Tenant!users

--------------------------------------------------------------------------------
(* The steps together. *)

\* The inductive invariant.
TenantsInv == TenantsTyped /\ StatusInv /\ IdsUnique /\ ReadListed

\* At first there are no accounts.
LEMMA InitTenants == Tenant!Init => TenantsInv
<1> SUFFICES ASSUME Tenant!Init PROVE TenantsInv
  OBVIOUS
<1>1. /\ x5 = <<>> /\ x6 = [n \in Tenant!Names |-> 0] /\ pass = Tenant!Idle
      /\ x1 \subseteq Users /\ x2 = {} /\ x3 = {} /\ x7 = {} /\ x8 = {} /\ x10 = {}
  BY TenantsAssumption DEF Tenant!Init
<1>2. pass \in TenantPass /\ pass.at = "idle"
  BY <1>1 DEF Tenant!Idle, TenantPass
<1>3. StatusInv
  BY InitOne
<1>4. TenantsTyped
  <2>1. x5 \in Seq(Account) /\ x6 \in [Tenant!Names -> Nat]
    BY <1>1
  <2> QED
    BY <1>1, <1>2, <1>3, <2>1 DEF TenantsTyped, StatusInv
<1>5. IdsUnique /\ ReadListed
  BY <1>1, <1>2 DEF IdsUnique, ReadListed
<1> QED
  BY <1>3, <1>4, <1>5 DEF TenantsInv

\* A step that makes no account gives none to a user that has one.
LEMMA NoneMade ==
    ASSUME Len(x5) \in Nat, Len(x5') \in Nat, Len(x5') <= Len(x5)
    PROVE  Tenant!OneAccountPerUser
<1>1. Len(x5) + 1 .. Len(x5') = {}
  OBVIOUS
<1> QED
  BY <1>1 DEF Tenant!OneAccountPerUser

\* A step that only moves, changes or removes accounts.
LEMMA AccountsMoved ==
    ASSUME TenantsInv, StatusInv', TenantsTyped', NEW s, From(s), ReadListed' \/ pass' = pass
    PROVE  TenantsInv' /\ Tenant!OneAccountPerUser
<1>1. IdsUnique'
  BY FewerIds DEF TenantsInv
<1>2. ReadListed'
  BY FewerListed DEF TenantsInv
<1>3. x5 \in Seq(Account) /\ x5' \in Seq(Account)
  BY Zenon DEF TenantsInv, TenantsTyped
<1>4. Len(x5) \in Nat /\ Len(x5') \in Nat /\ Len(x5') <= Len(x5)
  BY <1>3 DEF From
<1> QED
  BY <1>1, <1>2, <1>4, NoneMade DEF TenantsInv

\* A step of the tenant controller, of the cluster or of rhsso leaves the accounts alone.
LEMMA OtherSteps ==
    ASSUME TenantsInv, StatusInv', UNCHANGED <<x5, x6, x7, x8, pass>>,
           x10' = x10, x1' \subseteq Users, x2' \subseteq x1', x3' \subseteq x1'
    PROVE  TenantsInv' /\ Tenant!OneAccountPerUser
<1>1. TenantsTyped
  BY DEF TenantsInv
<1>2. TenantsTyped'
  <2>1. /\ x5' \in Seq(Account) /\ x6' \in [Tenant!Names -> Nat] /\ pass' \in TenantPass
        /\ x7' \subseteq Tenant!Names /\ x8' \subseteq Tenant!Names /\ x10' \subseteq Tenant!Names
    BY <1>1 DEF TenantsTyped
  <2>2. x4' \in [Tenants -> {"absent", "", "wont provision"} \union Tenant!Accepted]
    BY DEF StatusInv, Tenant!Accepted
  <2> QED
    BY <2>1, <2>2 DEF TenantsTyped, TenantPass, Account, Tenant!Names, Tenant!Accepted
<1>3. From([i \in DOMAIN x5 |-> i])
  <2>1. x5 \in Seq(Account)
    BY Zenon, <1>1 DEF TenantsTyped
  <2>2. Same(x5, x5')
    BY DEF Same
  <2> QED
    BY <2>1, <2>2, SameFrom
<1> QED
  BY <1>2, <1>3, AccountsMoved

\* The secrets of the tenants are reconciled, and the pass begins.
LEMMA SecretsStep ==
    ASSUME TenantsTyped, Tenant!reconcileTenantOauthSecrets
    PROVE  TenantsTyped' /\ x5' = x5 /\ ReadListed'
<1>1. /\ x8' = {TenantName[u] : u \in x2} /\ pass' = [Tenant!Idle EXCEPT !.at = "list"]
      /\ UNCHANGED <<x1, x2, x3, x4, x5, x6, x7, x10>>
  BY DEF Tenant!reconcileTenantOauthSecrets, Tenant!GetMultiTenantUsers, Tenant!users,
         Tenant!threeScale
<1>2. x8' \subseteq Tenant!Names
  <2>1. x2 \subseteq Users
    BY Zenon DEF TenantsTyped
  <2> QED
    BY <1>1, <2>1 DEF Tenant!Names
<1>3. pass' \in TenantPass /\ pass'.at = "list"
  <2>1. pass' = [at |-> "list", users |-> {}, list |-> <<>>, read |-> {}]
    BY <1>1 DEF Tenant!Idle
  <2>2. <<>> \in Seq(Account)
    OBVIOUS
  <2> QED
    BY <2>1, <2>2 DEF TenantPass
<1>4. TenantsTyped'
  BY <1>1, <1>2, <1>3 DEF TenantsTyped, TenantPass, Account, Tenant!Names, Tenant!Accepted
<1> QED
  BY <1>1, <1>3, <1>4 DEF ReadListed

\* Every step keeps the invariant, and makes no second account of a user.
LEMMA NextTenants ==
    ASSUME TenantsInv, [Tenant!Next]_(Tenant!vars)
    PROVE  TenantsInv' /\ Tenant!OneAccountPerUser
<1> DEFINE Kept == TenantsInv' /\ Tenant!OneAccountPerUser
<1>1. TenantsTyped /\ StatusInv /\ StatusInv' /\ IdsUnique /\ ReadListed
  BY NextOne DEF TenantsInv
<1>2. x1 \subseteq Users /\ x2 \subseteq x1 /\ x3 \subseteq x1
  BY Zenon, <1>1 DEF TenantsTyped
<1>3. CASE UNCHANGED (Tenant!vars)
  BY <1>1, <1>2, <1>3, OtherSteps
  DEF Tenant!vars, Tenant!users, Tenant!threeScale, Tenant!sso
<1>4. ASSUME NEW t \in Tenants, Tenant!ReconcileTenant(t) \/ Tenant!addAnnotationToUser(t)
      PROVE  Kept
  <2>1. x2' = x2 \/ (x2' = x2 \union {Tenant!UserOf(t)} /\ Tenant!UserOf(t) \in x1)
    BY <1>4 DEF Tenant!ReconcileTenant, Tenant!addAnnotationToUser,
                Tenant!verifyAPIManagementTenant, Tenant!Accepted
  <2>2. UNCHANGED <<x1, x3, x5, x6, x7, x8, x10, pass>>
    BY <1>4 DEF Tenant!ReconcileTenant, Tenant!addAnnotationToUser, Tenant!threeScale, Tenant!sso
  <2> QED
    BY <1>1, <1>2, <2>1, <2>2, OtherSteps
<1>5. ASSUME NEW t \in Tenants, Tenant!CreateTenantResource(t) \/ Tenant!DeleteTenantResource(t)
      PROVE  Kept
  <2>1. UNCHANGED <<x1, x2, x3, x5, x6, x7, x8, x10, pass>>
    BY <1>5 DEF Tenant!CreateTenantResource, Tenant!DeleteTenantResource, Tenant!users,
                Tenant!threeScale, Tenant!sso
  <2> QED
    BY <1>1, <1>2, <2>1, OtherSteps
<1>6. ASSUME NEW u \in Users, Tenant!CreateUser(u) \/ Tenant!DeleteUser(u) PROVE Kept
  <2>1. /\ UNCHANGED <<x5, x6, x7, x8, x10, pass>>
        /\ \/ x1' = x1 \union {u} /\ x2' = x2 /\ x3' = x3
           \/ x1' = x1 \ {u} /\ x2' = x2 \ {u} /\ x3' = x3 \ {u}
    BY <1>6 DEF Tenant!CreateUser, Tenant!DeleteUser, Tenant!threeScale, Tenant!sso
  <2>2. x1' \subseteq Users /\ x2' \subseteq x1' /\ x3' \subseteq x1'
    BY <1>2, <2>1
  <2> QED
    BY <1>1, <2>1, <2>2, OtherSteps
<1>7. CASE Tenant!SyncKeycloak
  <2>1. UNCHANGED <<x1, x2, x3, x5, x6, x7, x8, x10, pass>>
    BY <1>7 DEF Tenant!SyncKeycloak, Tenant!users, Tenant!threeScale
  <2> QED
    BY <1>1, <1>2, <2>1, OtherSteps
<1>8. ASSUME Same(x5, x5'), TenantsTyped', ReadListed' PROVE Kept
  <2>1. x5 \in Seq(Account) /\ x5' \in Seq(Account)
    BY Zenon, <1>1, <1>8 DEF TenantsTyped
  <2>2. From([i \in DOMAIN x5 |-> i])
    BY <1>8, <2>1, SameFrom
  <2> QED
    BY <1>1, <1>8, <2>2, AccountsMoved
<1>9. CASE Tenant!reconcileTenantOauthSecrets \/ Tenant!ListTenantAccounts
  <2>1. TenantsTyped' /\ x5' = x5 /\ ReadListed'
    BY <1>1, <1>9, SecretsStep, ListAccounts
  <2>2. Same(x5, x5')
    BY <2>1 DEF Same
  <2> QED
    BY <1>8, <2>1, <2>2
<1>10. CASE Tenant!reconcileAccounts
  BY <1>1, <1>8, <1>10, ReconcileAccounts
<1>11. CASE Tenant!createTenants
  BY <1>1, <1>11, CreateAccounts DEF TenantsInv
<1>12. CASE Tenant!DeleteTenants
  BY <1>1, <1>8, <1>12, DeleteAccounts
<1>13. ASSUME NEW i \in DOMAIN x5, Tenant!BreakAccount(i) \/ Tenant!PurgeAccount(i) PROVE Kept
  <2>1. TenantsTyped' /\ pass' = pass /\ \E s : From(s)
    BY <1>1, <1>13, BreakOne, PurgeOne
  <2>2. PICK s : From(s)
    BY <2>1
  <2> QED
    BY <1>1, <2>1, <2>2, AccountsMoved
<1> QED
  BY <1>3, <1>4, <1>5, <1>6, <1>7, <1>9, <1>10, <1>11, <1>12, <1>13
  DEF Tenant!Next, Tenant!Purge

\* The invariant has the types of the specification.
LEMMA TenantsAreTyped == TenantsInv => Tenant!TypeOK
<1> SUFFICES ASSUME TenantsInv PROVE Tenant!TypeOK
  OBVIOUS
<1>1. TenantsTyped
  BY DEF TenantsInv
<1>2. \A i \in DOMAIN x5 : /\ x5[i].user \in Users /\ x5[i].org = TenantName[x5[i].user]
                           /\ x5[i].state \in {"approved", "broken", "scheduled"}
  <2>1. x5 \in Seq(Account)
    BY Zenon, <1>1 DEF TenantsTyped
  <2>2. \A i \in DOMAIN x5 : x5[i] \in Account
    BY <2>1
  <2> QED
    BY <2>2 DEF Account, States
<1>3. pass.at \in {"idle", "list", "accounts", "create", "delete"}
  BY <1>1, ReadTyped
<1> QED
  BY <1>1, <1>2, <1>3 DEF TenantsTyped, Tenant!TypeOK
====
