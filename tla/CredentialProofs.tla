-------------------------- MODULE CredentialProofs --------------------------
(* Theorems about the components that keep credentials in a file: of         *)
(* AntigravityPool, that a request is sent again only while nothing of an    *)
(* answer was shown, and never with a token that it saw refused, for any     *)
(* number of accounts, tasks, tokens and periods; of GeminiWeb, that cookies *)
(* stay with the identity they were imported with, which is rotated once in  *)
(* a period, for any number of processes, imports, days and tokens; of       *)
(* WorkBuddyPool, that in one process an update of the file is one step, and *)
(* that tokens are replaced by those made out of them or by a login's, for   *)
(* any number of accounts, tasks, tokens and periods.                        *)
EXTENDS AntigravityPool, FiniteSetTheorems, SequenceTheorems, TLAPS

CONSTANTS Processes, MaxImports, MaxDay, MaxTokens, GeminiStarts,
          PoolProcesses, maxAttempts, WorkBuddyInstances

VARIABLES credentials, gwLock, client, gwTask, issued, day, imports, gwStarts, rotations

geminiVars == <<credentials, gwLock, client, gwTask, issued, day, imports, gwStarts, rotations>>

Gemini == INSTANCE GeminiWeb WITH
  MaxStarts <- GeminiStarts, store <- credentials, lock <- gwLock, task <- gwTask,
  google <- issued, starts <- gwStarts

VARIABLES wbInst, accounts, chain, flights, wbTask, upstream, wbNow, wbStarts

workbuddyVars == <<wbInst, accounts, chain, flights, wbTask, upstream, wbNow, wbStarts>>

Pool == INSTANCE WorkBuddyPool WITH
  Processes <- PoolProcesses, Instances <- WorkBuddyInstances, inst <- wbInst, task <- wbTask,
  now <- wbNow, starts <- wbStarts

-----------------------------------------------------------------------------
(* Stores.                                                                   *)

\* An account is linked, or what is known of it changes.
LEMMA AccountSet ==
    ASSUME AntigravityAssumption, NEW n \in Nat, NEW s, Sane(s, n),
           NEW a \in Accounts, NEW v \in StoredAccount, v.access \in 0 .. n,
           NEW z, z = [s EXCEPT !.accounts[a] = v]
    PROVE  /\ Sane(z, n) /\ z.accounts[a] = v /\ z.active = s.active /\ z.rotate = s.rotate
           /\ Linked(z) = Linked(s) \cup {a} /\ (ActiveLinked(s) => ActiveLinked(z))
           /\ \A b \in Accounts : b # a => z.accounts[b] = s.accounts[b]
<1> DEFINE f == [s.accounts EXCEPT ![a] = v]
<1>1. s \in Store /\ v # None
  BY DEF Sane, AntigravityAssumption
<1>2. /\ f \in [Accounts -> StoredAccount \cup {None}] /\ f[a] = v
      /\ \A b \in Accounts : b # a => f[b] = s.accounts[b]
  BY <1>1 DEF Store
<1>3. z = [s EXCEPT !.accounts = f]
  OBVIOUS
<1> HIDE DEF f
<1>4. z \in Store /\ z.accounts = f /\ z.active = s.active /\ z.rotate = s.rotate
  BY <1>1, <1>2, <1>3 DEF Store
<1>5. Linked(z) = Linked(s) \cup {a}
  BY <1>1, <1>2, <1>4 DEF Linked
<1>6. \A b \in Linked(z) : z.accounts[b].access \in 0 .. n
  BY <1>2, <1>4, <1>5 DEF Sane, Linked
<1> QED
  BY <1>2, <1>4, <1>5, <1>6 DEF Sane, ActiveLinked

\* What is linked is known.
LEMMA LinkedKnown ==
    ASSUME NEW n, NEW s, Sane(s, n), NEW a \in Linked(s)
    PROVE  a \in Accounts /\ s.accounts[a] \in StoredAccount /\ s.accounts[a].access \in 0 .. n
BY DEF Sane, Store, Linked

\* The token of a linked account changes.
LEMMA TokenSet ==
    ASSUME AntigravityAssumption, NEW n \in Nat, NEW s, Sane(s, n),
           NEW a \in Linked(s), NEW token \in 0 .. n,
           NEW z, z = [s EXCEPT !.accounts[a].access = token]
    PROVE  /\ Sane(z, n) /\ z.active = s.active /\ z.rotate = s.rotate
           /\ Linked(z) = Linked(s) /\ (ActiveLinked(s) => ActiveLinked(z))
<1> DEFINE v == [s.accounts[a] EXCEPT !.access = token]
<1>1. a \in Accounts /\ v \in StoredAccount /\ v.access = token
  BY LinkedKnown DEF StoredAccount
<1>2. z = [s EXCEPT !.accounts[a] = v]
  OBVIOUS
<1> HIDE DEF v
<1>3. /\ Sane(z, n) /\ z.active = s.active /\ z.rotate = s.rotate
      /\ Linked(z) = Linked(s) \cup {a} /\ (ActiveLinked(s) => ActiveLinked(z))
  BY <1>1, <1>2, AccountSet
<1> QED
  BY <1>3

LEMMA CredentialsKnown ==
    ASSUME NEW n \in Nat, NEW token \in 0 .. n, NEW existing \in StoredAccount \cup {None},
           existing # None => existing.access \in 0 .. n
    PROVE  /\ FromCredentials(token, existing) \in StoredAccount
           /\ FromCredentials(token, existing).access \in 0 .. n
BY DEF FromCredentials, Later, StoredAccount

\* The account of auth.json is linked.
LEMMA CredentialsSet ==
    ASSUME AntigravityAssumption, NEW n \in Nat, NEW s, Sane(s, n), NEW a \in Accounts,
           NEW token \in 0 .. n,
           NEW z, z = [s EXCEPT !.accounts[a] = FromCredentials(token, s.accounts[a])]
    PROVE  /\ Sane(z, n) /\ z.active = s.active /\ z.rotate = s.rotate
           /\ Linked(z) = Linked(s) \cup {a} /\ (ActiveLinked(s) => ActiveLinked(z))
<1> DEFINE v == FromCredentials(token, s.accounts[a])
<1>1. /\ s.accounts[a] \in StoredAccount \cup {None}
      /\ s.accounts[a] # None => s.accounts[a].access \in 0 .. n
  BY DEF Sane, Store, Linked
<1>2. v \in StoredAccount /\ v.access \in 0 .. n
  BY <1>1, CredentialsKnown
<1> HIDE DEF v
<1>3. z = [s EXCEPT !.accounts[a] = v]
  BY DEF v
<1> QED
  BY <1>2, <1>3, AccountSet

LEMMA SyncSane ==
    ASSUME AntigravityAssumption, NEW n \in Nat, NEW s, Sane(s, n), ActiveLinked(s),
           auth # None => auth \in [account: Accounts, access: Nat] /\ auth.access \in 0 .. n
    PROVE  /\ Sane(Sync(s), n) /\ ActiveLinked(Sync(s))
           /\ auth # None => Sync(s).active # None
<1>1. CASE auth = None
  BY <1>1 DEF Sync
<1>2. CASE auth # None
  <2> DEFINE a == auth.account
             w == FromCredentials(auth.access, s.accounts[a])
             y == [s EXCEPT !.accounts[a] = w]
             m == IF s.active = None THEN a ELSE s.active
  <2>1. a \in Accounts /\ auth.access \in 0 .. n /\ a # None
    BY <1>2 DEF AntigravityAssumption
  <2>2. /\ Sane(y, n) /\ y.active = s.active /\ Linked(y) = Linked(s) \cup {a}
    BY <2>1, CredentialsSet
  <2>3. s \in Store
    BY DEF Sane
  <2>4. Sync(s) = [y EXCEPT !.active = m]
    BY <1>2, <2>3 DEF Sync, Store
  <2>5. m \in Linked(y) /\ m \in Accounts /\ m # None
    BY <2>1, <2>2, <2>3 DEF ActiveLinked, Store
  <2> HIDE DEF y, m, a, w
  <2>6. /\ Sync(s) \in Store /\ Sync(s).active = m /\ Sync(s).accounts = y.accounts
    BY <2>2, <2>4, <2>5 DEF Store, Sane
  <2>7. Linked(Sync(s)) = Linked(y)
    BY <2>6 DEF Linked
  <2> QED
    BY <2>2, <2>5, <2>6, <2>7 DEF Sane, ActiveLinked
<1> QED
  BY <1>1, <1>2

LEMMA MarkedSane ==
    ASSUME AntigravityAssumption, NEW n \in Nat, Sane(store, n), ActiveLinked(store),
           NEW token, NEW mark,
           \A a \in Linked(store) : mark[a] \in StoredAccount /\ mark[a].access \in 0 .. n,
           NEW z \in Marked(token, mark)
    PROVE  Sane(z, n) /\ ActiveLinked(z)
<1>1. CASE z = store
  BY <1>1
<1>2. CASE \E a \in Linked(store) : z = [store EXCEPT !.accounts[a] = mark[a]]
  <2> PICK a \in Linked(store) : z = [store EXCEPT !.accounts[a] = mark[a]]
    BY <1>2
  <2>1. a \in Accounts
    BY LinkedKnown
  <2> QED
    BY <2>1, AccountSet
<1>3. z = store \/ \E a \in Linked(store) : z = [store EXCEPT !.accounts[a] = mark[a]]
  BY DEF Marked
<1> QED
  BY <1>1, <1>2, <1>3

-----------------------------------------------------------------------------
(* The accounts that are gone through.                                       *)

LEMMA OrdersOfPool ==
    ASSUME AntigravityAssumption, NEW s, NEW pool \in SUBSET Accounts, NEW q \in Orders(s, pool)
    PROVE  q \in Seq(Accounts) /\ \A i \in DOMAIN q : q[i] \in pool
<1>1. IsFiniteSet(pool) /\ Cardinality(pool) \in Nat
  BY FS_Subset, FS_CardinalityType DEF AntigravityAssumption
<1>2. q \in [1 .. Cardinality(pool) -> pool]
  BY DEF Orders
<1> QED
  BY <1>1, <1>2

LEMMA AcquireLinked ==
    ASSUME NEW s, ActiveLinked(s), s.active # None
    PROVE  AcquirePool(s) \subseteq Linked(s)
BY DEF AcquirePool, Fallback, ActiveLinked

LEMMA FailoverUntried ==
    ASSUME NEW s, NEW tried
    PROVE  FailoverPool(s, tried) \subseteq {a \in Linked(s) : s.accounts[a].access \notin tried}
BY DEF FailoverPool, Fallback

-----------------------------------------------------------------------------
(* Tasks.                                                                    *)

\* Minting more tokens disturbs nobody.
LEMMA FitsMore ==
    ASSUME NEW n \in Nat, NEW m \in Nat, n <= m
    PROVE  /\ \A r : Fits(r, n) => Fits(r, m)
           /\ \A s : Sane(s, n) => Sane(s, m)
           /\ 0 .. n \subseteq 0 .. m
<1>1. 0 .. n \subseteq 0 .. m
  OBVIOUS
<1>2. \A s : Sane(s, n) => Sane(s, m)
  BY <1>1 DEF Sane
<1>3. \A r : Going(r, n) => Going(r, m)
  BY <1>1, <1>2 DEF Going
<1>4. \A r : Asking(r, n) => Asking(r, m)
  BY <1>1 DEF Asking
<1> QED
  BY <1>1, <1>2, <1>3, <1>4 DEF Fits

\* A task goes through the accounts of a pool of a store that it has loaded.
LEMMA ChoosingFits ==
    ASSUME AntigravityAssumption, NEW n \in Nat, NEW t, NEW r \in Task, NEW s, NEW pool,
           Sane(s, n), r.job # "remove" => ActiveLinked(s),
           pool \subseteq Linked(s), Choosing(t, r, s, pool),
           r.job = "acquire" =>
              r.tried = {} /\ r.refused = {} /\ ~r.emitted /\ r.token \in 0 .. n,
           r.job = "failover" =>
              /\ r.refused \subseteq r.tried /\ r.tried \subseteq 0 .. n /\ ~r.emitted
              /\ \A a \in pool : s.accounts[a].access \notin r.tried
    PROVE  \E x : Goes(t, x) /\ Fits(x, n)
<1>1. PICK q \in Orders(s, pool) : Goes(t, [r EXCEPT !.pc = "choose", !.loaded = s, !.left = q])
  BY DEF Choosing
<1>2. pool \subseteq Accounts
  BY LinkedKnown
<1>3. q \in Seq(Accounts) /\ \A i \in DOMAIN q : q[i] \in pool
  BY <1>2, OrdersOfPool
<1> DEFINE x == [r EXCEPT !.pc = "choose", !.loaded = s, !.left = q]
<1>4. /\ x \in Task /\ x.pc = "choose" /\ x.loaded = s /\ x.left = q /\ x.job = r.job
      /\ x.tried = r.tried /\ x.refused = r.refused /\ x.emitted = r.emitted
      /\ x.token = r.token
  BY <1>3 DEF Task, Sane
<1> HIDE DEF x
<1>5. Going(x, n)
  BY <1>3, <1>4 DEF Going
<1>6. Fits(x, n)
  BY <1>4, <1>5 DEF Fits
<1> QED
  BY <1>1, <1>6 DEF x

-----------------------------------------------------------------------------
(* Every step keeps the invariant.                                           *)

LEMMA Before ==
    ASSUME AntigravityInv
    PROVE  /\ inst \in Instances /\ task \in [Tasks -> Task]
           /\ auth # None => auth \in [account: Accounts, access: Nat] /\ auth.access \in 0 .. Minted
           /\ google.owner \in Seq(Accounts) /\ google.expired \subseteq Nat
           /\ now \in Nat /\ starts \in Nat /\ Minted \in Nat
           /\ store \in Store /\ Sane(store, Minted) /\ ActiveLinked(store)
           /\ \A t \in Tasks : Fits(task[t], Minted)
BY DEF AntigravityInv, TypeOK, Minted

\* Minting adds a token that nobody has.
LEMMA MintGrows ==
    ASSUME AntigravityInv, NEW a \in Accounts, Mint(a)
    PROVE  /\ Minted' = Minted + 1 /\ google'.owner \in Seq(Accounts)
           /\ google'.expired \subseteq Nat
<1>1. google' = [google EXCEPT !.owner = Append(@, a)]
  BY DEF Mint
<1>2. google'.owner = Append(google.owner, a) /\ google'.expired = google.expired
  BY <1>1, Before DEF AntigravityInv, TypeOK
<1> QED
  BY <1>2, Before DEF Minted

\* What a step is shown to do.
LEMMA StepKeeps ==
    ASSUME AntigravityInv,
           \/ UNCHANGED task
           \/ \E t \in Tasks : \E x : Goes(t, x) /\ Fits(x, Minted'),
           Minted' \in Nat, Minted <= Minted', inst' = inst,
           google'.owner \in Seq(Accounts), google'.expired \subseteq Nat,
           now' \in Nat, starts' \in Nat,
           auth' # None => auth' \in [account: Accounts, access: Nat]
                           /\ auth'.access \in 0 .. Minted',
           Sane(store', Minted'), ActiveLinked(store')
    PROVE  AntigravityInv'
<1>1. \A t \in Tasks : Fits(task[t], Minted')
  BY Before, FitsMore
<1>2. task' \in [Tasks -> Task] /\ \A t \in Tasks : Fits(task'[t], Minted')
  <2>1. CASE UNCHANGED task
    BY <1>1, <2>1, Before
  <2>2. CASE \E t \in Tasks : \E x : Goes(t, x) /\ Fits(x, Minted')
    <3> PICK t \in Tasks : \E x : Goes(t, x) /\ Fits(x, Minted')
      BY <2>2
    <3>1. PICK x : Goes(t, x) /\ Fits(x, Minted')
      OBVIOUS
    <3>2. task' = [task EXCEPT ![t] = x] /\ x \in Task
      BY <3>1 DEF Goes, Fits
    <3> QED
      BY <1>1, <3>1, <3>2, Before
  <2> QED
    BY <2>1, <2>2
<1>3. TypeOK'
  BY <1>2, Before DEF TypeOK, Sane
<1>4. Sane(store, Minted)' /\ ActiveLinked(store)'
  BY DEF Sane, ActiveLinked, Linked
<1>5. \A t \in Tasks : Fits(task[t], Minted)'
  BY <1>2
<1> QED
  BY <1>3, <1>4, <1>5 DEF AntigravityInv

\* A step that mints nothing and leaves the rest alone.
LEMMA QuietKeeps ==
    ASSUME AntigravityInv,
           \/ UNCHANGED task
           \/ \E t \in Tasks : \E x : Goes(t, x) /\ Fits(x, Minted),
           inst' = inst, google' = google, now' \in Nat, starts' \in Nat,
           auth' # None => auth' \in [account: Accounts, access: Nat]
                           /\ auth'.access \in 0 .. Minted,
           Sane(store', Minted), ActiveLinked(store')
    PROVE  AntigravityInv'
<1>1. Minted' = Minted /\ Minted \in Nat /\ Minted <= Minted
  BY Before DEF Minted
<1> QED
  BY <1>1, Before, StepKeeps

-----------------------------------------------------------------------------
(* Requests and commands begin.                                              *)

\* A task that begins knows nothing yet.
LEMMA IdleFits ==
    ASSUME NEW n
    PROVE  /\ Idle \in Task /\ Fits(Idle, n) /\ Idle.job = None /\ Idle.tried = {}
           /\ Idle.refused = {} /\ ~Idle.emitted
<1>1. Idle \in Task
  BY DEF Idle, Task
<1> QED
  BY <1>1 DEF Fits, Idle

\* A task of a kind begins, maybe with a token.
LEMMA IdleBegins ==
    ASSUME NEW job \in Jobs \cup {"acquire"}
    PROVE  /\ [Idle EXCEPT !.job = job] \in Task
           /\ [Idle EXCEPT !.job = job].job = job
           /\ \A token \in Nat : LET r == [Idle EXCEPT !.job = job, !.token = token]
                                 IN  /\ r \in Task /\ r.job = job /\ r.token = token
                                     /\ r.tried = {} /\ r.refused = {} /\ ~r.emitted
<1> DEFINE i == Idle
<1>1. i \in Task /\ i.tried = {} /\ i.refused = {} /\ ~i.emitted
  BY IdleFits
<1> HIDE DEF i
<1>2. /\ [i EXCEPT !.job = job] \in Task
      /\ [i EXCEPT !.job = job].job = job
      /\ \A token \in Nat : LET r == [i EXCEPT !.job = job, !.token = token]
                            IN  /\ r \in Task /\ r.job = job /\ r.token = token
                                /\ r.tried = {} /\ r.refused = {} /\ ~r.emitted
  BY <1>1 DEF Task
<1> QED
  BY <1>2 DEF i

LEMMA SyncedSane ==
    ASSUME AntigravityAssumption, AntigravityInv
    PROVE  /\ Sane(Synced, Minted) /\ ActiveLinked(Synced)
           /\ auth # None => Synced.active # None
BY Before, SyncSane DEF Synced

LEMMA RequestKeeps ==
    ASSUME AntigravityAssumption, AntigravityInv, NEW t \in Tasks, Request(t)
    PROVE  AntigravityInv'
<1> DEFINE r == [Idle EXCEPT !.job = "acquire", !.token = auth.access]
<1>1. /\ auth # None /\ store' = Synced /\ auth' = auth /\ inst' = inst /\ google' = google
      /\ now' = now /\ starts' \in Nat
      /\ Choosing(t, r, Synced, AcquirePool(Synced))
  BY Before DEF Request, Begin, Starts
<1>2. auth.access \in Nat /\ auth.access \in 0 .. Minted
  BY <1>1, Before
<1>3. /\ r \in Task /\ r.job = "acquire" /\ r.token = auth.access /\ r.tried = {}
      /\ r.refused = {} /\ ~r.emitted
  <2> DEFINE k == "acquire"
             token == auth.access
  <2>1. k \in Jobs \cup {"acquire"} /\ token \in Nat
    BY <1>2
  <2> HIDE DEF k, token
  <2>2. LET x == [Idle EXCEPT !.job = k, !.token = token]
        IN  /\ x \in Task /\ x.job = k /\ x.token = token
            /\ x.tried = {} /\ x.refused = {} /\ ~x.emitted
    BY <2>1, IdleBegins
  <2> QED
    BY <2>2 DEF k, token
<1> HIDE DEF r
<1>4. AcquirePool(Synced) \subseteq Linked(Synced)
  BY <1>1, SyncedSane, AcquireLinked
<1>5. \E x : Goes(t, x) /\ Fits(x, Minted)
  BY <1>1, <1>2, <1>3, <1>4, SyncedSane, Before, ChoosingFits
<1> QED
  BY <1>1, <1>5, SyncedSane, Before, QuietKeeps

LEMMA ActivateKeeps ==
    ASSUME AntigravityAssumption, AntigravityInv, NEW t \in Tasks, NEW a \in Accounts,
           Activate(t, a)
    PROVE  AntigravityInv'
<1> DEFINE r == [Idle EXCEPT !.job = "activate"]
<1>1. /\ store' = Synced /\ auth' = auth /\ inst' = inst /\ google' = google
      /\ now' = now /\ starts' \in Nat /\ a \in Linked(Synced)
      /\ Choosing(t, r, Synced, {a})
  BY Before DEF Activate, Begin, Starts
<1>2. r \in Task /\ r.job = "activate"
  BY IdleBegins DEF Jobs
<1> HIDE DEF r
<1>3. \E x : Goes(t, x) /\ Fits(x, Minted)
  BY <1>1, <1>2, SyncedSane, Before, ChoosingFits
<1> QED
  BY <1>1, <1>3, SyncedSane, Before, QuietKeeps

\* An account is unlinked.
LEMMA RestSane ==
    ASSUME NEW n, NEW s, Sane(s, n), NEW a \in Accounts,
           NEW z, z = [s EXCEPT !.accounts[a] = None]
    PROVE  /\ Sane(z, n) /\ z.active = s.active /\ z.rotate = s.rotate
           /\ Linked(z) = Linked(s) \ {a}
<1> DEFINE f == [s.accounts EXCEPT ![a] = None]
<1>1. /\ f \in [Accounts -> StoredAccount \cup {None}] /\ f[a] = None
      /\ \A b \in Accounts : b # a => f[b] = s.accounts[b]
  BY DEF Store, Sane
<1>2. z = [s EXCEPT !.accounts = f]
  OBVIOUS
<1> HIDE DEF f
<1>3. z \in Store /\ z.accounts = f /\ z.active = s.active /\ z.rotate = s.rotate
  BY <1>1, <1>2 DEF Store, Sane
<1>4. Linked(z) = Linked(s) \ {a}
  BY <1>1, <1>3 DEF Linked
<1> QED
  BY <1>1, <1>3, <1>4 DEF Sane, Linked

LEMMA RemoveKeeps ==
    ASSUME AntigravityAssumption, AntigravityInv, NEW t \in Tasks, NEW a \in Accounts,
           Remove(t, a)
    PROVE  AntigravityInv'
<1> DEFINE rest == [Synced EXCEPT !.accounts[a] = None]
           r == [Idle EXCEPT !.job = "remove"]
<1>1. /\ inst' = inst /\ google' = google /\ now' = now /\ starts' \in Nat
  BY Before DEF Remove, Begin, Starts
<1>2. \/ Synced.active # a /\ store' = rest /\ UNCHANGED <<auth, task>>
      \/ /\ Linked(rest) = {} /\ store' = [rest EXCEPT !.active = None] /\ auth' = None
         /\ UNCHANGED task
      \/ /\ store' = Synced /\ UNCHANGED auth
         /\ \E b \in Linked(rest) : Choosing(t, r, rest, {b})
  BY DEF Remove
<1>3. /\ Sane(rest, Minted) /\ rest.active = Synced.active
      /\ Linked(rest) = Linked(Synced) \ {a}
  BY SyncedSane, RestSane
<1>4. r \in Task /\ r.job = "remove"
  BY IdleBegins DEF Jobs
<1> HIDE DEF rest, r
<1>5. CASE Synced.active # a /\ store' = rest /\ UNCHANGED <<auth, task>>
  <2>1. ActiveLinked(rest)
    BY <1>3, <1>5, SyncedSane DEF ActiveLinked
  <2> QED
    BY <1>1, <1>3, <1>5, <2>1, Before, QuietKeeps
<1>6. CASE /\ Linked(rest) = {} /\ store' = [rest EXCEPT !.active = None] /\ auth' = None
           /\ UNCHANGED task
  <2>1. store' \in Store /\ store'.accounts = rest.accounts /\ store'.active = None
    BY <1>3, <1>6 DEF Sane, Store
  <2>2. Sane(store', Minted) /\ ActiveLinked(store')
    BY <1>3, <2>1 DEF Sane, Linked, ActiveLinked
  <2> QED
    BY <1>1, <1>6, <2>2, Before, QuietKeeps
<1>7. CASE /\ store' = Synced /\ UNCHANGED auth
           /\ \E b \in Linked(rest) : Choosing(t, r, rest, {b})
  <2>1. \E x : Goes(t, x) /\ Fits(x, Minted)
    BY <1>3, <1>4, <1>7, Before, ChoosingFits
  <2> QED
    BY <1>1, <1>7, <2>1, SyncedSane, Before, QuietKeeps
<1> QED
  BY <1>2, <1>5, <1>6, <1>7

LEMMA DiscoverKeeps ==
    ASSUME AntigravityAssumption, AntigravityInv, NEW t \in Tasks, Discover(t)
    PROVE  AntigravityInv'
<1> DEFINE r == [Idle EXCEPT !.job = "discover", !.token = auth.access]
           mark(m) == [a \in Linked(store) |-> [store.accounts[a] EXCEPT !.model = m]]
<1>1. /\ auth # None /\ auth' = auth /\ inst' = inst /\ google' = google
      /\ now' = now /\ starts' \in Nat
  BY Before DEF Discover, Begin, Starts
<1>2. PICK m \in Listed : \E s \in Marked(auth.access, mark(m)) :
         store' = Sync(s) /\ Choosing(t, r, Sync(s), Linked(Sync(s)))
  BY DEF Discover
<1>3. \A a \in Linked(store) : mark(m)[a] \in StoredAccount /\ mark(m)[a].access \in 0 .. Minted
  BY Before, LinkedKnown DEF StoredAccount, Listed
<1>4. auth.access \in Nat
  BY <1>1, Before
<1>5. r \in Task /\ r.job = "discover"
  BY <1>4, IdleBegins DEF Jobs
<1> HIDE DEF r, mark
<1>6. PICK s \in Marked(auth.access, mark(m)) :
         store' = Sync(s) /\ Choosing(t, r, Sync(s), Linked(Sync(s)))
  BY <1>2
<1>7. Sane(s, Minted) /\ ActiveLinked(s)
  BY <1>3, Before, MarkedSane
<1>8. Sane(Sync(s), Minted) /\ ActiveLinked(Sync(s))
  BY <1>7, Before, SyncSane
<1>9. \E x : Goes(t, x) /\ Fits(x, Minted)
  BY <1>5, <1>6, <1>8, Before, ChoosingFits
<1> QED
  BY <1>1, <1>6, <1>8, <1>9, Before, QuietKeeps

LEMMA ToggleRotationKeeps ==
    ASSUME AntigravityAssumption, AntigravityInv, NEW t \in Tasks, ToggleRotation(t)
    PROVE  AntigravityInv'
<1>1. /\ UNCHANGED <<auth, task, inst, google, now>> /\ starts' \in Nat
      /\ store' = [store EXCEPT !.rotate = ~@]
  BY Before DEF ToggleRotation, Begin, Starts
<1>2. store' \in Store /\ store'.accounts = store.accounts /\ store'.active = store.active
  BY <1>1, Before DEF Store
<1>3. Sane(store', Minted) /\ ActiveLinked(store')
  BY <1>2, Before DEF Sane, ActiveLinked, Linked
<1> QED
  BY <1>1, <1>3, Before, QuietKeeps

\* The account that logs in is linked, and is the active one.
LEMMA LoginKeeps ==
    ASSUME AntigravityAssumption, AntigravityInv, NEW a \in Accounts, Login(a)
    PROVE  AntigravityInv'
<1> DEFINE n == Minted + 1
           y == [Synced EXCEPT !.accounts[a] = FromCredentials(n, Synced.accounts[a])]
<1>1. /\ Mint(a) /\ inst' = inst /\ task' = task /\ now' = now /\ starts' \in Nat
      /\ auth' = [account |-> a, access |-> n]
  BY Before DEF Login, Starts
<1>2. Minted' = n /\ n \in Nat /\ Minted \in Nat /\ Minted <= n
  BY <1>1, MintGrows, Before
<1>3. Sane(Synced, n) /\ ActiveLinked(Synced)
  BY <1>2, SyncedSane, FitsMore
<1>4. n \in 0 .. n
  BY <1>2
<1>5. Sane(y, n) /\ Linked(y) = Linked(Synced) \cup {a}
  BY <1>2, <1>3, <1>4, CredentialsSet
<1>6. store' = [y EXCEPT !.active = a]
  BY <1>3 DEF Login, Sane, Store
<1> HIDE DEF y, n
<1>7. store' \in Store /\ store'.accounts = y.accounts /\ store'.active = a
  BY <1>5, <1>6 DEF Sane, Store
<1>8. Sane(store', n) /\ ActiveLinked(store')
  BY <1>5, <1>7 DEF Sane, ActiveLinked, Linked
<1> QED
  BY <1>1, <1>2, <1>4, <1>8, MintGrows, Before, StepKeeps

LEMMA RefreshAuthKeeps ==
    ASSUME AntigravityAssumption, AntigravityInv, RefreshAuth
    PROVE  AntigravityInv'
<1> DEFINE n == Minted + 1
           a == auth.account
<1>1. /\ auth # None /\ Mint(a) /\ inst' = inst /\ task' = task /\ now' = now /\ starts' \in Nat
      /\ auth' = [auth EXCEPT !.access = n]
      /\ \/ store' = store
         \/ store' = [store EXCEPT !.accounts[a] = FromCredentials(n, store.accounts[a])]
  BY Before DEF RefreshAuth, Starts
<1>2. a \in Accounts /\ auth \in [account: Accounts, access: Nat]
  BY <1>1, Before
<1>3. Minted' = n /\ n \in Nat /\ Minted \in Nat /\ Minted <= n
  BY <1>1, <1>2, MintGrows, Before
<1>4. Sane(store, n) /\ ActiveLinked(store) /\ n \in 0 .. n
  BY <1>3, Before, FitsMore
<1> HIDE DEF n
<1>5. Sane(store', n) /\ ActiveLinked(store')
  BY <1>1, <1>2, <1>3, <1>4, CredentialsSet
<1>6. auth' \in [account: Accounts, access: Nat] /\ auth'.access = n
  BY <1>1, <1>2, <1>3
<1> QED
  BY <1>1, <1>2, <1>3, <1>4, <1>5, <1>6, MintGrows, Before, StepKeeps

-----------------------------------------------------------------------------
(* Going through the accounts.                                               *)

\* What a task that goes through accounts is known to be.
LEMMA GoingKnown ==
    ASSUME AntigravityInv, NEW t \in Tasks, task[t].pc \in {"choose", "refresh"}
    PROVE  /\ task[t] \in Task /\ Going(task[t], Minted) /\ task[t].left \in Seq(Accounts)
           /\ task[t].loaded \in Store /\ task[t].tried \subseteq Nat
BY Before DEF Fits, Task, Going, Sane

LEMMA AskingKnown ==
    ASSUME AntigravityInv, NEW t \in Tasks, task[t].pc \in {"send", "mark", "stream"}
    PROVE  task[t] \in Task /\ Asking(task[t], Minted)
BY Before DEF Fits

LEMMA NoneLeftKeeps ==
    ASSUME AntigravityAssumption, AntigravityInv, NEW t \in Tasks, NoneLeft(t)
    PROVE  AntigravityInv'
<1> DEFINE r == task[t]
           x == [r EXCEPT !.pc = "send", !.loaded = None, !.tried = {r.token}]
           y == [r EXCEPT !.pc = "ended", !.loaded = None]
           z == [r EXCEPT !.pc = "catalog", !.loaded = None]
<1>1. /\ r.pc = "choose" /\ UNCHANGED <<inst, auth, google, now, starts>>
      /\ store' = IF r.job = "discover" /\ r.updated THEN r.loaded ELSE store
  BY DEF NoneLeft
<1>2. \/ r.job = "acquire" /\ Goes(t, x)
      \/ Goes(t, y) \/ Goes(t, z) \/ Goes(t, Idle)
  BY DEF NoneLeft
<1>3. r \in Task /\ Going(r, Minted)
  BY <1>1, GoingKnown
<1>4. Sane(store', Minted) /\ ActiveLinked(store')
  BY <1>1, <1>3, Before DEF Going
<1> HIDE DEF r
<1>5. Fits(y, Minted) /\ Fits(z, Minted) /\ Fits(Idle, Minted)
  <2>1. y \in Task /\ y.pc = "ended" /\ z \in Task /\ z.pc = "catalog"
    BY <1>3 DEF Task
  <2> QED
    BY <2>1, IdleFits DEF Fits
<1>6. r.job = "acquire" => Fits(x, Minted)
  <2> SUFFICES ASSUME r.job = "acquire" PROVE Fits(x, Minted)
    OBVIOUS
  <2>1. r.token \in 0 .. Minted /\ r.refused = {} /\ ~r.emitted /\ Minted \in Nat
    BY <1>3, Before DEF Going
  <2>2. /\ x \in Task /\ x.pc = "send" /\ x.token = r.token /\ x.tried = {r.token}
        /\ x.refused = {} /\ ~x.emitted
    <3> DEFINE k == {r.token}
    <3>1. k \in SUBSET Nat
      BY <2>1
    <3> HIDE DEF k
    <3>2. x = [r EXCEPT !.pc = "send", !.loaded = None, !.tried = k]
      BY DEF k
    <3> HIDE DEF x
    <3>3. /\ x \in Task /\ x.pc = "send" /\ x.token = r.token /\ x.tried = k
          /\ x.refused = r.refused /\ x.emitted = r.emitted
      BY <1>3, <3>1, <3>2 DEF Task
    <3> QED
      BY <2>1, <3>3 DEF k
  <2> QED
    BY <2>1, <2>2 DEF Fits, Asking
<1> HIDE DEF x, y, z
<1> QED
  BY <1>1, <1>2, <1>4, <1>5, <1>6, Before, QuietKeeps

\* An account is used with a token that it has, or that is minted for it.
LEMMA TookKeeps ==
    ASSUME AntigravityAssumption, AntigravityInv, NEW t \in Tasks,
           task[t].pc \in {"choose", "refresh"}, task[t].left # <<>>,
           NEW a \in Linked(task[t].loaded), NEW token \in 0 .. Minted',
           task[t].job = "failover" => token \notin task[t].tried,
           Took(t, a, token), UNCHANGED <<inst, now, starts>>,
           Minted' \in Nat, Minted <= Minted',
           google'.owner \in Seq(Accounts), google'.expired \subseteq Nat
    PROVE  AntigravityInv'
<1> DEFINE r == task[t]
           n == Minted'
           s == [r.loaded EXCEPT !.accounts[a].access = token]
           fresh == [r EXCEPT !.loaded = None, !.left = <<>>, !.account = None]
<1>1. /\ r \in Task /\ Going(r, Minted) /\ Going(r, n) /\ a \in Accounts
  <2>1. r \in Task /\ Going(r, Minted) /\ Fits(r, n)
    BY GoingKnown, Before, FitsMore
  <2> QED
    BY <2>1, LinkedKnown DEF Fits, Going
<1>2. Sane(r.loaded, n)
  BY <1>1 DEF Going
<1>3. /\ Sane(s, n) /\ s.active = r.loaded.active /\ s.rotate = r.loaded.rotate
      /\ Linked(s) = Linked(r.loaded)
      /\ ActiveLinked(r.loaded) => ActiveLinked(s)
  BY <1>2, TokenSet
<1>4. /\ auth # None => auth \in [account: Accounts, access: Nat] /\ auth.access \in 0 .. n
      /\ Sane(store, n) /\ ActiveLinked(store)
  BY Before, FitsMore
<1>5. token \in Nat
  OBVIOUS
<1> HIDE DEF n
<1>6. CASE r.job \in {"acquire", "failover"}
  <2> DEFINE w == [fresh EXCEPT !.pc = "send", !.token = token,
                                !.tried = @ \cup {token}, !.empties = 0]
  <2>1. store' = s /\ auth' = auth /\ Goes(t, w)
    BY <1>6 DEF Took
  <2>2. /\ w \in Task /\ w.pc = "send" /\ w.token = token /\ w.tried = r.tried \cup {token}
        /\ w.refused = r.refused /\ w.emitted = r.emitted
    <3> DEFINE tried == r.tried \cup {token}
    <3>1. w = [fresh EXCEPT !.pc = "send", !.token = token, !.tried = tried, !.empties = 0]
      BY <1>1 DEF Task
    <3>2. tried \in SUBSET Nat
      BY <1>1, <1>5 DEF Task
    <3>3. <<>> \in Seq(Accounts)
      OBVIOUS
    <3> HIDE DEF tried, w, r
    <3>4. fresh \in Task /\ fresh.refused = r.refused /\ fresh.emitted = r.emitted
      BY <1>1, <3>3 DEF Task
    <3> HIDE DEF fresh
    <3>5. /\ w \in Task /\ w.pc = "send" /\ w.token = token /\ w.tried = tried
          /\ w.refused = fresh.refused /\ w.emitted = fresh.emitted
      BY <1>5, <3>1, <3>2, <3>4 DEF Task
    <3> QED
      BY <3>4, <3>5 DEF tried
  <2>3. /\ r.refused \subseteq r.tried /\ r.tried \subseteq 0 .. n /\ ~r.emitted
        /\ token \notin r.refused
    BY <1>1, <1>6 DEF Going
  <2> HIDE DEF w
  <2>4. Asking(w, n)
    BY <2>2, <2>3 DEF Asking, n
  <2>5. Fits(w, n)
    BY <2>2, <2>4 DEF Fits
  <2>6. ActiveLinked(s)
    BY <1>1, <1>3, <1>6 DEF Going
  <2> QED
    BY <1>3, <1>4, <2>1, <2>5, <2>6, Before, StepKeeps DEF n
<1>7. CASE r.job = "discover"
  <2> DEFINE keys == r.keys \cup ({token} \ {r.token})
             updated == r.updated \/ s # r.loaded
             w == [r EXCEPT !.pc = "choose", !.left = Tail(r.left), !.account = None,
                            !.loaded = s, !.keys = keys, !.updated = updated]
  <2>1. store' = store /\ auth' = auth
    BY <1>7 DEF Took
  <2>2. Goes(t, w)
    BY <1>1, <1>7 DEF Took, Task
  <2>3. keys \in SUBSET Nat /\ updated \in BOOLEAN
    BY <1>1, <1>5 DEF Task
  <2>4. /\ Tail(r.left) \in Seq(Accounts)
        /\ \A i \in DOMAIN Tail(r.left) : Tail(r.left)[i] \in Linked(s)
    BY <1>1, <1>3 DEF Task, Going
  <2>5. s \in Store
    BY <1>3 DEF Sane
  <2> HIDE DEF keys, updated, s, r
  <2>6. /\ w \in Task /\ w.pc = "choose" /\ w.job = r.job /\ w.loaded = s
        /\ w.left = Tail(r.left)
    BY <1>1, <2>3, <2>4, <2>5 DEF Task
  <2> HIDE DEF w
  <2>7. Going(w, n)
    BY <1>1, <1>3, <1>7, <2>4, <2>6 DEF Going
  <2>8. Fits(w, n)
    BY <2>6, <2>7 DEF Fits
  <2> QED
    BY <1>4, <2>1, <2>2, <2>8, Before, StepKeeps DEF n
<1>8. CASE r.job \notin {"acquire", "failover", "discover"}
  <2> DEFINE b == IF r.job = "activate" THEN FALSE ELSE s.rotate
  <2>1. /\ store' = [s EXCEPT !.active = a, !.rotate = b]
        /\ auth' = [account |-> a, access |-> token] /\ Goes(t, Idle)
    BY <1>3, <1>8 DEF Took, Sane, Store
  <2>2. s \in Store /\ b \in BOOLEAN
    BY <1>3 DEF Sane, Store
  <2> HIDE DEF b, s
  <2>3. store' \in Store /\ store'.accounts = s.accounts /\ store'.active = a
    BY <1>1, <2>1, <2>2 DEF Store
  <2>4. Sane(store', n) /\ ActiveLinked(store')
    BY <1>3, <2>3 DEF Sane, ActiveLinked, Linked
  <2>5. Fits(Idle, n)
    BY IdleFits
  <2>6. auth' \in [account: Accounts, access: Nat] /\ auth'.access \in 0 .. n
    BY <1>1, <1>5, <2>1 DEF n
  <2> QED
    BY <2>1, <2>4, <2>5, <2>6, Before, StepKeeps DEF n
<1> QED
  BY <1>6, <1>7, <1>8

LEMMA UseAccountKeeps ==
    ASSUME AntigravityAssumption, AntigravityInv, NEW t \in Tasks, UseAccount(t)
    PROVE  AntigravityInv'
<1> DEFINE r == task[t]
           a == Head(r.left)
           token == r.loaded.accounts[a].access
           x == [r EXCEPT !.pc = "refresh", !.account = a]
<1>1. /\ r.pc = "choose" /\ r.left # <<>> /\ UNCHANGED <<inst, google, now, starts>>
      /\ \/ Goes(t, x) /\ UNCHANGED <<store, auth>>
         \/ Took(t, a, token)
  BY DEF UseAccount
<1>2. /\ r \in Task /\ Going(r, Minted) /\ r.left \in Seq(Accounts) /\ Minted \in Nat
  BY <1>1, GoingKnown, Before
<1>3. 1 \in DOMAIN r.left /\ a = r.left[1] /\ a \in Linked(r.loaded)
  BY <1>1, <1>2 DEF Going
<1>4. a \in Accounts /\ token \in 0 .. Minted /\ Minted' = Minted
  BY <1>1, <1>2, <1>3, LinkedKnown DEF Going, Minted
<1>5. CASE Goes(t, x) /\ UNCHANGED <<store, auth>>
  <2> HIDE DEF r, a
  <2>1. /\ x \in Task /\ x.pc = "refresh" /\ x.account = a /\ x.left = r.left
        /\ x.loaded = r.loaded /\ x.job = r.job /\ x.tried = r.tried
        /\ x.refused = r.refused /\ x.emitted = r.emitted /\ x.token = r.token
    BY <1>2, <1>4 DEF Task
  <2> HIDE DEF x
  <2>2. Fits(x, Minted)
    BY <1>1, <1>2, <1>3, <2>1 DEF Fits, Going
  <2> QED
    BY <1>1, <1>5, <2>2, Before, QuietKeeps
<1>6. CASE Took(t, a, token)
  <2>1. r.job = "failover" => token \notin r.tried
    BY <1>2, <1>3 DEF Going
  <2>2. /\ Minted' \in Nat /\ Minted <= Minted' /\ token \in 0 .. Minted'
        /\ google'.owner \in Seq(Accounts) /\ google'.expired \subseteq Nat
    BY <1>1, <1>2, <1>4, Before
  <2> HIDE DEF a, token
  <2> QED
    BY <1>1, <1>3, <1>6, <2>1, <2>2, TookKeeps
<1> QED
  BY <1>1, <1>5, <1>6

\* A minted token is none that was tried.
LEMMA RefreshedKeeps ==
    ASSUME AntigravityAssumption, AntigravityInv, NEW t \in Tasks, Refreshed(t)
    PROVE  AntigravityInv'
<1> DEFINE r == task[t]
<1>1. /\ r.pc = "refresh" /\ Mint(r.account) /\ Took(t, r.account, Minted + 1)
      /\ UNCHANGED <<inst, now, starts>>
  BY DEF Refreshed
<1>2. /\ Going(r, Minted) /\ Minted \in Nat
  BY <1>1, GoingKnown, Before
<1>3. r.account \in Linked(r.loaded) /\ r.account \in Accounts /\ r.left # <<>>
  BY <1>1, <1>2, LinkedKnown DEF Going
<1>4. /\ Minted' = Minted + 1 /\ google'.owner \in Seq(Accounts) /\ google'.expired \subseteq Nat
  BY <1>1, <1>3, MintGrows
<1>5. r.job = "failover" => Minted + 1 \notin r.tried
  BY <1>2 DEF Going
<1> QED
  BY <1>1, <1>2, <1>3, <1>4, <1>5, TookKeeps

LEMMA RefreshFailsKeeps ==
    ASSUME AntigravityAssumption, AntigravityInv, NEW t \in Tasks, RefreshFails(t)
    PROVE  AntigravityInv'
<1> DEFINE r == task[t]
           x == [r EXCEPT !.pc = "choose", !.left = Tail(r.left), !.account = None]
<1>1. /\ r.pc = "refresh" /\ UNCHANGED <<inst, store, auth, google, now, starts>>
  BY DEF RefreshFails
<1>2. /\ r \in Task /\ Going(r, Minted) /\ r.left \in Seq(Accounts) /\ r.left # <<>>
  BY <1>1, GoingKnown DEF Going
<1>3. Goes(t, Idle) \/ Goes(t, x)
  BY <1>2 DEF RefreshFails, Task
<1>4. /\ Tail(r.left) \in Seq(Accounts)
      /\ \A i \in DOMAIN Tail(r.left) : i + 1 \in DOMAIN r.left /\ Tail(r.left)[i] = r.left[i + 1]
  BY <1>2
<1> HIDE DEF r
<1>5. /\ x \in Task /\ x.pc = "choose" /\ x.left = Tail(r.left)
      /\ x.loaded = r.loaded /\ x.job = r.job /\ x.tried = r.tried
      /\ x.refused = r.refused /\ x.emitted = r.emitted /\ x.token = r.token
  BY <1>2, <1>4 DEF Task
<1> HIDE DEF x
<1>6. Fits(x, Minted)
  BY <1>2, <1>4, <1>5 DEF Fits, Going
<1> QED
  BY <1>1, <1>3, <1>6, IdleFits, Before, QuietKeeps

LEMMA RecordCatalogKeeps ==
    ASSUME AntigravityAssumption, AntigravityInv, NEW t \in Tasks, RecordCatalog(t)
    PROVE  AntigravityInv'
<1> DEFINE r == task[t]
           holder(a) == a \in Linked(store) /\ store.accounts[a].access \in r.keys
<1>1. Goes(t, Idle) /\ UNCHANGED <<inst, auth, google, now, starts>>
  BY DEF RecordCatalog
<1>2. PICK fetched \in SUBSET r.keys : \E m \in [fetched -> Listed] :
         store' = [store EXCEPT !.accounts = [a \in Accounts |->
            IF holder(a) /\ @[a].access \in fetched
            THEN [@[a] EXCEPT !.model = m[store.accounts[a].access]] ELSE @[a]]]
  BY DEF RecordCatalog
<1>3. PICK m \in [fetched -> Listed] :
         store' = [store EXCEPT !.accounts = [a \in Accounts |->
            IF holder(a) /\ @[a].access \in fetched
            THEN [@[a] EXCEPT !.model = m[store.accounts[a].access]] ELSE @[a]]]
  BY <1>2
<1> DEFINE v(a) == [store.accounts[a] EXCEPT !.model = m[store.accounts[a].access]]
           f == [a \in Accounts |->
                   IF holder(a) /\ store.accounts[a].access \in fetched
                   THEN v(a) ELSE store.accounts[a]]
<1>4. store' = [store EXCEPT !.accounts = f]
  BY <1>3, Before DEF Store
<1>5. \A a \in Linked(store) : store.accounts[a].access \in fetched =>
         v(a) \in StoredAccount /\ v(a).access = store.accounts[a].access
  BY Before, LinkedKnown DEF StoredAccount, Listed
<1> HIDE DEF v
<1>6. \A a \in Accounts :
         /\ f[a] \in StoredAccount \cup {None}
         /\ f[a] # None <=> store.accounts[a] # None
         /\ a \in Linked(store) => f[a].access = store.accounts[a].access
  BY <1>5, Before DEF Store, Linked, AntigravityAssumption
<1>7. f \in [Accounts -> StoredAccount \cup {None}]
  BY <1>6
<1> HIDE DEF f
<1>8. store' \in Store /\ store'.accounts = f /\ store'.active = store.active
  BY <1>4, <1>7, Before DEF Store
<1>9. Linked(store') = Linked(store)
  BY <1>6, <1>8 DEF Linked
<1>10. Sane(store', Minted) /\ ActiveLinked(store')
  BY <1>6, <1>8, <1>9, Before, LinkedKnown DEF Sane, ActiveLinked
<1> QED
  BY <1>1, <1>10, IdleFits, Before, QuietKeeps

-----------------------------------------------------------------------------
(* The request.                                                              *)

LEMMA SendKeeps ==
    ASSUME AntigravityAssumption, AntigravityInv, NEW t \in Tasks, Send(t)
    PROVE  AntigravityInv'
<1> DEFINE r == task[t]
           pc(x) == CASE x = "ok" -> "stream"
                      [] x \in {"quota", "notFound"} -> "mark"
                      [] OTHER -> "ended"
           y(x, bad) == [r EXCEPT !.response = x, !.refused = r.refused \cup bad, !.pc = pc(x)]
<1>1. r.pc = "send" /\ UNCHANGED <<inst, store, auth, google, now, starts>>
  BY DEF Send
<1>2. r \in Task /\ Asking(r, Minted)
  BY <1>1, AskingKnown
<1>3. /\ r.token \in Nat /\ r.token \in r.tried /\ r.token \notin r.refused /\ ~r.emitted
      /\ r.response \in {"ok", "error", "quota", "notFound", None}
  BY <1>1, <1>2 DEF Asking, Task
<1>4. \E x \in {"ok", "error", "quota", "notFound", None}, bad \in {{}, {r.token}} :
         Goes(t, y(x, bad)) /\ (x = "ok" => bad = {})
  <2>1. \/ \E x \in {"ok", "error", "quota", "notFound"} :
             Goes(t, y(x, IF x \in {"quota", "notFound"} THEN {r.token} ELSE {}))
        \/ Goes(t, y(IF r.response = "ok" THEN "error" ELSE r.response, {}))
    BY <1>2 DEF Send, Task
  <2> HIDE DEF y
  <2>2. CASE \E x \in {"ok", "error", "quota", "notFound"} :
             Goes(t, y(x, IF x \in {"quota", "notFound"} THEN {r.token} ELSE {}))
    BY <2>2
  <2>3. CASE Goes(t, y(IF r.response = "ok" THEN "error" ELSE r.response, {}))
    <3>1. CASE r.response = "ok"
      BY <2>3, <3>1
    <3>2. CASE r.response # "ok"
      BY <1>3, <2>3, <3>2
    <3> QED
      BY <3>1, <3>2
  <2> QED
    BY <2>1, <2>2, <2>3
<1>5. PICK x \in {"ok", "error", "quota", "notFound", None}, bad \in {{}, {r.token}} :
         Goes(t, y(x, bad)) /\ (x = "ok" => bad = {})
  BY <1>4
<1> DEFINE z == y(x, bad)
           refused == r.refused \cup bad
           p == pc(x)
<1>6. p \in {"stream", "mark", "ended"} /\ (p = "stream" => x = "ok")
  OBVIOUS
<1>7. refused \in SUBSET Nat /\ refused \subseteq r.tried /\ (x = "ok" => refused = r.refused)
  BY <1>2, <1>3, <1>5 DEF Asking, Task
<1>8. z = [r EXCEPT !.response = x, !.refused = refused, !.pc = p]
  OBVIOUS
<1> HIDE DEF z, refused, p, r
<1>9. /\ z \in Task /\ z.pc = p /\ z.refused = refused /\ z.token = r.token
      /\ z.tried = r.tried /\ z.emitted = r.emitted
  BY <1>2, <1>6, <1>7, <1>8 DEF Task
<1>10. p # "ended" => Asking(z, Minted)
  BY <1>2, <1>3, <1>6, <1>7, <1>9 DEF Asking
<1>11. Fits(z, Minted)
  BY <1>6, <1>9, <1>10 DEF Fits
<1> QED
  BY <1>1, <1>5, <1>11, Before, QuietKeeps DEF z

LEMMA MarkKeeps ==
    ASSUME AntigravityAssumption, AntigravityInv, NEW t \in Tasks, Mark(t)
    PROVE  AntigravityInv'
<1> DEFINE r == task[t]
           x == [r EXCEPT !.job = "failover"]
           mark == [a \in Linked(store) |->
                      IF r.response = "notFound" THEN [store.accounts[a] EXCEPT !.model = "no"]
                      ELSE [store.accounts[a] EXCEPT !.cooldownUntil = now + 1]]
<1>1. r.pc = "mark" /\ UNCHANGED <<inst, auth, google, now, starts>>
  BY DEF Mark
<1>2. PICK s \in Marked(r.token, mark) :
         /\ store' = Sync(s)
         /\ Choosing(t, x, Sync(s), FailoverPool(Sync(s), r.tried))
  BY DEF Mark
<1>3. r \in Task /\ Asking(r, Minted)
  BY <1>1, AskingKnown
<1>4. \A a \in Linked(store) : mark[a] \in StoredAccount /\ mark[a].access \in 0 .. Minted
  <2>1. now + 1 \in Nat
    BY Before
  <2> QED
    BY <2>1, Before, LinkedKnown DEF StoredAccount
<1> HIDE DEF mark, r
<1>5. Sane(s, Minted) /\ ActiveLinked(s)
  BY <1>4, Before, MarkedSane
<1>6. Sane(Sync(s), Minted) /\ ActiveLinked(Sync(s))
  BY <1>5, Before, SyncSane
<1>7. /\ x \in Task /\ x.job = "failover" /\ x.tried = r.tried /\ x.refused = r.refused
      /\ x.emitted = r.emitted
  BY <1>3 DEF Task
<1>8. /\ r.refused \subseteq r.tried /\ r.tried \subseteq 0 .. Minted /\ ~r.emitted
  BY <1>1, <1>3 DEF Asking
<1> HIDE DEF x
<1>9. FailoverPool(Sync(s), r.tried)
        \subseteq {a \in Linked(Sync(s)) : Sync(s).accounts[a].access \notin r.tried}
  BY FailoverUntried
<1>10. \E y : Goes(t, y) /\ Fits(y, Minted)
  BY <1>2, <1>6, <1>7, <1>8, <1>9, Before, ChoosingFits
<1> QED
  BY <1>1, <1>2, <1>6, <1>10, Before, QuietKeeps

LEMMA ChunkKeeps ==
    ASSUME AntigravityAssumption, AntigravityInv, NEW t \in Tasks, Chunk(t)
    PROVE  AntigravityInv'
<1> DEFINE r == task[t]
           x == [r EXCEPT !.emitted = TRUE]
<1>1. /\ r.pc = "stream" /\ UNCHANGED <<inst, store, auth, google, now, starts>>
      /\ Goes(t, x)
  BY DEF Chunk
<1>2. r \in Task /\ Asking(r, Minted)
  BY <1>1, AskingKnown
<1> HIDE DEF r
<1>3. /\ x \in Task /\ x.pc = r.pc /\ x.tried = r.tried /\ x.refused = r.refused
      /\ x.token = r.token
  BY <1>2 DEF Task
<1> HIDE DEF x
<1>4. Fits(x, Minted)
  BY <1>1, <1>2, <1>3 DEF Fits, Asking
<1> QED
  BY <1>1, <1>4, Before, QuietKeeps

\* An empty answer is asked for again.
LEMMA FinishKeeps ==
    ASSUME AntigravityAssumption, AntigravityInv, NEW t \in Tasks, Finish(t)
    PROVE  AntigravityInv'
<1> DEFINE r == task[t]
           x == [r EXCEPT !.pc = "ended"]
           n == r.empties + 1
           y == [r EXCEPT !.pc = "send", !.empties = n]
<1>1. /\ r.pc = "stream" /\ UNCHANGED <<inst, store, auth, google, now, starts>>
  BY DEF Finish
<1>2. r \in Task /\ Asking(r, Minted)
  BY <1>1, AskingKnown
<1>3. Goes(t, x) \/ (~r.emitted /\ Goes(t, y))
  BY <1>2 DEF Finish, Task
<1>4. n \in Nat
  BY <1>2 DEF Task
<1> HIDE DEF r, n
<1>5. /\ x \in Task /\ x.pc = "ended"
      /\ y \in Task /\ y.pc = "send" /\ y.tried = r.tried /\ y.refused = r.refused
      /\ y.token = r.token /\ y.emitted = r.emitted
  BY <1>2, <1>4 DEF Task
<1> HIDE DEF x, y
<1>6. Fits(x, Minted) /\ (~r.emitted => Fits(y, Minted))
  BY <1>1, <1>2, <1>5 DEF Fits, Asking
<1> QED
  BY <1>1, <1>3, <1>6, Before, QuietKeeps

\* A quota error before any content fails over, with its token refused.
LEMMA BreakKeeps ==
    ASSUME AntigravityAssumption, AntigravityInv, NEW t \in Tasks, Break(t)
    PROVE  AntigravityInv'
<1> DEFINE r == task[t]
           x == [r EXCEPT !.pc = "ended"]
           refused == r.refused \cup {r.token}
           p == IF r.emitted THEN "ended" ELSE "mark"
           y == [r EXCEPT !.refused = refused, !.pc = p]
<1>1. /\ r.pc = "stream" /\ UNCHANGED <<inst, store, auth, google, now, starts>>
  BY DEF Break
<1>2. r \in Task /\ Asking(r, Minted)
  BY <1>1, AskingKnown
<1>3. Goes(t, x) \/ Goes(t, y)
  BY <1>2 DEF Break, Task
<1>4. refused \in SUBSET Nat /\ refused \subseteq r.tried
  BY <1>2 DEF Task, Asking
<1>5. p \in {"ended", "mark"} /\ (p = "mark" => ~r.emitted)
  OBVIOUS
<1> HIDE DEF r, refused, p
<1>6. /\ x \in Task /\ x.pc = "ended"
      /\ y \in Task /\ y.pc = p /\ y.tried = r.tried /\ y.refused = refused
      /\ y.token = r.token /\ y.emitted = r.emitted
  BY <1>2, <1>4, <1>5 DEF Task
<1> HIDE DEF x, y
<1>7. Fits(x, Minted) /\ Fits(y, Minted)
  BY <1>1, <1>2, <1>4, <1>5, <1>6 DEF Fits, Asking
<1> QED
  BY <1>1, <1>3, <1>7, Before, QuietKeeps

-----------------------------------------------------------------------------
(* The theorems.                                                             *)

LEMMA OthersKeep ==
    ASSUME AntigravityAssumption, AntigravityInv,
           \/ \E t \in Tasks : Ended(t)
           \/ Pass \/ \E token \in 0 .. Minted : Expire(token)
    PROVE  AntigravityInv'
<1>1. CASE \E t \in Tasks : Ended(t)
  BY <1>1, IdleFits, Before, QuietKeeps DEF Ended
<1>2. CASE Pass
  BY <1>2, Before, QuietKeeps DEF Pass
<1>3. CASE \E token \in 0 .. Minted : Expire(token)
  <2> PICK token \in 0 .. Minted : Expire(token)
    BY <1>3
  <2>1. /\ google' = [google EXCEPT !.expired = @ \cup {token}]
        /\ UNCHANGED <<inst, store, auth, task, now, starts>>
    BY DEF Expire
  <2>2. google'.owner = google.owner /\ google'.expired = google.expired \cup {token}
    BY <2>1 DEF AntigravityInv, TypeOK
  <2>3. Minted' = Minted /\ Minted \in Nat
    BY <2>2, Before DEF Minted
  <2> QED
    BY <2>1, <2>2, <2>3, Before, StepKeeps
<1> QED
  BY <1>1, <1>2, <1>3

LEMMA AntigravityInit ==
    ASSUME AntigravityAssumption, Init
    PROVE  AntigravityInv
<1> DEFINE v == [access |-> 0, cooldownUntil |-> 0, model |-> "unknown"]
           f == [a \in Accounts |-> v]
           active == CHOOSE a \in Accounts : TRUE
<1>1. /\ inst \in Instances
      /\ store = [accounts |-> f, active |-> active, rotate |-> TRUE]
      /\ auth = [account |-> active, access |-> 0] /\ task = [t \in Tasks |-> Idle]
      /\ google = [owner |-> <<>>, expired |-> {0}] /\ now = 0 /\ starts = 0
  BY DEF Init
<1>2. Minted = 0 /\ google.owner \in Seq(Accounts) /\ google.expired \subseteq Nat
  BY <1>1 DEF Minted
<1>3. active \in Accounts /\ active # None
  BY DEF AntigravityAssumption
<1>4. v \in StoredAccount /\ v # None /\ v.access \in 0 .. 0
  BY DEF StoredAccount, AntigravityAssumption
<1>5. /\ f \in [Accounts -> StoredAccount \cup {None}]
      /\ \A a \in Accounts : f[a] = v
  BY <1>4
<1> HIDE DEF v, f, active
<1>6. /\ store \in Store /\ store.accounts = f /\ store.active = active
  BY <1>1, <1>3, <1>5 DEF Store
<1>7. Linked(store) = Accounts
  BY <1>4, <1>5, <1>6 DEF Linked
<1>8. Sane(store, Minted) /\ ActiveLinked(store)
  BY <1>2, <1>3, <1>4, <1>5, <1>6, <1>7 DEF Sane, ActiveLinked
<1>9. auth \in [account: Accounts, access: Nat] /\ auth.access \in 0 .. Minted
  BY <1>1, <1>2, <1>3
<1>10. task \in [Tasks -> Task] /\ \A t \in Tasks : Fits(task[t], Minted)
  BY <1>1, IdleFits
<1> QED
  BY <1>1, <1>2, <1>6, <1>8, <1>9, <1>10 DEF AntigravityInv, TypeOK

LEMMA AntigravityNext ==
    ASSUME AntigravityAssumption, AntigravityInv, [Next]_agvars
    PROVE  AntigravityInv'
<1>1. CASE UNCHANGED agvars
  <2>1. UNCHANGED <<inst, store, auth, task, google, now, starts>>
    BY <1>1 DEF agvars
  <2> QED
    BY <2>1, Before, QuietKeeps
<1>2. CASE \E t \in Tasks : Command(t) \/ Step(t)
  <2> PICK t \in Tasks : Command(t) \/ Step(t)
    BY <1>2
  <2>1. CASE Command(t)
    BY <2>1, RequestKeeps, DiscoverKeeps, ToggleRotationKeeps, ActivateKeeps, RemoveKeeps
       DEF Command
  <2>2. CASE Step(t)
    BY <2>2, NoneLeftKeeps, UseAccountKeeps, RefreshedKeeps, RefreshFailsKeeps,
       RecordCatalogKeeps, SendKeeps, MarkKeeps, ChunkKeeps, FinishKeeps, BreakKeeps,
       OthersKeep DEF Step
  <2> QED
    BY <2>1, <2>2
<1> QED
  BY <1>1, <1>2, LoginKeeps, RefreshAuthKeeps, OthersKeep DEF Next

\* The inductive invariant: every stored, loaded and tried token was minted,
\* the active account is a linked one, and every request stands to what it
\* tried and saw refused as its place in the loop says (accounts.ts, stream.ts).
THEOREM AntigravityHolds ==
    ASSUME AntigravityAssumption
    PROVE  Spec => []AntigravityInv
BY AntigravityInit, AntigravityNext, PTL DEF Spec

\* However many accounts fail over, refresh or run out, and whatever logins,
\* removals and discoveries write meanwhile, a request is sent again only while
\* nothing of an answer has reached the caller, and never with a token that it
\* has seen refused (runAntigravityStream).
THEOREM NothingIsReplayed ==
    ASSUME AntigravityAssumption
    PROVE  Spec => []NoReplay
<1>1. AntigravityInv => NoReplay
  BY DEF AntigravityInv, NoReplay, Fits, Asking
<1> QED
  BY <1>1, AntigravityHolds, PTL

----------------------------------------------------------------------------
(* The client of Gemini Web.  Who holds the lock of the file knows what it  *)
(* says, so that a rotation it is due for was not made today; a task that   *)
(* goes on, a page and the file keep what they know of an identity.         *)

Grows == \A p \in Processes : Gemini!GoodClient(client[p]) => Gemini!GoodClient(client'[p])

\* Only the holder of the lock writes the credential.
HeldStays(t) ==
  \A u \in Tasks : u # t /\ gwTask[u] # None /\ gwTask[u].stage \in Gemini!Held =>
    gwLock' = gwLock /\ credentials' = credentials

LEMMA FileStays ==
    ASSUME Gemini!FileFits, UNCHANGED <<credentials, day, imports, rotations>>,
           issued' \in [ts : 0..MaxTokens, cc : 0..MaxTokens]
    PROVE  Gemini!FileFits'
BY DEF Gemini!FileFits

LEMMA FileRewritten ==
    ASSUME Gemini!GeminiAssumption, Gemini!FileFits, UNCHANGED <<day, imports, rotations>>,
           issued' \in [ts : 0..MaxTokens, cc : 0..MaxTokens], Gemini!GoodCred(credentials'),
           credentials # None, credentials'.rev = credentials.rev,
           credentials'.lastRotationAt = credentials.lastRotationAt
    PROVE  Gemini!FileFits'
BY DEF Gemini!FileFits

LEMMA ClientsStay ==
    ASSUME Gemini!ClientsFit, UNCHANGED client
    PROVE  Gemini!ClientsFit' /\ Grows
BY DEF Gemini!ClientsFit, Grows

LEMMA ClientSet ==
    ASSUME Gemini!ClientsFit, NEW p \in Processes, NEW c, client' = [client EXCEPT ![p] = c],
           Gemini!GoodClient(c)
    PROVE  Gemini!ClientsFit' /\ Grows /\ client'[p] = c
<1>1. client = [q \in Processes |-> client[q]]
  BY DEF Gemini!ClientsFit
<1>2. client' = [q \in Processes |-> IF q = p THEN c ELSE client[q]]
  BY <1>1
<1>3. client'[p] = c /\ \A q \in Processes : q # p => client'[q] = client[q]
  BY <1>2
<1> QED
  BY <1>2, <1>3 DEF Gemini!ClientsFit, Grows

LEMMA ClientGone ==
    ASSUME Gemini!ClientsFit, NEW p \in Processes, client' = [client EXCEPT ![p] = None]
    PROVE  Gemini!ClientsFit' /\ \A q \in Processes : q # p => client'[q] = client[q]
<1>1. client = [q \in Processes |-> client[q]]
  BY DEF Gemini!ClientsFit
<1>2. client' = [q \in Processes |-> IF q = p THEN None ELSE client[q]]
  BY <1>1
<1> QED
  BY <1>2 DEF Gemini!ClientsFit

LEMMA OneTask ==
    ASSUME Gemini!TasksFit, NEW t \in Tasks, NEW x, gwTask' = [gwTask EXCEPT ![t] = x],
           x = None \/ Gemini!Fits(t)', Grows, HeldStays(t), UNCHANGED day
    PROVE  Gemini!TasksFit'
<1>1. gwTask = [u \in Tasks |-> gwTask[u]]
  BY DEF Gemini!TasksFit
<1>2. gwTask' = [u \in Tasks |-> IF u = t THEN x ELSE gwTask[u]]
  BY <1>1
<1>3. gwTask'[t] = x /\ gwTask' = [u \in Tasks |-> gwTask'[u]] /\ \A u \in Tasks : u # t =>
        gwTask'[u] = gwTask[u]
  BY <1>2
<1>4. ASSUME NEW u \in Tasks, u # t, gwTask[u] # None
      PROVE  Gemini!Fits(u)'
  <2>1. Gemini!Fits(u) /\ gwTask'[u] = gwTask[u]
    BY <1>3, <1>4 DEF Gemini!TasksFit
  <2>2. gwTask[u].p \in Processes
    BY <2>1 DEF Gemini!Fits, Gemini!GoodTask
  <2>3. ~gwTask'[u].closed /\ gwTask'[u].kind \in {"generate", "refresh"} =>
          Gemini!GoodClient(client'[gwTask'[u].p])
    BY <2>1, <2>2 DEF Gemini!Fits, Grows
  <2>4. gwTask'[u].stage \in Gemini!Held => gwLock' = u /\ credentials' = gwTask'[u].cred
    BY <1>4, <2>1 DEF Gemini!Fits, HeldStays
  <2>5. Gemini!GoodTask(gwTask'[u])
    BY <2>1 DEF Gemini!Fits
  <2>6. (gwTask[u].stage = "rotate" => Gemini!Due(gwTask[u].cred))'
    BY <2>1 DEF Gemini!Fits, Gemini!Due
  <2> QED
    BY <2>3, <2>4, <2>5, <2>6 DEF Gemini!Fits
<1> QED
  BY <1>3, <1>4 DEF Gemini!TasksFit

LEMMA RunningFits ==
    ASSUME Gemini!GeminiInv, NEW t \in Tasks, gwTask[t] # None
    PROVE  /\ Gemini!Fits(t) /\ Gemini!GoodTask(gwTask[t]) /\ gwTask[t].p \in Processes
           /\ gwTask[t].kind \in Gemini!Kinds /\ gwTask[t].stage \in Gemini!Stages
           /\ gwTask[t].closed \in BOOLEAN
           /\ gwTask[t].stage # "lock" =>
                Gemini!GoodCred(gwTask[t].cred) /\ gwTask[t].kind \in {"generate", "refresh"}
           /\ Gemini!Live(t) /\ gwTask[t].kind \in {"generate", "refresh"} =>
                Gemini!GoodClient(client[gwTask[t].p])
           /\ gwTask = [u \in Tasks |-> gwTask[u]]
<1>1. Gemini!Fits(t) /\ gwTask = [u \in Tasks |-> gwTask[u]]
  BY DEF Gemini!GeminiInv, Gemini!TasksFit
<1>2. Gemini!GoodTask(gwTask[t])
  BY <1>1 DEF Gemini!Fits
<1> QED
  BY <1>1, <1>2 DEF Gemini!Fits, Gemini!GoodTask, Gemini!Live

\* The next record of a task.
Sent(x, stage, cookie) == [x EXCEPT !.stage = stage, !.cookie = cookie]
Locked(x, stage, cred) == [x EXCEPT !.stage = stage, !.cred = cred]

LEMMA NextStage ==
    ASSUME NEW x, Gemini!GoodTask(x), NEW stage \in Gemini!Stages,
           NEW cookie \in Gemini!Cookies \cup {None},
           stage # "lock" => Gemini!GoodCred(x.cred) /\ x.kind \in {"generate", "refresh"},
           stage \in {"storeBack", "send"} =>
             cookie \in Gemini!Cookies /\ cookie.rev = x.cred.rev,
           NEW y, y = Sent(x, stage, cookie)
    PROVE  /\ Gemini!GoodTask(y) /\ y.kind = x.kind /\ y.p = x.p /\ y.stage = stage
           /\ y.closed = x.closed /\ y.cred = x.cred /\ y.cookie = cookie
BY DEF Gemini!GoodTask, Sent

LEMMA NextCred ==
    ASSUME NEW x, Gemini!GoodTask(x), NEW stage \in Gemini!Held \cup {"verify"}, NEW cred,
           Gemini!GoodCred(cred),
           x.kind \in {"generate", "refresh"},
           NEW y, y = Locked(x, stage, cred)
    PROVE  /\ Gemini!GoodTask(y) /\ y.kind = x.kind /\ y.p = x.p /\ y.stage = stage
           /\ y.closed = x.closed /\ y.cred = cred
BY DEF Gemini!GoodTask, Gemini!Held, Gemini!Stages, Gemini!GoodCred, Locked

LEMMA ClientExcept ==
    ASSUME NEW c, NEW a, NEW b, c = [cache |-> a, setup |-> b], NEW q
    PROVE  [c EXCEPT !.setup = q] = [cache |-> a, setup |-> q]
<1> DEFINE d == [cache |-> a, setup |-> b]
<1>1. [d EXCEPT !.setup = q] = [cache |-> a, setup |-> q]
  OBVIOUS
<1> QED
  BY <1>1

LEMMA ReleaseKeeps ==
    ASSUME Gemini!GeminiInv, NEW t \in Tasks, gwTask[t] # None, gwTask[t].kind \in {"generate",
           "refresh"},
           Gemini!Release(t)
    PROVE  Gemini!ClientsFit' /\ Grows
<1>1. CASE ~Gemini!Live(t)
  BY <1>1, ClientsStay DEF Gemini!Release, Gemini!GeminiInv
<1>2. CASE Gemini!Live(t)
  <2> DEFINE p == gwTask[t].p
             c == [client[p] EXCEPT !.setup = Tail(@)]
  <2>1. p \in Processes /\ Gemini!GoodClient(client[p]) /\ Gemini!ClientsFit
    BY <1>2, RunningFits DEF Gemini!GeminiInv
  <2>2. client' = [client EXCEPT ![p] = c]
    BY <1>2, <2>1 DEF Gemini!Release, Gemini!ClientsFit
  <2>3. Gemini!GoodClient(c)
    <3>1. PICK a, b : a = client[p].cache /\ client[p] = [cache |-> a, setup |-> b]
      BY <2>1 DEF Gemini!GoodClient
    <3>2. PICK q : q = Tail(client[p].setup)
      OBVIOUS
    <3>3. c = [client[p] EXCEPT !.setup = q]
      BY <3>2
    <3>4. c = [cache |-> a, setup |-> q]
      BY ONLY <3>1, <3>3, ClientExcept
    <3> QED
      BY <2>1, <3>1, <3>4 DEF Gemini!GoodClient
  <2> HIDE DEF c, p
  <2> QED
    BY <2>1, <2>2, <2>3, ClientSet
<1> QED
  BY <1>1, <1>2

LEMMA BootstrapKeeps ==
    ASSUME Gemini!GeminiInv, NEW t \in Tasks, gwTask[t] # None,
           NEW cred, Gemini!GoodCred(cred), NEW cookie \in Gemini!Cookies, cookie.rev = cred.rev,
           NEW setup,
           Gemini!CacheBootstrap(t, cred, cookie, setup)
    PROVE  Gemini!ClientsFit' /\ Grows
<1>1. CASE ~Gemini!Live(t)
  BY <1>1, ClientsStay DEF Gemini!CacheBootstrap, Gemini!GeminiInv
<1>2. CASE Gemini!Live(t)
  <2> DEFINE c == [cache |-> [rev |-> cred.rev, cookie |-> cookie], setup |-> setup]
  <2>1. Gemini!GoodClient(c)
    <3>1. [rev |-> cred.rev, cookie |-> cookie] \in [rev : Gemini!Revs, cookie : Gemini!Cookies]
      BY DEF Gemini!GoodCred, Gemini!Credentials
    <3> QED
      BY <3>1 DEF Gemini!GoodClient
  <2>2. gwTask[t].p \in Processes /\ Gemini!ClientsFit
    BY RunningFits DEF Gemini!GeminiInv
  <2>3. client' = [client EXCEPT ![gwTask[t].p] = c]
    BY <1>2 DEF Gemini!CacheBootstrap
  <2> HIDE DEF c
  <2> QED
    BY <2>1, <2>2, <2>3, ClientSet
<1> QED
  BY <1>1, <1>2

\* Without the lock nobody holds it.
LEMMA NoneHolds ==
    ASSUME Gemini!GeminiAssumption, Gemini!GeminiInv, gwLock = None
    PROVE  \A u \in Tasks : gwTask[u] # None => gwTask[u].stage \notin Gemini!Held
BY DEF Gemini!GeminiAssumption, Gemini!GeminiInv, Gemini!TasksFit, Gemini!Fits

LEMMA OneHolds ==
    ASSUME Gemini!GeminiInv, NEW t \in Tasks, gwTask[t] # None, gwTask[t].stage \in Gemini!Held
    PROVE  \A u \in Tasks : u # t /\ gwTask[u] # None => gwTask[u].stage \notin Gemini!Held
BY DEF Gemini!GeminiInv, Gemini!TasksFit, Gemini!Fits

LEMMA IssuedGood ==
    ASSUME Gemini!GeminiAssumption, Gemini!GeminiInv, NEW k \in Gemini!Cookies,
           NEW cookie \in Gemini!Issued(k)
    PROVE  /\ cookie \in Gemini!Cookies /\ cookie.rev = k.rev
           /\ cookie # k =>
                [issued EXCEPT !.cc = @ + 1] \in [ts : 0..MaxTokens, cc : 0..MaxTokens]
<1>1. issued \in [ts : 0..MaxTokens, cc : 0..MaxTokens] /\ MaxTokens \in Nat
  BY DEF Gemini!GeminiInv, Gemini!FileFits, Gemini!GeminiAssumption
<1>2. CASE cookie = k
  BY <1>2
<1>3. CASE issued.cc < MaxTokens /\ cookie = [k EXCEPT !.cc = issued.cc + 1]
  <2>1. issued.cc + 1 \in 0..MaxTokens
    BY <1>1, <1>3
  <2> QED
    BY <1>1, <1>3, <2>1 DEF Gemini!Cookies
<1> QED
  BY <1>2, <1>3 DEF Gemini!Issued

LEMMA GoesOn ==
    ASSUME Gemini!GeminiInv, NEW t \in Tasks, gwTask[t] # None, NEW y, Gemini!GoodTask(y),
           y.p = gwTask[t].p,
           y.closed = gwTask[t].closed, y.kind = gwTask[t].kind, y.kind \in {"generate", "refresh"},
           gwTask' = [gwTask EXCEPT ![t] = y], Grows, HeldStays(t), UNCHANGED day,
           y.stage \in Gemini!Held => gwLock' = t /\ credentials' = y.cred,
           (y.stage = "rotate" => Gemini!Due(y.cred))'
    PROVE  Gemini!TasksFit'
<1>1. gwTask'[t] = y
  BY RunningFits
<1>2. ~y.closed => Gemini!GoodClient(client'[y.p])
  BY RunningFits DEF Grows, Gemini!Live
<1>3. Gemini!Fits(t)'
  BY <1>1, <1>2 DEF Gemini!Fits
<1> QED
  BY <1>3, OneTask DEF Gemini!GeminiInv

LEMMA TaskEnds ==
    ASSUME Gemini!GeminiInv, NEW t \in Tasks, Gemini!Finish(t), Grows, HeldStays(t),
           UNCHANGED day
    PROVE  Gemini!TasksFit'
BY OneTask DEF Gemini!GeminiInv, Gemini!Finish

LEMMA StageSet ==
    ASSUME NEW x, Gemini!GoodTask(x), NEW stage \in Gemini!Stages \ {"storeBack", "send",
           "lock"},
           Gemini!GoodCred(x.cred) /\ x.kind \in {"generate", "refresh"},
           NEW y, y = [x EXCEPT !.stage = stage]
    PROVE  /\ Gemini!GoodTask(y) /\ y.kind = x.kind /\ y.p = x.p /\ y.stage = stage
           /\ y.closed = x.closed /\ y.cred = x.cred
BY DEF Gemini!GoodTask

LEMMA OpenedKeeps ==
    ASSUME Gemini!GeminiInv, NEW p \in Processes, client' = Gemini!Opened(p)
    PROVE  Gemini!ClientsFit' /\ Grows /\ Gemini!GoodClient(client'[p])
<1>1. CASE client[p] = None
  <2>1. Gemini!GoodClient(Gemini!NewClient)
    BY DEF Gemini!GoodClient, Gemini!NewClient
  <2> QED
    BY <1>1, <2>1, ClientSet DEF Gemini!Opened, Gemini!GeminiInv
<1>2. CASE client[p] # None
  BY <1>2, ClientsStay DEF Gemini!Opened, Gemini!GeminiInv, Gemini!ClientsFit
<1> QED
  BY <1>1, <1>2

LEMMA BeginKeeps ==
    ASSUME Gemini!GeminiInv, NEW t \in Tasks, NEW p \in Processes, NEW kind \in {"generate",
           "refresh"},
           NEW stage \in {"cache", "lock"}, NEW cred \in Gemini!Credentials \cup {None},
           stage = "cache" =>
             Gemini!GoodCred(cred), Gemini!Begin(t, p, kind, stage, cred), Grows,
           Gemini!GoodClient(client'[p]), UNCHANGED <<credentials, gwLock, day>>
    PROVE  Gemini!TasksFit'
<1> DEFINE y == [kind |-> kind, p |-> p, stage |-> stage, closed |-> FALSE, cred |-> cred,
                 cookie |-> None]
<1>1. gwTask' = [gwTask EXCEPT ![t] = y] /\ gwTask = [u \in Tasks |-> gwTask[u]]
  BY DEF Gemini!Begin, Gemini!GeminiInv, Gemini!TasksFit
<1>2. Gemini!GoodTask(y) /\ y.p = p /\ y.stage = stage
  BY DEF Gemini!GoodTask, Gemini!Kinds, Gemini!Stages
<1> HIDE DEF y
<1>3. Gemini!Fits(t)'
  BY <1>1, <1>2 DEF Gemini!Fits, Gemini!Held
<1>4. HeldStays(t)
  BY DEF HeldStays
<1> QED
  BY <1>1, <1>3, <1>4, OneTask DEF Gemini!GeminiInv

LEMMA GenerateKeeps ==
    ASSUME Gemini!GeminiAssumption, Gemini!GeminiInv, NEW t \in Tasks, NEW p \in Processes,
           Gemini!Generate(t, p)
    PROVE  Gemini!GeminiInv'
<1>1. credentials \in Gemini!Credentials /\ Gemini!GoodCred(credentials) /\ Gemini!FileFits
  BY DEF Gemini!GeminiInv, Gemini!FileFits, Gemini!Generate, Gemini!GoodCred
<1>2. Gemini!ClientsFit' /\ Grows /\ Gemini!GoodClient(client'[p])
  BY OpenedKeeps DEF Gemini!Generate
<1>3. Gemini!TasksFit'
  BY <1>1, <1>2, BeginKeeps DEF Gemini!Generate
<1>4. Gemini!FileFits'
  BY <1>1 DEF Gemini!Generate, Gemini!FileFits
<1> QED
  BY <1>2, <1>3, <1>4 DEF Gemini!GeminiInv

LEMMA RefreshStartKeeps ==
    ASSUME Gemini!GeminiAssumption, Gemini!GeminiInv, NEW t \in Tasks, NEW p \in Processes,
           Gemini!RefreshStart(t, p)
    PROVE  Gemini!GeminiInv'
<1>2. Gemini!ClientsFit' /\ Grows /\ Gemini!GoodClient(client'[p])
  BY OpenedKeeps DEF Gemini!RefreshStart
<1>3. Gemini!TasksFit'
  BY <1>2, BeginKeeps DEF Gemini!RefreshStart
<1>4. Gemini!FileFits'
  BY DEF Gemini!GeminiInv, Gemini!RefreshStart, Gemini!FileFits
<1> QED
  BY <1>2, <1>3, <1>4 DEF Gemini!GeminiInv

\* What the steps that leave the file alone have in common.
LEMMA FileUnchanged ==
    ASSUME Gemini!GeminiInv, NEW t \in Tasks, UNCHANGED <<credentials, gwLock, issued, day,
           imports, rotations>>
    PROVE  Gemini!FileFits' /\ HeldStays(t)
BY DEF Gemini!GeminiInv, Gemini!FileFits, HeldStays

LEMMA CacheHitKeeps ==
    ASSUME Gemini!GeminiAssumption, Gemini!GeminiInv, NEW t \in Tasks, Gemini!CacheHit(t)
    PROVE  Gemini!GeminiInv'
<1> DEFINE p == gwTask[t].p
<1>1. /\ gwTask[t] # None /\ gwTask[t].stage \in {"cache", "queue"} /\ Gemini!Live(t)
      /\ Gemini!Usable(t)
      /\ UNCHANGED client \/ Gemini!Release(t)
      /\ UNCHANGED <<credentials, gwLock, issued, day, imports, rotations>>
  BY DEF Gemini!CacheHit, Gemini!At
<1>2. /\ Gemini!GoodTask(gwTask[t]) /\ Gemini!GoodCred(gwTask[t].cred)
      /\ gwTask[t].kind \in {"generate", "refresh"}
      /\ Gemini!GoodClient(client[p]) /\ gwTask = [u \in Tasks |-> gwTask[u]]
  BY <1>1, RunningFits
<1>3. PICK cookie \in Gemini!Cookies :
        cookie = client[p].cache.cookie /\ cookie.rev = gwTask[t].cred.rev
  BY <1>1, <1>2 DEF Gemini!Usable, Gemini!GoodClient
<1> PICK y : y = Sent(gwTask[t], "send", cookie)
  OBVIOUS
<1>4. Gemini!ClientsFit' /\ Grows
  BY <1>1, <1>2, ReleaseKeeps, ClientsStay DEF Gemini!GeminiInv
<1>5. gwTask' = [gwTask EXCEPT ![t] = y]
  BY <1>2, <1>3 DEF Gemini!CacheHit, Sent
<1>6. Gemini!GoodTask(y) /\ y.kind = gwTask[t].kind /\ y.p = p /\ y.stage = "send"
      /\ y.closed = gwTask[t].closed
  BY <1>2, <1>3, NextStage DEF Gemini!Stages
<1> HIDE DEF p
<1>7. y.p = gwTask[t].p
  BY <1>6 DEF p
<1>8. Gemini!TasksFit'
  BY <1>1, <1>2, <1>4, <1>5, <1>6, <1>7, FileUnchanged, GoesOn DEF Gemini!Held
<1> QED
  BY <1>1, <1>4, <1>8, FileUnchanged DEF Gemini!GeminiInv

LEMMA SetupLockKeeps ==
    ASSUME Gemini!GeminiAssumption, Gemini!GeminiInv, NEW t \in Tasks,
           Gemini!SetupLock(t) \/ Gemini!CacheMiss(t)
    PROVE  Gemini!GeminiInv'
<1> DEFINE p == gwTask[t].p
           stage == gwTask'[t].stage
           y == [gwTask[t] EXCEPT !.stage = stage]
           c == [client[p] EXCEPT !.setup = Append(@, t)]
<1>1. /\ gwTask[t] # None /\ gwTask[t].stage \in {"cache", "queue"}
      /\ UNCHANGED client \/ (Gemini!Live(t) /\ client' = [client EXCEPT ![p].setup = Append(@, t)])
      /\ UNCHANGED <<credentials, gwLock, issued, day, imports, rotations>>
      /\ Gemini!Goto(t, "queue") \/ Gemini!Goto(t, "bootstrap")
  BY DEF Gemini!SetupLock, Gemini!CacheMiss, Gemini!At
<1>2. /\ Gemini!GoodTask(gwTask[t]) /\ Gemini!GoodCred(gwTask[t].cred)
      /\ gwTask[t].kind \in {"generate", "refresh"}
      /\ gwTask = [u \in Tasks |-> gwTask[u]] /\ p \in Processes
      /\ Gemini!Live(t) => Gemini!GoodClient(client[p])
  BY <1>1, RunningFits
<1>3. /\ gwTask' = [gwTask EXCEPT ![t] = y] /\ stage \in {"queue", "bootstrap"}
  BY <1>1, <1>2 DEF Gemini!Goto, Gemini!GoodTask
<1>4. Gemini!ClientsFit' /\ Grows
  <2>1. CASE UNCHANGED client
    BY <2>1, ClientsStay DEF Gemini!GeminiInv
  <2>2. CASE Gemini!Live(t) /\ client' = [client EXCEPT ![p].setup = Append(@, t)]
    <3>1. PICK a, b : a = client[p].cache /\ client[p] = [cache |-> a, setup |-> b]
      BY <1>2, <2>2 DEF Gemini!GoodClient
    <3>2. PICK q : q = Append(client[p].setup, t)
      OBVIOUS
    <3>3. c = [client[p] EXCEPT !.setup = q]
      BY <3>2
    <3>4. c = [cache |-> a, setup |-> q]
      BY ONLY <3>1, <3>3, ClientExcept
    <3>5. Gemini!GoodClient(c)
      BY <1>2, <2>2, <3>1, <3>4 DEF Gemini!GoodClient
    <3>6. client' = [client EXCEPT ![p] = c] /\ Gemini!ClientsFit
      BY <2>2 DEF Gemini!GeminiInv, Gemini!ClientsFit
    <3> HIDE DEF c, p
    <3> QED
      BY <1>2, <3>5, <3>6, ClientSet
  <2> QED
    BY <1>1, <2>1, <2>2
<1>6. Gemini!GoodTask(y) /\ y.kind = gwTask[t].kind /\ y.p = p /\ y.stage = stage
      /\ y.closed = gwTask[t].closed
  <2> HIDE DEF stage, p
  <2>1. stage \in Gemini!Stages \ {"storeBack", "send", "lock"}
    BY <1>3 DEF Gemini!Stages
  <2> QED
    BY <1>2, <2>1, StageSet DEF p
<1>7. Gemini!TasksFit'
  <2>1. y.stage \notin Gemini!Held /\ y.stage # "rotate"
    BY <1>3, <1>6 DEF Gemini!Held
  <2> HIDE DEF y, stage
  <2> QED
    BY <1>1, <1>2, <1>3, <1>4, <1>6, <2>1, FileUnchanged, GoesOn
<1> QED
  BY <1>1, <1>4, <1>7, FileUnchanged DEF Gemini!GeminiInv

LEMMA GivesUpKeeps ==
    ASSUME Gemini!GeminiAssumption, Gemini!GeminiInv, NEW t \in Tasks,
           Gemini!BootstrapFails(t) \/ Gemini!Answered(t) \/ Gemini!LockTimeout(t)
    PROVE  Gemini!GeminiInv'
<1> DEFINE p == gwTask[t].p
           c == [client[p] EXCEPT !.cache = None]
<1>1. /\ gwTask[t] # None /\ Gemini!Finish(t)
      /\ UNCHANGED <<credentials, gwLock, issued, day, imports, rotations>>
      /\ \/ UNCHANGED client \/ (gwTask[t].stage # "lock" /\ Gemini!Release(t))
         \/ gwTask[t].stage = "send" /\ Gemini!Live(t)
            /\ client' = [client EXCEPT ![p].cache = None]
  BY DEF Gemini!BootstrapFails, Gemini!Answered, Gemini!LockTimeout, Gemini!At
<1>2. /\ gwTask[t].stage # "lock" => gwTask[t].kind \in {"generate", "refresh"}
      /\ p \in Processes
      /\ gwTask[t].stage # "lock" /\ Gemini!Live(t) => Gemini!GoodClient(client[p])
  BY <1>1, RunningFits
<1>3. Gemini!ClientsFit' /\ Grows
  <2>1. CASE UNCHANGED client
    BY <2>1, ClientsStay DEF Gemini!GeminiInv
  <2>2. CASE gwTask[t].stage # "lock" /\ Gemini!Release(t)
    BY <1>1, <1>2, <2>2, ReleaseKeeps
  <2>3. CASE /\ gwTask[t].stage = "send" /\ Gemini!Live(t)
             /\ client' = [client EXCEPT ![p].cache = None]
    <3>1. PICK a, b : client[p] = [cache |-> a, setup |-> b]
      BY <1>2, <2>3 DEF Gemini!GoodClient
    <3>2. c = [cache |-> None, setup |-> b]
      BY <3>1
    <3>3. Gemini!GoodClient(c)
      BY <3>2 DEF Gemini!GoodClient
    <3>4. client' = [client EXCEPT ![p] = c] /\ Gemini!ClientsFit
      BY <2>3 DEF Gemini!GeminiInv, Gemini!ClientsFit
    <3> HIDE DEF c, p
    <3> QED
      BY <1>2, <3>3, <3>4, ClientSet
  <2> QED
    BY <1>1, <2>1, <2>2, <2>3
<1>4. Gemini!TasksFit'
  BY <1>1, <1>3, FileUnchanged, TaskEnds
<1> QED
  BY <1>1, <1>3, <1>4, FileUnchanged DEF Gemini!GeminiInv

LEMMA BootstrapStepKeeps ==
    ASSUME Gemini!GeminiAssumption, Gemini!GeminiInv, NEW t \in Tasks, Gemini!Bootstrap(t)
    PROVE  Gemini!GeminiInv'
<1>1. /\ gwTask[t] # None /\ gwTask[t].stage = "bootstrap"
      /\ UNCHANGED <<credentials, gwLock, day, imports, rotations>>
  BY DEF Gemini!Bootstrap, Gemini!At
<1>2. /\ Gemini!GoodTask(gwTask[t]) /\ Gemini!GoodCred(gwTask[t].cred)
      /\ gwTask[t].kind \in {"generate", "refresh"}
      /\ gwTask = [u \in Tasks |-> gwTask[u]]
  BY <1>1, RunningFits
<1>3. gwTask[t].cred.cookie \in Gemini!Cookies /\ gwTask[t].cred.cookie.rev = gwTask[t].cred.rev
  BY <1>2 DEF Gemini!GoodCred, Gemini!Credentials
<1>4. PICK cookie \in Gemini!Issued(gwTask[t].cred.cookie) :
        \E setup : \E stage \in {"storeBack", "send"} :
          /\ Gemini!CacheBootstrap(t, gwTask[t].cred, cookie, setup)
          /\ issued' = IF cookie # gwTask[t].cred.cookie THEN [issued EXCEPT !.cc = @ + 1]
                     ELSE issued
          /\ gwTask' = [gwTask EXCEPT ![t].cookie = cookie, ![t].stage = stage]
  BY DEF Gemini!Bootstrap
<1>5. PICK setup : \E stage \in {"storeBack", "send"} :
          /\ Gemini!CacheBootstrap(t, gwTask[t].cred, cookie, setup)
          /\ issued' = IF cookie # gwTask[t].cred.cookie THEN [issued EXCEPT !.cc = @ + 1]
                     ELSE issued
          /\ gwTask' = [gwTask EXCEPT ![t].cookie = cookie, ![t].stage = stage]
  BY <1>4
<1>6. PICK stage \in {"storeBack", "send"} :
          /\ Gemini!CacheBootstrap(t, gwTask[t].cred, cookie, setup)
          /\ issued' = IF cookie # gwTask[t].cred.cookie THEN [issued EXCEPT !.cc = @ + 1]
                     ELSE issued
          /\ gwTask' = [gwTask EXCEPT ![t].cookie = cookie, ![t].stage = stage]
  BY <1>5
<1>7. cookie \in Gemini!Cookies /\ cookie.rev = gwTask[t].cred.rev
      /\ issued' \in [ts : 0..MaxTokens, cc : 0..MaxTokens]
  BY <1>3, <1>6, IssuedGood DEF Gemini!GeminiInv, Gemini!FileFits
<1>8. Gemini!ClientsFit' /\ Grows
  BY <1>1, <1>2, <1>6, <1>7, BootstrapKeeps
<1> PICK y : y = Sent(gwTask[t], stage, cookie)
  OBVIOUS
<1>9. gwTask' = [gwTask EXCEPT ![t] = y]
  BY <1>2, <1>6 DEF Sent
<1>10. /\ Gemini!GoodTask(y) /\ y.kind = gwTask[t].kind /\ y.p = gwTask[t].p /\ y.stage = stage
       /\ y.closed = gwTask[t].closed
  BY <1>2, <1>7, NextStage DEF Gemini!Stages
<1>11. Gemini!TasksFit'
  <2>1. HeldStays(t) /\ y.stage \notin Gemini!Held /\ y.stage # "rotate"
    BY <1>1, <1>10 DEF HeldStays, Gemini!Held
  <2> QED
    BY <1>1, <1>2, <1>8, <1>9, <1>10, <2>1, GoesOn
<1> QED
  BY <1>1, <1>7, <1>8, <1>11, FileStays DEF Gemini!GeminiInv

\* New cookies go to the credential of their own identity.
LEMMA StoreBackKeeps ==
    ASSUME Gemini!GeminiAssumption, Gemini!GeminiInv, NEW t \in Tasks, Gemini!StoreBack(t)
    PROVE  Gemini!GeminiInv'
<1>1. /\ gwTask[t] # None /\ gwTask[t].stage = "storeBack" /\ gwLock = None
      /\ credentials' = Gemini!WrittenBack(t)
      /\ Gemini!Release(t) /\ UNCHANGED <<issued, day, imports, rotations>>
      /\ Gemini!Goto(t, "send") \/ Gemini!Finish(t)
  BY DEF Gemini!StoreBack, Gemini!At
<1>2. /\ Gemini!GoodTask(gwTask[t]) /\ Gemini!GoodCred(gwTask[t].cred)
      /\ gwTask[t].kind \in {"generate", "refresh"}
      /\ gwTask = [u \in Tasks |-> gwTask[u]]
  BY <1>1, RunningFits
<1>3. gwTask[t].cookie \in Gemini!Cookies /\ gwTask[t].cookie.rev = gwTask[t].cred.rev
  BY <1>1, <1>2 DEF Gemini!GoodTask
<1>4. Gemini!FileFits'
  <2>1. issued \in [ts : 0..MaxTokens, cc : 0..MaxTokens] /\ day \in Gemini!Days /\ Gemini!FileFits
    BY DEF Gemini!GeminiInv, Gemini!FileFits
  <2>2. CASE credentials' = credentials
    BY <1>1, <2>1, <2>2, FileStays
  <2>3. CASE /\ credentials # None /\ credentials.rev = gwTask[t].cred.rev
             /\ credentials' = [credentials EXCEPT !.cookie = gwTask[t].cookie, !.updatedAt = day]
    <3>1. Gemini!GoodCred(credentials)
      BY <2>1, <2>3 DEF Gemini!FileFits
    <3>2. Gemini!GoodCred(credentials') /\ credentials'.rev = credentials.rev
          /\ credentials'.lastRotationAt = credentials.lastRotationAt
      BY <1>3, <2>1, <2>3, <3>1 DEF Gemini!GoodCred, Gemini!Credentials
    <3> QED
      BY <1>1, <2>1, <2>3, <3>2, FileRewritten
  <2> QED
    BY <1>1, <2>2, <2>3 DEF Gemini!WrittenBack
<1>5. Gemini!ClientsFit' /\ Grows
  BY <1>1, <1>2, ReleaseKeeps
<1>6. HeldStays(t)
  BY <1>1, NoneHolds DEF HeldStays
<1>7. CASE Gemini!Finish(t)
  BY <1>1, <1>4, <1>5, <1>6, <1>7, TaskEnds DEF Gemini!GeminiInv
<1>8. CASE Gemini!Goto(t, "send")
  <2> PICK y : y = Sent(gwTask[t], "send", gwTask[t].cookie)
    OBVIOUS
  <2>1. gwTask' = [gwTask EXCEPT ![t] = y]
    <3>1. y = [gwTask[t] EXCEPT !.stage = "send"]
      BY <1>2 DEF Gemini!GoodTask, Sent
    <3> QED
      BY <1>2, <1>8, <3>1 DEF Gemini!Goto
  <2>2. /\ Gemini!GoodTask(y) /\ y.kind = gwTask[t].kind /\ y.p = gwTask[t].p
        /\ y.stage = "send"
        /\ y.closed = gwTask[t].closed
    BY <1>2, <1>3, NextStage DEF Gemini!Stages
  <2>3. Gemini!TasksFit'
    BY <1>1, <1>2, <1>5, <1>6, <2>1, <2>2, GoesOn DEF Gemini!Held
  <2> QED
    BY <1>4, <1>5, <2>3 DEF Gemini!GeminiInv
<1> QED
  BY <1>1, <1>7, <1>8

LEMMA RefreshLockedKeeps ==
    ASSUME Gemini!GeminiAssumption, Gemini!GeminiInv, NEW t \in Tasks, Gemini!RefreshLocked(t)
    PROVE  Gemini!GeminiInv'
<1>1. /\ gwTask[t] # None /\ gwTask[t].kind = "refresh" /\ gwLock = None
      /\ UNCHANGED <<credentials, client, issued, day, imports, rotations>>
  BY DEF Gemini!RefreshLocked, Gemini!At
<1>2. Gemini!FileFits' /\ Gemini!ClientsFit' /\ Grows
  BY <1>1, ClientsStay DEF Gemini!GeminiInv, Gemini!FileFits
<1>3. HeldStays(t)
  BY <1>1, NoneHolds DEF HeldStays
<1>4. CASE Gemini!Finish(t)
  BY <1>1, <1>2, <1>3, <1>4, TaskEnds DEF Gemini!GeminiInv
<1>5. CASE credentials # None /\ gwLock' = t
           /\ gwTask' = [gwTask EXCEPT ![t].cred = credentials,
                                   ![t].stage =
                                       IF Gemini!Due(credentials) THEN "rotate" ELSE "verify"]
  <2> PICK stage : stage = IF Gemini!Due(credentials) THEN "rotate" ELSE "verify"
    OBVIOUS
  <2> PICK y : y = Locked(gwTask[t], stage, credentials)
    OBVIOUS
  <2>1. Gemini!GoodTask(gwTask[t]) /\ gwTask = [u \in Tasks |-> gwTask[u]]
        /\ Gemini!GoodCred(credentials)
    BY <1>1, <1>5, RunningFits DEF Gemini!GeminiInv, Gemini!FileFits
  <2>2. stage \in {"rotate", "verify"} /\ (stage = "rotate" => Gemini!Due(credentials))
        /\ UNCHANGED credentials
    BY <1>1
  <2>3. gwTask' = [gwTask EXCEPT ![t] = y]
    BY <1>5, <2>1 DEF Locked
  <2>4. /\ Gemini!GoodTask(y) /\ y.kind = gwTask[t].kind /\ y.p = gwTask[t].p /\ y.stage = stage
        /\ y.closed = gwTask[t].closed /\ y.cred = credentials
    BY <1>1, <2>1, <2>2, NextCred DEF Gemini!Held
  <2>5. (y.stage = "rotate" => Gemini!Due(y.cred))'
    BY <1>1, <2>2, <2>4 DEF Gemini!Due
  <2>6. Gemini!TasksFit'
    BY <1>1, <1>2, <1>3, <1>5, <2>2, <2>3, <2>4, <2>5, GoesOn
  <2> QED
    BY <1>2, <2>6 DEF Gemini!GeminiInv
<1> QED
  BY <1>4, <1>5 DEF Gemini!RefreshLocked

\* What the holder of the lock read is what the file says.
LEMMA HolderKnows ==
    ASSUME Gemini!GeminiAssumption, Gemini!GeminiInv, NEW t \in Tasks, gwTask[t] # None,
           gwTask[t].stage \in Gemini!Held
    PROVE  /\ gwLock = t /\ credentials = gwTask[t].cred /\ Gemini!GoodCred(credentials)
           /\ credentials # None
           /\ credentials.rev \in Gemini!Revs /\ credentials.rev <= imports
           /\ Gemini!GoodTask(gwTask[t]) /\ gwTask[t].kind \in {"generate", "refresh"}
           /\ HeldStays(t)
           /\ gwTask = [u \in Tasks |-> gwTask[u]]
<1>1. Gemini!Fits(t) /\ gwTask[t].stage # "lock"
  BY RunningFits DEF Gemini!Held
<1>2. gwLock = t /\ credentials = gwTask[t].cred
  BY <1>1 DEF Gemini!Fits
<1>3. Gemini!GoodCred(credentials) /\ credentials \in Gemini!Credentials /\ credentials # None
      /\ credentials.rev \in Gemini!Revs
  BY <1>1, <1>2, RunningFits DEF Gemini!GoodCred, Gemini!GeminiAssumption, Gemini!Credentials
<1>4. credentials.rev <= imports
  BY <1>3 DEF Gemini!GeminiInv, Gemini!FileFits
<1>5. HeldStays(t)
  BY OneHolds DEF HeldStays
<1> QED
  BY <1>1, <1>2, <1>3, <1>4, <1>5, RunningFits

\* A rotation is counted for the day, and noted with the credential.
RotatedCred(c, ts, at) == [c EXCEPT !.lastRotationAt = day, !.cookie.ts = ts, !.updatedAt = at]

LEMMA RotatedGood ==
    ASSUME Gemini!GeminiAssumption, NEW c, Gemini!GoodCred(c), NEW ts \in 0..MaxTokens,
           NEW at \in Gemini!Days,
           day \in Gemini!Days, NEW d, d = RotatedCred(c, ts, at)
    PROVE  Gemini!GoodCred(d) /\ d.rev = c.rev /\ d.lastRotationAt = day
<1>1. c \in Gemini!Credentials /\ c.cookie \in Gemini!Cookies
  BY DEF Gemini!GoodCred, Gemini!Credentials
<1> PICK k : k = [c.cookie EXCEPT !.ts = ts]
  OBVIOUS
<1>2. k \in Gemini!Cookies /\ k.rev = c.cookie.rev
  BY <1>1 DEF Gemini!Cookies
<1> PICK e : e = [c EXCEPT !.lastRotationAt = day]
  OBVIOUS
<1>3. /\ e \in Gemini!Credentials /\ e.rev = c.rev /\ e.lastRotationAt = day
      /\ e.models = c.models
      /\ e.cookie = c.cookie
  BY <1>1 DEF Gemini!Credentials
<1> PICK f : f = [e EXCEPT !.cookie = k]
  OBVIOUS
<1>4. /\ f \in Gemini!Credentials /\ f.rev = c.rev /\ f.lastRotationAt = day
      /\ f.models = c.models
      /\ f.cookie = k
  BY <1>2, <1>3 DEF Gemini!Credentials
<1>5. d = [f EXCEPT !.updatedAt = at]
  <2>1. f = [e EXCEPT !.cookie.ts = ts]
    BY <1>3
  <2> QED
    BY <2>1 DEF RotatedCred
<1> QED
  BY <1>2, <1>4, <1>5 DEF Gemini!GoodCred, Gemini!Credentials

LEMMA RotateKeeps ==
    ASSUME Gemini!GeminiAssumption, Gemini!GeminiInv, NEW t \in Tasks, Gemini!Rotate(t)
    PROVE  Gemini!GeminiInv'
<1>1. /\ gwTask[t] # None /\ gwTask[t].stage = "rotate"
      /\ UNCHANGED <<gwLock, client, day, imports>>
      /\ rotations' = [rotations EXCEPT ![<<gwTask[t].cred.rev, day>>] = @ + 1]
  BY DEF Gemini!Rotate, Gemini!At
<1>2. /\ gwLock = t /\ credentials = gwTask[t].cred /\ Gemini!GoodCred(credentials)
      /\ credentials # None
      /\ credentials.rev \in Gemini!Revs /\ credentials.rev <= imports
      /\ Gemini!GoodTask(gwTask[t]) /\ gwTask[t].kind \in {"generate", "refresh"}
      /\ HeldStays(t)
      /\ gwTask = [u \in Tasks |-> gwTask[u]] /\ Gemini!Due(credentials)
      /\ credentials \in Gemini!Credentials
  BY <1>1, HolderKnows, RunningFits DEF Gemini!Held, Gemini!Fits, Gemini!GoodCred
<1>3. /\ Gemini!FileFits
      /\ issued \in [ts : 0..MaxTokens, cc : 0..MaxTokens] /\ day \in Gemini!Days
      /\ imports \in 0..MaxImports /\ rotations \in [Gemini!Revs \X Gemini!Days -> 0..1]
      /\ MaxTokens \in Nat /\ MaxImports \in Nat /\ MaxDay \in Nat /\ None \notin Nat
  BY DEF Gemini!GeminiInv, Gemini!FileFits, Gemini!GeminiAssumption
<1>4. PICK rotated \in BOOLEAN :
        LET cred == RotatedCred(gwTask[t].cred,
                      IF rotated THEN issued.ts + 1 ELSE gwTask[t].cred.cookie.ts,
                      IF rotated THEN day ELSE gwTask[t].cred.updatedAt)
        IN  /\ rotated => issued.ts < MaxTokens
            /\ issued' = IF rotated THEN [issued EXCEPT !.ts = @ + 1] ELSE issued
            /\ credentials' = cred
            /\ gwTask' = [gwTask EXCEPT ![t].cred = cred, ![t].stage = "verify"]
  BY <1>2 DEF Gemini!Rotate, RotatedCred, Gemini!Credentials
<1>5. PICK ts, at : /\ ts = IF rotated THEN issued.ts + 1 ELSE gwTask[t].cred.cookie.ts
                    /\ at = IF rotated THEN day ELSE gwTask[t].cred.updatedAt
  OBVIOUS
<1>6. ts \in 0..MaxTokens /\ at \in Gemini!Days
  BY <1>2, <1>3, <1>4, <1>5 DEF Gemini!Credentials, Gemini!Cookies
<1>7. PICK cred : cred = RotatedCred(gwTask[t].cred, ts, at)
  OBVIOUS
<1>8. credentials' = cred /\ gwTask' = [gwTask EXCEPT ![t].cred = cred, ![t].stage = "verify"]
  BY <1>4, <1>5, <1>7
<1>9. Gemini!GoodCred(cred) /\ cred.rev = credentials.rev /\ cred.lastRotationAt = day
  <2>1. PICK c : c = gwTask[t].cred
    OBVIOUS
  <2>2. Gemini!GoodCred(c) /\ c.rev = credentials.rev /\ day \in Gemini!Days
    BY <1>2, <1>3, <2>1
  <2>3. cred = RotatedCred(c, ts, at)
    BY <1>7, <2>1
  <2> QED
    BY <2>2, <2>3, <1>6, RotatedGood
<1>10. issued' \in [ts : 0..MaxTokens, cc : 0..MaxTokens]
  BY <1>3, <1>4
<1>11. rotations[<<credentials.rev, day>>] = 0
  <2>1. credentials.lastRotationAt \in Gemini!Days \cup {None}
        /\ credentials.updatedAt \in Gemini!Days
    BY <1>2 DEF Gemini!Credentials
  <2>2. rotations[<<credentials.rev, day>>] > 0 =>
          credentials.lastRotationAt # None /\ day <= credentials.lastRotationAt
    BY <1>2, <1>3 DEF Gemini!FileFits
  <2>3. credentials.lastRotationAt # None => ~(day <= credentials.lastRotationAt)
    BY <1>2, <1>3, <2>1 DEF Gemini!Due, Gemini!Days
  <2>4. rotations[<<credentials.rev, day>>] \in 0..1
    BY <1>2, <1>3
  <2> QED
    BY <2>2, <2>3, <2>4
<1>12. /\ rotations' \in [Gemini!Revs \X Gemini!Days -> 0..1]
       /\ \A r \in Gemini!Revs, d \in Gemini!Days : rotations'[<<r, d>>] > 0 =>
            (r = credentials.rev /\ d = day) \/ rotations[<<r, d>>] > 0
  BY <1>1, <1>2, <1>3, <1>11
<1>13. \A d \in Gemini!Days : day \in Gemini!Days /\ (d <= day => d <= cred.lastRotationAt)
  BY <1>3, <1>9
<1>14. \A r \in Gemini!Revs, d \in Gemini!Days : rotations'[<<r, d>>] > 0 =>
         /\ d <= day /\ r <= imports
         /\ cred # None /\ cred.rev = r =>
              cred.lastRotationAt # None /\ d <= cred.lastRotationAt
  <2>1. day \in Nat /\ cred.lastRotationAt # None /\ day <= day
    BY <1>3, <1>9 DEF Gemini!Days
  <2>2. \A r \in Gemini!Revs, d \in Gemini!Days : rotations[<<r, d>>] > 0 =>
          d <= day /\ r <= imports
    BY <1>3 DEF Gemini!FileFits
  <2> QED
    BY <1>2, <1>9, <1>12, <2>1, <2>2
<1>15. Gemini!FileFits'
  BY <1>1, <1>2, <1>3, <1>8, <1>9, <1>10, <1>12, <1>14 DEF Gemini!FileFits
<1>16. Gemini!ClientsFit' /\ Grows
  BY <1>1, ClientsStay DEF Gemini!GeminiInv
<1> PICK y : y = Locked(gwTask[t], "verify", cred)
  OBVIOUS
<1>17. gwTask' = [gwTask EXCEPT ![t] = y]
  BY <1>2, <1>8 DEF Locked
<1>18. /\ Gemini!GoodTask(y) /\ y.kind = gwTask[t].kind /\ y.p = gwTask[t].p
       /\ y.stage = "verify"
       /\ y.closed = gwTask[t].closed /\ y.cred = cred
  BY <1>2, <1>9, NextCred DEF Gemini!Held
<1>19. Gemini!TasksFit'
  BY <1>1, <1>2, <1>8, <1>16, <1>17, <1>18, GoesOn
<1> QED
  BY <1>15, <1>16, <1>19 DEF Gemini!GeminiInv

Renewed(c, cookie, at) == [c EXCEPT !.cookie = cookie, !.updatedAt = at]

LEMMA RenewedGood ==
    ASSUME NEW c, Gemini!GoodCred(c), NEW cookie \in Gemini!Cookies, cookie.rev = c.rev,
           NEW at \in Gemini!Days,
           NEW d, d = Renewed(c, cookie, at)
    PROVE  Gemini!GoodCred(d) /\ d.rev = c.rev /\ d.lastRotationAt = c.lastRotationAt
BY DEF Gemini!GoodCred, Gemini!Credentials, Renewed

LEMMA VerifyKeeps ==
    ASSUME Gemini!GeminiAssumption, Gemini!GeminiInv, NEW t \in Tasks, Gemini!Verify(t)
    PROVE  Gemini!GeminiInv'
<1>1. /\ gwTask[t] # None /\ gwTask[t].stage = "verify"
      /\ UNCHANGED <<gwLock, day, imports, rotations>>
  BY DEF Gemini!Verify, Gemini!At
<1>2. /\ gwLock = t /\ credentials = gwTask[t].cred /\ Gemini!GoodCred(credentials)
      /\ credentials # None
      /\ Gemini!GoodTask(gwTask[t]) /\ gwTask[t].kind \in {"generate", "refresh"}
      /\ HeldStays(t)
      /\ gwTask = [u \in Tasks |-> gwTask[u]]
  BY <1>1, HolderKnows DEF Gemini!Held
<1>3. /\ credentials.cookie \in Gemini!Cookies /\ credentials.cookie.rev = credentials.rev
      /\ day \in Gemini!Days /\ Gemini!FileFits
      /\ issued \in [ts : 0..MaxTokens, cc : 0..MaxTokens]
  BY <1>2 DEF Gemini!GoodCred, Gemini!Credentials, Gemini!GeminiInv, Gemini!FileFits
<1>4. PICK cookie \in Gemini!Issued(credentials.cookie) :
        LET changed == cookie # credentials.cookie
            cred == IF changed THEN Renewed(credentials, cookie, day) ELSE credentials
        IN  /\ issued' = IF changed THEN [issued EXCEPT !.cc = @ + 1] ELSE issued
            /\ credentials' = IF changed THEN cred ELSE credentials
            /\ Gemini!CacheBootstrap(t, cred, cookie, client[gwTask[t].p].setup)
            /\ gwTask' = [gwTask EXCEPT ![t].cred = cred, ![t].stage = "discover"]
  BY <1>2 DEF Gemini!Verify, Renewed
<1>5. cookie \in Gemini!Cookies /\ cookie.rev = credentials.rev
      /\ issued' \in [ts : 0..MaxTokens, cc : 0..MaxTokens]
  BY <1>3, <1>4, IssuedGood
<1> PICK cred : cred = IF cookie # credentials.cookie THEN Renewed(credentials, cookie, day)
                       ELSE credentials
  OBVIOUS
<1>6. /\ credentials' = cred
      /\ Gemini!CacheBootstrap(t, cred, cookie, client[gwTask[t].p].setup)
      /\ gwTask' = [gwTask EXCEPT ![t].cred = cred, ![t].stage = "discover"]
  BY <1>4
<1>7. Gemini!GoodCred(cred) /\ cred.rev = credentials.rev
      /\ cred.lastRotationAt = credentials.lastRotationAt
  BY <1>2, <1>3, <1>5, RenewedGood
<1>8. Gemini!FileFits'
  BY <1>1, <1>2, <1>3, <1>5, <1>6, <1>7, FileRewritten
<1>9. Gemini!ClientsFit' /\ Grows
  BY <1>1, <1>5, <1>6, <1>7, BootstrapKeeps
<1> PICK y : y = Locked(gwTask[t], "discover", cred)
  OBVIOUS
<1>10. gwTask' = [gwTask EXCEPT ![t] = y]
  BY <1>2, <1>6 DEF Locked
<1>11. /\ Gemini!GoodTask(y) /\ y.kind = gwTask[t].kind /\ y.p = gwTask[t].p
       /\ y.stage = "discover"
       /\ y.closed = gwTask[t].closed /\ y.cred = cred
  BY <1>2, <1>7, NextCred DEF Gemini!Held
<1>12. Gemini!TasksFit'
  BY <1>1, <1>2, <1>6, <1>9, <1>10, <1>11, GoesOn
<1> QED
  BY <1>8, <1>9, <1>12 DEF Gemini!GeminiInv

LEMMA RefreshEndsKeeps ==
    ASSUME Gemini!GeminiAssumption, Gemini!GeminiInv, NEW t \in Tasks,
           Gemini!Discover(t) \/ Gemini!RefreshFails(t)
    PROVE  Gemini!GeminiInv'
<1>1. /\ gwTask[t] # None /\ gwTask[t].stage \in Gemini!Held /\ Gemini!Finish(t)
      /\ UNCHANGED <<client, issued, day, imports, rotations>>
      /\ \/ UNCHANGED credentials
         \/ credentials' = [gwTask[t].cred EXCEPT !.models = gwTask[t].cred.rev]
  BY DEF Gemini!Discover, Gemini!RefreshFails, Gemini!At, Gemini!Held
<1>2. /\ gwLock = t /\ credentials = gwTask[t].cred /\ Gemini!GoodCred(credentials)
      /\ credentials # None
      /\ Gemini!FileFits /\ issued \in [ts : 0..MaxTokens, cc : 0..MaxTokens]
  BY <1>1, HolderKnows DEF Gemini!GeminiInv, Gemini!FileFits
<1>3. Gemini!FileFits'
  <2>1. CASE UNCHANGED credentials
    BY <1>1, <1>2, <2>1, FileStays
  <2>2. CASE credentials' = [credentials EXCEPT !.models = credentials.rev]
    <3>1. Gemini!GoodCred(credentials') /\ credentials'.rev = credentials.rev
          /\ credentials'.lastRotationAt = credentials.lastRotationAt
      BY <1>2, <2>2 DEF Gemini!GoodCred, Gemini!Credentials
    <3> QED
      BY <1>1, <1>2, <3>1, FileRewritten
  <2> QED
    BY <1>1, <1>2, <2>1, <2>2
<1>4. Gemini!ClientsFit' /\ Grows
  BY <1>1, ClientsStay DEF Gemini!GeminiInv
<1>5. \A u \in Tasks : u # t /\ gwTask[u] # None => gwTask[u].stage \notin Gemini!Held
  BY <1>1, OneHolds
<1>6. HeldStays(t)
  BY <1>5 DEF HeldStays
<1>7. Gemini!TasksFit'
  BY <1>1, <1>4, <1>6, TaskEnds
<1> QED
  BY <1>3, <1>4, <1>7 DEF Gemini!GeminiInv

(* The commands and the process.                                           *)

Shut(x) == [x EXCEPT !.closed = TRUE]

LEMMA ShutGood ==
    ASSUME NEW x, Gemini!GoodTask(x), NEW y, y = Shut(x)
    PROVE  Gemini!GoodTask(y) /\ y.stage = x.stage /\ y.cred = x.cred /\ y.closed
BY DEF Gemini!GoodTask, Shut

LEMMA ClosedFits ==
    ASSUME Gemini!GeminiInv, NEW p \in Processes, NEW u \in Tasks,
           gwTask'[u] = Gemini!Closed(p, gwTask)[u],
           \A q \in Processes : q # p => client'[q] = client[q],
           gwTask[u] # None /\ gwTask[u].stage \in Gemini!Held =>
             gwLock' = gwLock /\ credentials' = credentials,
           UNCHANGED day
    PROVE  gwTask'[u] = None \/ Gemini!Fits(u)'
<1>1. CASE gwTask'[u] = None
  BY <1>1
<1>2. CASE gwTask[u] # None /\ gwTask[u].p # p /\ gwTask'[u] = gwTask[u]
  <2>1. Gemini!Fits(u) /\ gwTask[u].p \in Processes
    BY <1>2, RunningFits
  <2>2. (gwTask[u].stage = "rotate" => Gemini!Due(gwTask[u].cred))'
    BY <1>2, <2>1 DEF Gemini!Fits, Gemini!Due
  <2> QED
    BY <1>2, <2>1, <2>2 DEF Gemini!Fits
<1>3. CASE gwTask[u] # None /\ gwTask'[u] = Shut(gwTask[u])
  <2>1. Gemini!Fits(u) /\ Gemini!GoodTask(gwTask[u])
    BY <1>3, RunningFits
  <2>2. /\ Gemini!GoodTask(gwTask'[u]) /\ gwTask'[u].stage = gwTask[u].stage
        /\ gwTask'[u].cred = gwTask[u].cred
        /\ gwTask'[u].closed
    BY <1>3, <2>1, ShutGood
  <2>3. (gwTask[u].stage = "rotate" => Gemini!Due(gwTask[u].cred))'
    BY <2>1, <2>2 DEF Gemini!Fits, Gemini!Due
  <2>4. gwTask'[u].stage \in Gemini!Held => gwLock' = u /\ credentials' = gwTask'[u].cred
    BY <1>3, <2>1, <2>2 DEF Gemini!Fits
  <2> QED
    BY <2>2, <2>3, <2>4 DEF Gemini!Fits
<1> QED
  BY <1>1, <1>2, <1>3 DEF Gemini!Closed, Shut

Waiting(t, p, kind) ==
  [kind |-> kind, p |-> p, stage |-> "lock", closed |-> FALSE, cred |-> None, cookie |-> None]

LEMMA CommandKeeps ==
    ASSUME Gemini!GeminiAssumption, Gemini!GeminiInv, NEW t \in Tasks, NEW p \in Processes,
           NEW kind \in {"import", "logout"}, Gemini!Command(t, p, kind)
    PROVE  Gemini!GeminiInv'
<1>1. /\ gwTask' = [Gemini!Closed(p, gwTask) EXCEPT ![t] = Waiting(t, p, kind)]
      /\ client' = [client EXCEPT ![p] = None]
      /\ UNCHANGED <<credentials, gwLock, issued, day, imports, rotations>>
  BY DEF Gemini!Command, Waiting
<1>2. Gemini!ClientsFit' /\ \A q \in Processes : q # p => client'[q] = client[q]
  BY <1>1, ClientGone DEF Gemini!GeminiInv
<1>3. /\ gwTask' = [u \in Tasks |-> gwTask'[u]] /\ gwTask'[t] = Waiting(t, p, kind)
      /\ \A u \in Tasks : u # t => gwTask'[u] = Gemini!Closed(p, gwTask)[u]
  BY <1>1 DEF Gemini!Closed
<1>4. Gemini!Fits(t)'
  <2>1. Gemini!GoodTask(Waiting(t, p, kind)) /\ Waiting(t, p, kind).stage = "lock"
        /\ Waiting(t, p, kind).kind = kind
    BY DEF Gemini!GoodTask, Waiting, Gemini!Kinds, Gemini!Stages
  <2> QED
    BY <1>3, <2>1 DEF Gemini!Fits, Gemini!Held
<1>5. \A u \in Tasks : u # t => gwTask'[u] = None \/ Gemini!Fits(u)'
  BY <1>1, <1>2, <1>3, ClosedFits
<1>6. Gemini!FileFits'
  BY <1>1, FileUnchanged
<1> QED
  BY <1>2, <1>3, <1>4, <1>5, <1>6 DEF Gemini!GeminiInv, Gemini!TasksFit

LEMMA ImportStoredKeeps ==
    ASSUME Gemini!GeminiAssumption, Gemini!GeminiInv, NEW t \in Tasks, Gemini!ImportStored(t)
    PROVE  Gemini!GeminiInv'
<1> DEFINE p == gwTask[t].p
           cred == [rev |-> imports + 1, updatedAt |-> day, lastRotationAt |-> None,
                    models |-> None,
                    cookie |-> [rev |-> imports + 1, ts |-> issued.ts, cc |-> issued.cc]]
           y == [gwTask[t] EXCEPT !.kind = "refresh", !.closed = FALSE]
<1>1. /\ gwTask[t] # None /\ gwTask[t].stage = "lock" /\ gwLock = None /\ imports < MaxImports
      /\ imports' = imports + 1 /\ credentials' = cred
      /\ client' = [client EXCEPT ![p] = Gemini!NewClient]
      /\ gwTask' = [Gemini!Closed(p, gwTask) EXCEPT ![t] = y]
      /\ UNCHANGED <<gwLock, issued, day, rotations>>
  BY DEF Gemini!ImportStored, Gemini!At
<1>2. Gemini!GoodTask(gwTask[t]) /\ p \in Processes
  BY <1>1, RunningFits
<1>3. /\ Gemini!FileFits
      /\ issued \in [ts : 0..MaxTokens, cc : 0..MaxTokens] /\ day \in Gemini!Days
      /\ imports \in 0..MaxImports /\ MaxImports \in Nat
  BY DEF Gemini!GeminiInv, Gemini!FileFits, Gemini!GeminiAssumption
<1>4. /\ cred \in Gemini!Credentials /\ cred.rev = imports + 1 /\ cred.cookie.rev = imports + 1
      /\ cred.models = None /\ imports + 1 \in 1..MaxImports
  <2>1. imports + 1 \in 1..MaxImports
    BY <1>1, <1>3
  <2>2. [rev |-> imports + 1, ts |-> issued.ts, cc |-> issued.cc] \in Gemini!Cookies
    BY <1>3, <2>1 DEF Gemini!Cookies, Gemini!Revs
  <2> QED
    BY <1>3, <2>1, <2>2 DEF Gemini!Credentials, Gemini!Revs
<1> HIDE DEF cred
<1>5. Gemini!FileFits'
  <2>1. Gemini!GoodCred(credentials') /\ credentials'.rev = imports'
    BY <1>1, <1>4 DEF Gemini!GoodCred
  <2>2. \A r \in Gemini!Revs, d \in Gemini!Days : rotations[<<r, d>>] > 0 =>
          d <= day /\ r <= imports
    BY <1>3 DEF Gemini!FileFits
  <2>3. \A r \in Gemini!Revs : r <= imports => r <= imports' /\ credentials'.rev # r
    BY <1>1, <1>3, <2>1 DEF Gemini!Revs
  <2>4. imports' \in 0..MaxImports /\ imports' <= imports'
    BY <1>1, <1>3
  <2> QED
    BY <1>1, <1>3, <2>1, <2>2, <2>3, <2>4 DEF Gemini!FileFits
<1>6. Gemini!ClientsFit' /\ Gemini!GoodClient(client'[p]) /\ \A q \in Processes : q # p =>
        client'[q] = client[q]
  <2>1. Gemini!GoodClient(Gemini!NewClient) /\ client = [q \in Processes |-> client[q]]
    BY DEF Gemini!GoodClient, Gemini!NewClient, Gemini!GeminiInv, Gemini!ClientsFit
  <2>2. Gemini!ClientsFit' /\ client'[p] = Gemini!NewClient
    BY <1>1, <1>2, <2>1, ClientSet DEF Gemini!GeminiInv
  <2> QED
    BY <1>1, <2>1, <2>2
<1>7. /\ gwTask' = [u \in Tasks |-> gwTask'[u]] /\ gwTask'[t] = y
      /\ \A u \in Tasks : u # t => gwTask'[u] = Gemini!Closed(p, gwTask)[u]
  BY <1>1 DEF Gemini!Closed
<1>8. Gemini!GoodTask(y) /\ y.stage = "lock" /\ y.p = p
  BY <1>1, <1>2 DEF Gemini!GoodTask, Gemini!Kinds
<1> HIDE DEF y
<1>9. Gemini!Fits(t)'
  BY <1>6, <1>7, <1>8 DEF Gemini!Fits, Gemini!Held
<1>10. \A u \in Tasks : u # t => gwTask'[u] = None \/ Gemini!Fits(u)'
  BY <1>1, <1>2, <1>6, <1>7, NoneHolds, ClosedFits
<1> QED
  BY <1>5, <1>6, <1>7, <1>9, <1>10 DEF Gemini!GeminiInv, Gemini!TasksFit

LEMMA LogoutStoredKeeps ==
    ASSUME Gemini!GeminiAssumption, Gemini!GeminiInv, NEW t \in Tasks, Gemini!LogoutStored(t)
    PROVE  Gemini!GeminiInv'
<1>1. /\ gwLock = None /\ credentials' = None /\ Gemini!Finish(t)
      /\ UNCHANGED <<gwLock, client, issued, day, imports, rotations>>
  BY DEF Gemini!LogoutStored
<1>2. Gemini!FileFits'
  BY <1>1 DEF Gemini!GeminiInv, Gemini!FileFits
<1>3. Gemini!ClientsFit' /\ Grows
  BY <1>1, ClientsStay DEF Gemini!GeminiInv
<1>4. HeldStays(t)
  BY <1>1, NoneHolds DEF HeldStays
<1> QED
  BY <1>1, <1>2, <1>3, <1>4, TaskEnds DEF Gemini!GeminiInv

LEMMA ShutdownKeeps ==
    ASSUME Gemini!GeminiAssumption, Gemini!GeminiInv, NEW p \in Processes, Gemini!Shutdown(p)
    PROVE  Gemini!GeminiInv'
<1>1. /\ client' = [client EXCEPT ![p] = None]
      /\ gwTask' = [t \in Tasks |-> IF Gemini!At(t, "lock") /\ gwTask[t].p = p THEN None
                               ELSE Gemini!Closed(p, gwTask)[t]]
      /\ UNCHANGED <<credentials, gwLock, issued, day, imports, rotations>>
  BY DEF Gemini!Shutdown
<1>2. Gemini!ClientsFit' /\ \A q \in Processes : q # p => client'[q] = client[q]
  BY <1>1, ClientGone DEF Gemini!GeminiInv
<1>3. /\ gwTask' = [u \in Tasks |-> gwTask'[u]]
      /\ \A u \in Tasks : gwTask'[u] = None \/ gwTask'[u] = Gemini!Closed(p, gwTask)[u]
  BY <1>1
<1>4. \A u \in Tasks : gwTask'[u] = None \/ Gemini!Fits(u)'
  BY <1>1, <1>2, <1>3, ClosedFits
<1>5. Gemini!FileFits'
  BY <1>1 DEF Gemini!GeminiInv, Gemini!FileFits
<1> QED
  BY <1>2, <1>3, <1>4, <1>5 DEF Gemini!GeminiInv, Gemini!TasksFit

LEMMA CrashKeeps ==
    ASSUME Gemini!GeminiAssumption, Gemini!GeminiInv, NEW p \in Processes, Gemini!Crash(p)
    PROVE  Gemini!GeminiInv'
<1>1. /\ client' = [client EXCEPT ![p] = None]
      /\ gwLock' = IF gwLock \in Tasks /\ gwTask[gwLock].p = p THEN p ELSE gwLock
      /\ gwTask' = [t \in Tasks |-> IF gwTask[t] # None /\ gwTask[t].p = p THEN None ELSE gwTask[t]]
      /\ UNCHANGED <<credentials, issued, day, imports, rotations>>
  BY DEF Gemini!Crash
<1>2. Gemini!ClientsFit' /\ \A q \in Processes : q # p => client'[q] = client[q]
  BY <1>1, ClientGone DEF Gemini!GeminiInv
<1>3. /\ gwTask' = [u \in Tasks |-> gwTask'[u]]
      /\ \A u \in Tasks : gwTask'[u] = None \/ (gwTask'[u] = gwTask[u] /\ gwTask[u].p # p)
  BY <1>1
<1>4. ASSUME NEW u \in Tasks, gwTask'[u] # None
      PROVE  Gemini!Fits(u)'
  <2>1. gwTask'[u] = gwTask[u] /\ gwTask[u].p # p /\ Gemini!Fits(u) /\ gwTask[u].p \in Processes
    BY <1>3, <1>4, RunningFits
  <2>2. (gwTask[u].stage = "rotate" => Gemini!Due(gwTask[u].cred))'
    BY <1>1, <2>1 DEF Gemini!Fits, Gemini!Due
  <2>3. gwTask[u].stage \in Gemini!Held => gwLock' = u /\ credentials' = gwTask[u].cred
    BY <1>1, <2>1 DEF Gemini!Fits
  <2> QED
    BY <1>2, <2>1, <2>2, <2>3 DEF Gemini!Fits
<1>5. Gemini!FileFits'
  BY <1>1 DEF Gemini!GeminiInv, Gemini!FileFits
<1> QED
  BY <1>2, <1>3, <1>4, <1>5 DEF Gemini!GeminiInv, Gemini!TasksFit

LEMMA NextDayKeeps ==
    ASSUME Gemini!GeminiAssumption, Gemini!GeminiInv, Gemini!NextDay
    PROVE  Gemini!GeminiInv'
<1>1. /\ day' = day + 1 /\ day < MaxDay /\ day \in Gemini!Days /\ MaxDay \in Nat
      /\ None \notin Nat
      /\ UNCHANGED <<credentials, gwLock, client, gwTask, issued, imports, rotations>>
  BY DEF Gemini!NextDay, Gemini!GeminiInv, Gemini!FileFits, Gemini!GeminiAssumption
<1>2. Gemini!FileFits'
  <2>1. day' \in Gemini!Days /\ \A d \in Gemini!Days : d <= day => d <= day'
    BY <1>1 DEF Gemini!Days
  <2> QED
    BY <1>1, <2>1 DEF Gemini!GeminiInv, Gemini!FileFits
<1>3. ASSUME NEW u \in Tasks, gwTask[u] # None
      PROVE  Gemini!Fits(u)'
  <2>1. Gemini!Fits(u)
    BY <1>3, RunningFits
  <2>2. (gwTask[u].stage = "rotate" => Gemini!Due(gwTask[u].cred))'
    <3>1. gwTask[u].stage = "rotate" => gwTask[u].cred \in Gemini!Credentials
      BY <1>3, RunningFits DEF Gemini!GoodCred
    <3>2. gwTask[u].stage = "rotate" =>
            /\ gwTask[u].cred.updatedAt \in Nat
            /\ gwTask[u].cred.lastRotationAt \in Nat \cup {None}
      BY <3>1 DEF Gemini!Credentials, Gemini!Days
    <3> QED
      BY <1>1, <2>1, <3>2 DEF Gemini!Fits, Gemini!Due, Gemini!Days
  <2> QED
    BY <1>1, <2>1, <2>2 DEF Gemini!Fits
<1> QED
  BY <1>1, <1>2, <1>3 DEF Gemini!GeminiInv, Gemini!ClientsFit, Gemini!TasksFit

LEMMA GeminiInit ==
    ASSUME Gemini!GeminiAssumption, Gemini!GWInit
    PROVE  Gemini!GeminiInv
<1>1. Gemini!FileFits
  BY DEF Gemini!GWInit, Gemini!FileFits, Gemini!GeminiAssumption, Gemini!Days
<1> QED
  BY <1>1 DEF Gemini!GWInit, Gemini!GeminiInv, Gemini!ClientsFit, Gemini!TasksFit

LEMMA GeminiNext ==
    ASSUME Gemini!GeminiAssumption, Gemini!GeminiInv, [Gemini!GWNext]_geminiVars
    PROVE  Gemini!GeminiInv'
<1>1. ASSUME NEW t \in Tasks, Gemini!TaskNext(t)
      PROVE  Gemini!GeminiInv'
  BY <1>1, CacheHitKeeps, SetupLockKeeps, GivesUpKeeps, BootstrapStepKeeps, StoreBackKeeps,
     RefreshLockedKeeps, RotateKeeps, VerifyKeeps, RefreshEndsKeeps, ImportStoredKeeps,
     LogoutStoredKeeps DEF Gemini!TaskNext
<1>2. ASSUME NEW t \in Tasks, NEW p \in Processes,
             \/ Gemini!Generate(t, p) \/ Gemini!RefreshStart(t, p)
             \/ \E kind \in {"import", "logout"} : Gemini!Command(t, p, kind)
      PROVE  Gemini!GeminiInv'
  BY <1>2, GenerateKeeps, RefreshStartKeeps, CommandKeeps
<1>3. ASSUME NEW p \in Processes, Gemini!Shutdown(p) \/ Gemini!Crash(p)
      PROVE  Gemini!GeminiInv'
  BY <1>3, ShutdownKeeps, CrashKeeps
<1>4. CASE UNCHANGED geminiVars
  BY <1>4
     DEF geminiVars, Gemini!GeminiInv, Gemini!FileFits, Gemini!ClientsFit, Gemini!TasksFit,
         Gemini!Fits, Gemini!Due
<1> QED
  BY <1>1, <1>2, <1>3, <1>4, NextDayKeeps DEF Gemini!GWNext

LEMMA GeminiSound ==
    ASSUME Gemini!GeminiAssumption, Gemini!GeminiInv
    PROVE  Gemini!OneIdentity /\ Gemini!RotationPaced
<1>1. \A t \in Tasks : Gemini!At(t, "send") => gwTask[t].cookie.rev = gwTask[t].cred.rev
  BY RunningFits DEF Gemini!At, Gemini!GoodTask
<1>2. credentials # None =>
        credentials.cookie.rev = credentials.rev /\ credentials.models \in {None, credentials.rev}
  BY DEF Gemini!GeminiInv, Gemini!FileFits, Gemini!GoodCred
<1>3. \A p \in Processes : client[p] # None /\ client[p].cache # None =>
        client[p].cache.cookie.rev = client[p].cache.rev
  BY DEF Gemini!GeminiInv, Gemini!ClientsFit, Gemini!GoodClient
<1>4. \A r \in DOMAIN rotations : rotations[r] <= 1
  BY DEF Gemini!GeminiInv, Gemini!FileFits
<1> QED
  BY <1>1, <1>2, <1>3, <1>4 DEF Gemini!OneIdentity, Gemini!RotationPaced

-----------------------------------------------------------------------------
(* The WorkBuddy pool.                                                       *)

\* What a task's record holds.
LEMMA Fields ==
  DOMAIN Pool!Idle = {"pc", "job", "home", "uid", "raw", "account", "list", "left", "tries",
                 "change", "data"}
  BY DEF Pool!Idle

\* What an account in the file holds.
LEMMA StoredFields ==
  ASSUME NEW r \in Pool!Stored
  PROVE  /\ r.token \in Nat /\ r.needsLogin \in BOOLEAN
         /\ r.cooldownUntil \in Nat /\ r.modelCooldown \in Nat
         /\ DOMAIN r = {"token", "needsLogin", "cooldownUntil", "modelCooldown"}
  BY DEF Pool!Stored

\* The mark of what is absent is none of what may be there.
LEMMA NoneApart ==
  ASSUME Pool!WorkBuddyAssumption
  PROVE  /\ None \notin Pool!Stored /\ None \notin PoolProcesses
         /\ None \notin Accounts /\ None \notin Tasks
  BY DEF Pool!WorkBuddyAssumption

\* Nor is it a file.
LEMMA FilesNotNone ==
  ASSUME Pool!WorkBuddyAssumption
  PROVE  None \notin Pool!Files
  BY DEF Pool!WorkBuddyAssumption

\* A task knows the tokens of the list it read, of the account as read and of
\* the account as refreshed.
LEMMA KnownToIs ==
  ASSUME NEW r, NEW a, NEW x
  PROVE  x \in Pool!KnownTo(r, a) <=>
           /\ r.pc \notin {"idle", "browser"}
           /\ \/ r.list # None /\ r.list[a] # None /\ x = r.list[a].token
              \/ r.uid = a /\ r.raw # None /\ x = r.raw.token
              \/ r.uid = a /\ r.account # None /\ x = r.account.token
  BY DEF Pool!KnownTo

\* A token is known to the file, to a refresh or to a task.
LEMMA KnownIs ==
  ASSUME NEW a, NEW x
  PROVE  x \in Pool!Known(a) <=>
           \/ accounts[a] # None /\ x = accounts[a].token
           \/ \E p \in PoolProcesses : flights[p][a] # None /\ x = flights[p][a]
           \/ \E t \in Tasks : x \in Pool!KnownTo(wbTask[t], a)
  BY DEF Pool!Known

\* So it is after a step.
LEMMA KnownThen ==
  ASSUME NEW a, NEW x
  PROVE  x \in Pool!Known(a)' <=>
           \/ accounts'[a] # None /\ x = accounts'[a].token
           \/ \E p \in PoolProcesses : flights'[p][a] # None /\ x = flights'[p][a]
           \/ \E t \in Tasks : x \in Pool!KnownTo(wbTask'[t], a)
  BY DEF Pool!Known

\* KnownTo depends on five fields.
LEMMA KnownToSame ==
  ASSUME NEW r, NEW s, NEW a,
         s.pc \notin {"idle", "browser"} => r.pc \notin {"idle", "browser"},
         s.list = r.list, s.uid = r.uid, s.raw = r.raw, s.account = r.account
  PROVE  Pool!KnownTo(s, a) \subseteq Pool!KnownTo(r, a)
  BY KnownToIs

\* Who does nothing knows nothing.
LEMMA KnownToIdle ==
  ASSUME NEW a
  PROVE  Pool!KnownTo(Pool!Idle, a) = {}
  BY DEF Pool!Idle, Pool!KnownTo

\* What an update makes of the file depends on four fields of the task.
LEMMA ChangedSame ==
  ASSUME NEW d, NEW r, NEW s, NEW time,
         s.uid = r.uid, s.raw = r.raw, s.account = r.account, s.change = r.change
  PROVE  Pool!Changed(d, s, time) = Pool!Changed(d, r, time)
  BY DEF Pool!Changed

\* So does what it brings, on three of them.
LEMMA BringsSame ==
  ASSUME NEW r, NEW s, NEW from, Pool!Brings(r, from),
         s.raw = r.raw, s.account = r.account, s.change = r.change
  PROVE  Pool!Brings(s, from)
  BY DEF Pool!Brings

\* More pairs are given out.
LEMMA BringsGrow ==
  ASSUME NEW r, NEW from \in Seq(Nat \cup {None}), NEW f, Pool!Brings(r, from)
  PROVE  Pool!Brings(r, Append(from, f))
<1>1. \A n \in DOMAIN from : n \in DOMAIN Append(from, f) /\ Append(from, f)[n] = from[n]
  OBVIOUS
<1> QED BY <1>1 DEF Pool!Brings

\* What the invariant says of one task.
LEMMA ShapeIs ==
  ASSUME NEW t \in Tasks, Pool!WorkBuddyInv
  PROVE  /\ Pool!TaskFits(t) /\ Pool!Shaped(wbTask[t]) /\ Pool!FilesFit /\ Pool!TokensFit
         /\ wbTask = [u \in Tasks |-> wbTask[u]]
  BY DEF Pool!WorkBuddyInv, Pool!TaskFits

\* What a task knows is known.
LEMMA KnownOf ==
  ASSUME NEW t \in Tasks, NEW a
  PROVE  Pool!KnownTo(wbTask[t], a) \subseteq Pool!Known(a)
  BY KnownIs

\* A step that writes nothing to the file keeps the invariant where each task
\* fits, knows at most what was known and the pair given out, and no head of a
\* chain that writes is displaced.
LEMMA PoolStepKeeps ==
  ASSUME Pool!WorkBuddyAssumption, Pool!WorkBuddyInv, Pool!FilesFit',
         NEW New,
         \/ New = {} /\ upstream'.from = upstream.from
         \/ New = {Pool!Given + 1} /\ \E f \in Nat \cup {None} :
                                    upstream'.from = Append(upstream.from, f),
         accounts' = accounts,
         wbNow <= wbNow',
         upstream'.expiring = upstream.expiring,
         wbTask' = [u \in Tasks |-> wbTask'[u]],
         \A u \in Tasks :
            \/ wbTask'[u] = wbTask[u]
            \/ Pool!TaskFits(u)' /\ \A a \in Accounts : Pool!KnownTo(wbTask'[u], a) \subseteq
                   Pool!Known(a) \cup New,
         \A u \in Tasks : wbTask[u].pc = "writing" =>
            /\ chain'[wbTask[u].home] # <<>>
            /\ Head(chain'[wbTask[u].home]) = Head(chain[wbTask[u].home]),
         \A p \in PoolProcesses, a \in Accounts : flights'[p][a] # None =>
            /\ flights'[p][a] \in Pool!Known(a) /\ flights'[p][a] \in upstream.expiring
            /\ Pool!Joined(p, a)' # {}
  PROVE  Pool!WorkBuddyInv'
<1> Pool!FilesFit /\ Pool!TokensFit BY DEF Pool!WorkBuddyInv
<1>g. /\ Pool!Given \in Nat /\ Pool!Given' \in Nat /\ Pool!Given <= Pool!Given'
      /\ New \subseteq 0 .. Pool!Given' /\ New \cap upstream.expiring = {}
  <2>1. upstream.from \in Seq(Nat \cup {None}) /\ upstream'.from \in Seq(Nat \cup {None})
    BY DEF Pool!FilesFit, Pool!Upstreams
  <2>2. Pool!Given \in Nat /\ Pool!Given' \in Nat  BY <2>1 DEF Pool!Given
  <2>3. upstream.expiring \subseteq 0 .. Pool!Given  BY DEF Pool!FilesFit, Pool!Upstreams
  <2>4. CASE New = {} /\ upstream'.from = upstream.from
    <3>1. Pool!Given' = Pool!Given  BY <2>4 DEF Pool!Given
    <3> QED BY <2>2, <2>4, <3>1
  <2>5. CASE New = {Pool!Given + 1} /\ \E f \in Nat \cup {None} : upstream'.from =
                 Append(upstream.from, f)
    <3>1. Pool!Given' = Pool!Given + 1  BY <2>1, <2>5 DEF Pool!Given
    <3> QED BY <2>2, <2>3, <2>5, <3>1
  <2> QED BY <2>4, <2>5
<1>1. ASSUME NEW a \in Accounts
      PROVE  Pool!Known(a)' \subseteq Pool!Known(a) \cup New
  <2> SUFFICES ASSUME NEW x \in Pool!Known(a)'
               PROVE  x \in Pool!Known(a) \cup New
    OBVIOUS
  <2>1. CASE accounts'[a] # None /\ x = accounts'[a].token
    BY <2>1, KnownIs
  <2>2. CASE \E p \in PoolProcesses : flights'[p][a] # None /\ x = flights'[p][a]
    BY <2>2
  <2>3. CASE \E t \in Tasks : x \in Pool!KnownTo(wbTask'[t], a)
    <3> PICK t \in Tasks : x \in Pool!KnownTo(wbTask'[t], a)  BY <2>3
    <3>1. CASE wbTask'[t] = wbTask[t]  BY <3>1, KnownOf
    <3>2. CASE \A b \in Accounts : Pool!KnownTo(wbTask'[t], b) \subseteq Pool!Known(b) \cup New
      BY <3>2
    <3> QED BY <3>1, <3>2
  <2> QED BY <2>1, <2>2, <2>3, KnownThen
<1>2. Pool!TokensFit'
  <2> SUFFICES ASSUME NEW a \in Accounts
               PROVE  /\ Pool!Known(a)' \subseteq 0 .. Pool!Given'
                      /\ \A x, y \in Pool!Known(a)' \cap upstream'.expiring : x = y
                      /\ \A p \in PoolProcesses : flights'[p][a] # None =>
                            flights'[p][a] \in upstream'.expiring /\ Pool!Joined(p, a)' # {}
    BY DEF Pool!TokensFit
  <2>1. /\ Pool!Known(a) \subseteq 0 .. Pool!Given
        /\ \A x, y \in Pool!Known(a) \cap upstream.expiring : x = y
    BY DEF Pool!TokensFit
  <2>2. Pool!Known(a)' \subseteq 0 .. Pool!Given'  BY <1>1, <1>g, <2>1
  <2>3. \A x, y \in Pool!Known(a)' \cap upstream'.expiring : x = y
    BY <1>1, <1>g, <2>1
  <2> QED BY <2>2, <2>3
<1>3. ASSUME NEW u \in Tasks
      PROVE  Pool!TaskFits(u)'
  <2>1. CASE wbTask'[u] = wbTask[u]
    <3> Pool!TaskFits(u) BY DEF Pool!WorkBuddyInv
    <3>1. Pool!Shaped(wbTask'[u])  BY <2>1 DEF Pool!TaskFits
    <3>2. wbTask'[u].pc \in {"fresh", "refresh"} =>
             wbTask'[u].raw \in Pool!Stored /\ wbTask'[u].raw.token \in upstream'.expiring
      BY <2>1 DEF Pool!TaskFits
    <3>3. wbTask'[u].pc \in {"queued", "writing"} => Pool!Brings(wbTask'[u], upstream'.from)
      <4> SUFFICES ASSUME wbTask'[u].pc \in {"queued", "writing"}
                   PROVE  Pool!Brings(wbTask'[u], upstream'.from)
        OBVIOUS
      <4>1. Pool!Brings(wbTask'[u], upstream.from)  BY <2>1 DEF Pool!TaskFits
      <4>2. upstream.from \in Seq(Nat \cup {None})  BY DEF Pool!FilesFit, Pool!Upstreams
      <4> QED BY <4>1, <4>2, BringsGrow
    <3>4. ASSUME wbTask'[u].pc = "writing"
          PROVE  /\ chain'[wbTask'[u].home] # <<>> /\ Head(chain'[wbTask'[u].home]) = u
                 /\ \E time \in 0 .. wbNow' : wbTask'[u].data = Pool!Changed(accounts',
                        wbTask'[u], time)
      <4>1. PICK time \in 0 .. wbNow : wbTask[u].data = Pool!Changed(accounts, wbTask[u], time)
        BY <3>4, <2>1 DEF Pool!TaskFits
      <4>2. time \in 0 .. wbNow'  BY DEF Pool!FilesFit, Pool!Upstreams
      <4>3. wbTask'[u].data = Pool!Changed(accounts', wbTask'[u], time)  BY <4>1, <2>1
      <4>4. chain'[wbTask'[u].home] # <<>> /\ Head(chain'[wbTask'[u].home]) = u
        BY <3>4, <2>1 DEF Pool!TaskFits
      <4> QED BY <4>2, <4>3, <4>4
    <3> QED BY <3>1, <3>2, <3>3, <3>4 DEF Pool!TaskFits
  <2> QED BY <2>1
<1> QED BY <1>2, <1>3 DEF Pool!WorkBuddyInv

\* An update joins the end of its chain.
LEMMA ChainGrows ==
  ASSUME Pool!WorkBuddyInv, NEW p \in PoolProcesses, NEW s \in Seq(Tasks),
         chain' = [chain EXCEPT ![p] = @ \o s]
  PROVE  /\ chain' \in [PoolProcesses -> Seq(Tasks)]
         /\ \A u \in Tasks : wbTask[u].pc = "writing" =>
               /\ chain'[wbTask[u].home] # <<>>
               /\ Head(chain'[wbTask[u].home]) = Head(chain[wbTask[u].home])
<1>1. chain \in [PoolProcesses -> Seq(Tasks)]
  BY DEF Pool!WorkBuddyInv, Pool!FilesFit, Pool!Upstreams
<1>2. chain[p] \o s \in Seq(Tasks)  BY <1>1
<1>3. ASSUME NEW u \in Tasks, wbTask[u].pc = "writing"
      PROVE  /\ chain'[wbTask[u].home] # <<>>
             /\ Head(chain'[wbTask[u].home]) = Head(chain[wbTask[u].home])
  <2>1. wbTask[u].home \in PoolProcesses /\ chain[wbTask[u].home] # <<>>
    BY <1>3, ShapeIs DEF Pool!TaskFits, Pool!Shaped
  <2>2. CASE wbTask[u].home = p
    <3>1. chain'[p] = chain[p] \o s  BY <1>1
    <3>2. chain[p] \in Seq(Tasks) /\ chain[p] # <<>>  BY <1>1, <2>1, <2>2
    <3>3. Len(chain[p] \o s) > 0 /\ (chain[p] \o s)[1] = chain[p][1]
      BY <3>2
    <3> QED BY <2>2, <3>1, <3>2, <3>3, <1>2
  <2>3. CASE wbTask[u].home # p  BY <1>1, <2>1, <2>3
  <2> QED BY <2>2, <2>3
<1> QED BY <1>1, <1>2, <1>3

\* One task joins the chain.
LEMMA ChainAppends ==
  ASSUME Pool!WorkBuddyInv, NEW p \in PoolProcesses, NEW t \in Tasks,
         chain' = [chain EXCEPT ![p] = Append(@, t)]
  PROVE  /\ chain' \in [PoolProcesses -> Seq(Tasks)]
         /\ \A u \in Tasks : wbTask[u].pc = "writing" =>
               /\ chain'[wbTask[u].home] # <<>>
               /\ Head(chain'[wbTask[u].home]) = Head(chain[wbTask[u].home])
<1>1. chain \in [PoolProcesses -> Seq(Tasks)]
  BY DEF Pool!WorkBuddyInv, Pool!FilesFit, Pool!Upstreams
<1>2. <<t>> \in Seq(Tasks) /\ Append(chain[p], t) = chain[p] \o <<t>>  BY <1>1
<1>3. chain' = [chain EXCEPT ![p] = @ \o <<t>>]  BY <1>2
<1> QED BY <1>2, <1>3, ChainGrows

\* One task goes on, neither awaiting a refresh nor writing.
LEMMA OneKeeps ==
  ASSUME Pool!WorkBuddyAssumption, Pool!WorkBuddyInv, NEW t \in Tasks, NEW r, Pool!Goes(t, r),
         wbTask[t].pc # "refresh",
         UNCHANGED <<wbInst, accounts, flights, upstream, wbNow>>,
         \/ chain' = chain
         \/ r.home \in PoolProcesses /\ chain' = [chain EXCEPT ![r.home] = Append(@, t)],
         Pool!TaskFits(t)', \A a \in Accounts : Pool!KnownTo(r, a) \subseteq Pool!Known(a)
  PROVE  Pool!WorkBuddyInv'
<1>t. wbTask = [u \in Tasks |-> wbTask[u]] /\ Pool!FilesFit /\ Pool!TokensFit
  BY DEF Pool!WorkBuddyInv
<1>1. /\ wbTask' = [u \in Tasks |-> wbTask'[u]]
      /\ wbTask'[t] = r /\ \A u \in Tasks : u # t => wbTask'[u] = wbTask[u]
  BY <1>t DEF Pool!Goes
<1>2. /\ chain' \in [PoolProcesses -> Seq(Tasks)]
      /\ \A u \in Tasks : wbTask[u].pc = "writing" =>
               /\ chain'[wbTask[u].home] # <<>>
               /\ Head(chain'[wbTask[u].home]) = Head(chain[wbTask[u].home])
  <2>1. CASE chain' = chain
    BY <2>1, <1>t, ShapeIs DEF Pool!FilesFit, Pool!Upstreams, Pool!TaskFits
  <2>2. CASE r.home \in PoolProcesses /\ chain' = [chain EXCEPT ![r.home] = Append(@, t)]
    BY <2>2, ChainAppends
  <2> QED BY <2>1, <2>2
<1>3. Pool!FilesFit'  BY <1>2, <1>t DEF Pool!FilesFit, Pool!Upstreams, Pool!Given
<1>4. \A u \in Tasks :
            \/ wbTask'[u] = wbTask[u]
            \/ Pool!TaskFits(u)' /\ \A a \in Accounts : Pool!KnownTo(wbTask'[u], a) \subseteq
                   Pool!Known(a) \cup {}
  <2> TAKE u \in Tasks
  <2>1. CASE u = t  BY <2>1, <1>1
  <2>2. CASE u # t  BY <2>2, <1>1
  <2> QED BY <2>1, <2>2
<1>5. ASSUME NEW p \in PoolProcesses, NEW a \in Accounts, flights'[p][a] # None
      PROVE  /\ flights'[p][a] \in Pool!Known(a) /\ flights'[p][a] \in upstream.expiring
             /\ Pool!Joined(p, a)' # {}
  <2>1. flights[p][a] # None  BY <1>5
  <2>2. flights[p][a] \in Pool!Known(a)  BY <2>1, KnownIs
  <2>3. flights[p][a] \in upstream.expiring /\ Pool!Joined(p, a) # {}
    BY <2>1, <1>t DEF Pool!TokensFit
  <2>4. PICK u \in Pool!Joined(p, a) : TRUE  BY <2>3
  <2>5. u # t  BY <2>4 DEF Pool!Joined
  <2>6. u \in Pool!Joined(p, a)'  BY <2>4, <2>5, <1>1 DEF Pool!Joined, Pool!Home
  <2> QED BY <2>2, <2>3, <2>6
<1>6. wbNow <= wbNow'  BY <1>t DEF Pool!FilesFit, Pool!Upstreams
<1>7. upstream'.from = upstream.from /\ upstream'.expiring = upstream.expiring  OBVIOUS
<1> QED BY <1>1, <1>2, <1>3, <1>4, <1>5, <1>6, <1>7, PoolStepKeeps

\* A task that has ended fits.
LEMMA PoolIdleFits ==
  ASSUME NEW t \in Tasks, wbTask'[t] = Pool!Idle, Pool!WorkBuddyAssumption
  PROVE  Pool!TaskFits(t)'
<1>1. Pool!Shaped(Pool!Idle)  BY DEF Pool!Shaped, Pool!Idle
<1> QED BY <1>1 DEF Pool!TaskFits, Pool!Idle

\* A task that goes on has the record it goes on with.
LEMMA GoesTo ==
  ASSUME Pool!WorkBuddyInv, NEW t \in Tasks, NEW r, Pool!Goes(t, r)
  PROVE  wbTask'[t] = r
  BY DEF Pool!Goes, Pool!WorkBuddyInv

\* A request, a login or a command begins.
LEMMA StartKeeps ==
  ASSUME Pool!WorkBuddyAssumption, Pool!WorkBuddyInv, NEW t \in Tasks, NEW p \in PoolProcesses,
         Pool!Start(t, p)
  PROVE  Pool!WorkBuddyInv'
<1>i. wbInst.accounts \subseteq Accounts
  BY DEF Pool!WorkBuddyAssumption, Pool!WorkBuddyInv, Pool!FilesFit, Pool!Upstreams
<1>t. wbTask = [u \in Tasks |-> wbTask[u]] /\ Pool!FilesFit /\ Pool!TokensFit
  BY DEF Pool!WorkBuddyInv
<1>u. UNCHANGED <<wbInst, accounts, flights, upstream, wbNow>> /\ wbTask[t].pc = "idle"
  BY DEF Pool!Start
<1>1. CASE Pool!Goes(t, [Pool!Idle EXCEPT !.pc = "read", !.job = "chat", !.home =
               p]) /\ UNCHANGED chain
  <2>1. PICK r : r = [Pool!Idle EXCEPT !.pc = "read", !.job = "chat", !.home = p]  OBVIOUS
  <2>2. Pool!Goes(t, r) /\ wbTask'[t] = r  BY <1>1, <2>1, GoesTo
  <2>3. /\ r.pc = "read" /\ r.job = "chat" /\ r.home = p /\ r.raw = None /\ r.account = None
        /\ r.list = None
        /\ r = [f \in DOMAIN Pool!Idle |-> r[f]]
    BY <2>1 DEF Pool!Idle
  <2>4. Pool!TaskFits(t)'  BY <2>2, <2>3 DEF Pool!TaskFits, Pool!Shaped
  <2>5. \A b \in Accounts : Pool!KnownTo(r, b) \subseteq Pool!Known(b)  BY <2>3, KnownToIs
  <2> QED BY <1>1, <1>u, <2>2, <2>4, <2>5, OneKeeps
<1>2. ASSUME NEW a \in wbInst.accounts, NEW job \in {"hook", "warm"}, UNCHANGED chain,
             accounts[a] # None, Pool!needsRefresh(accounts[a]),
             Pool!Goes(t, [Pool!Idle EXCEPT !.pc = "fresh", !.job = job, !.home = p,
                                           !.uid = a, !.raw = accounts[a]])
      PROVE  Pool!WorkBuddyInv'
  <2>1. PICK r : r = [Pool!Idle EXCEPT !.pc = "fresh", !.job = job, !.home = p,
                                           !.uid = a, !.raw = accounts[a]]  OBVIOUS
  <2>2. Pool!Goes(t, r) /\ wbTask'[t] = r  BY <1>2, <2>1, GoesTo
  <2>3. /\ r.pc = "fresh" /\ r.home = p /\ r.raw = accounts[a] /\ r.account = None
        /\ r.list = None /\ r.uid = a /\ r.job # "chat"
        /\ r = [f \in DOMAIN Pool!Idle |-> r[f]]
    BY <2>1 DEF Pool!Idle
  <2>4. a \in Accounts /\ accounts[a] \in Pool!Stored
    BY <1>i, <1>2, <1>t DEF Pool!FilesFit, Pool!Upstreams, Pool!Files
  <2>5. Pool!TaskFits(t)'
    BY <1>2, <1>u, <2>2, <2>3, <2>4 DEF Pool!TaskFits, Pool!Shaped, Pool!needsRefresh
  <2>6. \A b \in Accounts : Pool!KnownTo(r, b) \subseteq Pool!Known(b)
    BY <2>3, <1>2, KnownToIs, KnownIs
  <2> QED BY <1>2, <1>u, <2>2, <2>5, <2>6, OneKeeps
<1>3. ASSUME NEW a \in wbInst.accounts, UNCHANGED chain,
             Pool!Goes(t, [Pool!Idle EXCEPT !.pc = "browser", !.job = "login", !.home = p,
                 !.uid = a])
      PROVE  Pool!WorkBuddyInv'
  <2>1. PICK r : r = [Pool!Idle EXCEPT !.pc = "browser", !.job = "login", !.home = p, !.uid = a]
    OBVIOUS
  <2>2. Pool!Goes(t, r) /\ wbTask'[t] = r  BY <1>3, <2>1, GoesTo
  <2>3. /\ r.pc = "browser" /\ r.home = p /\ r.raw = None /\ r.account = None
        /\ r.list = None /\ r.uid = a /\ r.job # "chat"
        /\ r = [f \in DOMAIN Pool!Idle |-> r[f]]
    BY <2>1 DEF Pool!Idle
  <2>4. a \in Accounts  BY <1>i, <1>3
  <2>5. Pool!TaskFits(t)'  BY <2>2, <2>3, <2>4 DEF Pool!TaskFits, Pool!Shaped
  <2>6. \A b \in Accounts : Pool!KnownTo(r, b) \subseteq Pool!Known(b)  BY <2>3, KnownToIs
  <2> QED BY <1>3, <1>u, <2>2, <2>5, <2>6, OneKeeps
<1>4. ASSUME NEW a \in wbInst.accounts,
             Pool!Update(t, [Pool!Idle EXCEPT !.job = "remove", !.home = p, !.uid = a],
                 "remove")
      PROVE  Pool!WorkBuddyInv'
  <2>1. PICK q : q = [Pool!Idle EXCEPT !.job = "remove", !.home = p, !.uid = a]  OBVIOUS
  <2>2. PICK r : r = [q EXCEPT !.pc = "queued", !.change = "remove"]  OBVIOUS
  <2>3. /\ r.pc = "queued" /\ r.home = p /\ r.raw = None /\ r.account = None
        /\ r.list = None /\ r.uid = a /\ r.job # "chat" /\ r.change = "remove" /\ q.home = p
        /\ r = [f \in DOMAIN Pool!Idle |-> r[f]]
    BY <2>1, <2>2 DEF Pool!Idle
  <2>4. Pool!Goes(t, r) /\ chain' = [chain EXCEPT ![p] = Append(@, t)]
    BY <1>4, <2>1, <2>2, <2>3 DEF Pool!Update
  <2>5. a \in Accounts  BY <1>i, <1>4
  <2>6. wbTask'[t] = r  BY <2>4, GoesTo
  <2>7. Pool!TaskFits(t)'
    BY <2>6, <2>3, <2>5 DEF Pool!TaskFits, Pool!Shaped, Pool!Brings, Pool!Changes
  <2>8. \A b \in Accounts : Pool!KnownTo(r, b) \subseteq Pool!Known(b)  BY <2>3, KnownToIs
  <2> QED BY <1>u, <2>3, <2>4, <2>7, <2>8, OneKeeps
<1> QED BY <1>1, <1>2, <1>3, <1>4 DEF Pool!Start

\* A request reads the file, and takes its candidates from it.
LEMMA ReadKeeps ==
  ASSUME Pool!WorkBuddyAssumption, Pool!WorkBuddyInv, NEW t \in Tasks, Pool!ReadCandidates(t)
  PROVE  Pool!WorkBuddyInv'
<1>t. /\ wbTask = [u \in Tasks |-> wbTask[u]]
      /\ Pool!FilesFit /\ Pool!TokensFit /\ Pool!Shaped(wbTask[t])
  BY ShapeIs DEF Pool!WorkBuddyInv
<1>u. UNCHANGED <<wbInst, accounts, flights, upstream, wbNow, chain>> /\ wbTask[t].pc = "read"
  BY DEF Pool!ReadCandidates
<1>1. CASE Pool!Goes(t, Pool!Idle)
  <2>1. Pool!TaskFits(t)'  BY <1>1, GoesTo, PoolIdleFits
  <2> QED BY <1>1, <1>u, <2>1, KnownToIdle, OneKeeps
<1>2. CASE Pool!Goes(t, [wbTask[t] EXCEPT !.pc = "next", !.left = Pool!candidates, !.list =
               accounts])
  <2>0. accounts \in Pool!Files
        /\ Pool!candidates \subseteq {a \in Accounts : accounts[a] # None}
    BY <1>t DEF Pool!FilesFit, Pool!Upstreams, Pool!candidates
  <2>1. PICK c : c = Pool!candidates  OBVIOUS
  <2>2. PICK r : r = [wbTask[t] EXCEPT !.pc = "next", !.left = c, !.list = accounts]  OBVIOUS
  <2>3. Pool!Goes(t, r) /\ wbTask'[t] = r  BY <1>2, <2>1, <2>2, GoesTo
  <2>4. /\ r.pc = "next" /\ r.home = wbTask[t].home /\ r.raw = wbTask[t].raw
        /\ r.account = wbTask[t].account /\ r.list = accounts /\ r.left = c
        /\ r.uid = wbTask[t].uid /\ r.job = wbTask[t].job
        /\ r = [f \in DOMAIN Pool!Idle |-> r[f]]
    BY <2>2, <1>t, Fields DEF Pool!Shaped
  <2>5. Pool!TaskFits(t)'
    <3>1. Pool!Shaped(r)  BY <2>0, <2>1, <2>4, <1>t, <1>u DEF Pool!Shaped
    <3>2. Pool!Shaped(wbTask'[t])  BY <3>1, <2>3
    <3>3. wbTask'[t].pc = "next"  BY <2>3, <2>4
    <3> QED BY <3>2, <3>3 DEF Pool!TaskFits
  <2>6. \A b \in Accounts : Pool!KnownTo(r, b) \subseteq Pool!Known(b)
    <3> TAKE b \in Accounts
    <3> SUFFICES ASSUME NEW x \in Pool!KnownTo(r, b)  PROVE x \in Pool!Known(b)  OBVIOUS
    <3>1. CASE accounts[b] # None /\ x = accounts[b].token  BY <3>1, KnownIs
    <3>2. CASE ~(accounts[b] # None /\ x = accounts[b].token)
      <4>1. x \in Pool!KnownTo(wbTask[t], b)  BY <3>2, <2>4, <1>u, KnownToIs
      <4> QED BY <4>1, KnownOf
    <3> QED BY <3>1, <3>2
  <2> QED BY <1>u, <2>3, <2>5, <2>6, OneKeeps
<1> QED BY <1>1, <1>2 DEF Pool!ReadCandidates

\* It takes the next of them as it was read.
LEMMA NextAccountKeeps ==
  ASSUME Pool!WorkBuddyAssumption, Pool!WorkBuddyInv, NEW t \in Tasks, Pool!NextAccount(t)
  PROVE  Pool!WorkBuddyInv'
<1>t. /\ wbTask = [u \in Tasks |-> wbTask[u]]
      /\ Pool!FilesFit /\ Pool!TokensFit /\ Pool!Shaped(wbTask[t])
  BY ShapeIs DEF Pool!WorkBuddyInv
<1>u. UNCHANGED <<wbInst, accounts, flights, upstream, wbNow, chain>> /\ wbTask[t].pc = "next"
  BY DEF Pool!NextAccount
<1>1. PICK a \in wbTask[t].left :
         Pool!Goes(t, [wbTask[t] EXCEPT !.pc =
             IF Pool!needsRefresh(wbTask[t].list[a]) THEN "fresh" ELSE "send",
                                 !.left = @ \ {a}, !.tries = @ + 1, !.uid = a,
                                 !.raw = wbTask[t].list[a], !.account = wbTask[t].list[a]])
  BY DEF Pool!NextAccount
<1>2. PICK k : k = wbTask[t].list[a]  OBVIOUS
<1>3. k \in Pool!Stored /\ a \in Accounts /\ k # None /\ wbTask[t].list # None
      /\ wbTask[t].list \in Pool!Files /\ wbTask[t].job = "chat"
  <2>1. wbTask[t].job = "chat" /\ wbTask[t].list \in Pool!Files
        /\ wbTask[t].left \subseteq {b \in Accounts : wbTask[t].list[b] # None}
    BY <1>t, <1>u DEF Pool!Shaped
  <2>2. wbTask[t].list # None
    BY <2>1, FilesNotNone
  <2> QED BY <2>1, <2>2, <1>2 DEF Pool!Files
<1>4. PICK pc \in {"fresh", "send"} : pc = IF Pool!needsRefresh(k) THEN "fresh" ELSE "send"
  OBVIOUS
<1>5. PICK left : left = wbTask[t].left \ {a}  OBVIOUS
<1>6. PICK tries : tries = wbTask[t].tries + 1  OBVIOUS
<1>7. PICK r : r = [wbTask[t] EXCEPT !.pc = pc, !.left = left, !.tries = tries, !.uid = a,
                                   !.raw = k, !.account = k]
  OBVIOUS
<1>8. Pool!Goes(t, r) /\ wbTask'[t] = r
  <2>1. wbTask[t] = [f \in DOMAIN Pool!Idle |-> wbTask[t][f]]  BY <1>t DEF Pool!Shaped
  <2>2. r = [wbTask[t] EXCEPT !.pc =
            IF Pool!needsRefresh(wbTask[t].list[a]) THEN "fresh" ELSE "send",
                            !.left = @ \ {a}, !.tries = @ + 1, !.uid = a,
                            !.raw = wbTask[t].list[a], !.account = wbTask[t].list[a]]
    BY <2>1, Fields, <1>2, <1>4, <1>5, <1>6, <1>7
  <2> QED BY <1>1, <2>2, GoesTo
<1>9. /\ r.pc = pc /\ r.home = wbTask[t].home /\ r.raw = k /\ r.account = k
      /\ r.list = wbTask[t].list /\ r.left = left /\ r.uid = a /\ r.job = "chat"
      /\ r = [f \in DOMAIN Pool!Idle |-> r[f]]
  BY <1>t, <1>3, <1>7, Fields DEF Pool!Shaped
<1>10. Pool!TaskFits(t)'
  <2>1. pc = "fresh" => k.token \in upstream'.expiring  BY <1>4, <1>u DEF Pool!needsRefresh
  <2> QED BY <2>1, <1>3, <1>5, <1>8, <1>9, <1>t, <1>u DEF Pool!TaskFits, Pool!Shaped
<1>11. \A b \in Accounts : Pool!KnownTo(r, b) \subseteq Pool!Known(b)
  <2> TAKE b \in Accounts
  <2>1. Pool!KnownTo(r, b) \subseteq Pool!KnownTo(wbTask[t], b)
    BY <1>2, <1>3, <1>9, <1>u, KnownToIs
  <2> QED BY <2>1, KnownOf
<1> QED BY <1>u, <1>8, <1>10, <1>11, OneKeeps

\* The head of the chain reads and changes the file.
LEMMA UpdateReadKeeps ==
  ASSUME Pool!WorkBuddyAssumption, Pool!WorkBuddyInv, NEW t \in Tasks, Pool!UpdateRead(t)
  PROVE  Pool!WorkBuddyInv'
<1>t. /\ wbTask = [u \in Tasks |-> wbTask[u]]
      /\ Pool!FilesFit /\ Pool!TokensFit /\ Pool!Shaped(wbTask[t]) /\ Pool!TaskFits(t)
  BY ShapeIs DEF Pool!WorkBuddyInv
<1>u. UNCHANGED <<wbInst, accounts, flights, upstream, wbNow, chain>> /\ wbTask[t].pc = "queued"
      /\ chain[wbTask[t].home] # <<>> /\ Head(chain[wbTask[t].home]) = t
  BY DEF Pool!UpdateRead, Pool!Home
<1>1. PICK d : d = Pool!Changed(accounts, wbTask[t], wbNow)  OBVIOUS
<1>2. PICK r : r = [wbTask[t] EXCEPT !.pc = "writing", !.data = d]  OBVIOUS
<1>3. Pool!Goes(t, r) /\ wbTask'[t] = r  BY <1>1, <1>2, GoesTo DEF Pool!UpdateRead
<1>4. /\ r.pc = "writing" /\ r.home = wbTask[t].home /\ r.raw = wbTask[t].raw
      /\ r.account = wbTask[t].account /\ r.list = wbTask[t].list /\ r.left = wbTask[t].left
      /\ r.uid = wbTask[t].uid /\ r.job = wbTask[t].job /\ r.change = wbTask[t].change
      /\ r.data = d
      /\ r = [f \in DOMAIN Pool!Idle |-> r[f]]
  BY <1>t, <1>2, Fields DEF Pool!Shaped
<1>5. Pool!Shaped(wbTask'[t])  BY <1>3, <1>4, <1>t, <1>u DEF Pool!Shaped
<1>6. Pool!Brings(wbTask'[t], upstream'.from)
  <2>1. Pool!Brings(wbTask[t], upstream.from)  BY <1>t, <1>u DEF Pool!TaskFits
  <2> QED BY <2>1, <1>u, <1>3, <1>4, BringsSame
<1>7. wbNow \in 0 .. wbNow' /\ wbTask'[t].data = Pool!Changed(accounts', wbTask'[t], wbNow)
  <2>1. Pool!Changed(accounts, r, wbNow) = Pool!Changed(accounts, wbTask[t], wbNow)
    BY <1>4, ChangedSame
  <2>2. wbNow \in Nat  BY <1>t DEF Pool!FilesFit, Pool!Upstreams
  <2> QED BY <2>1, <2>2, <1>1, <1>3, <1>4, <1>u
<1>8. Pool!TaskFits(t)'
  BY <1>3, <1>4, <1>5, <1>6, <1>7, <1>u DEF Pool!TaskFits
<1>9. \A b \in Accounts : Pool!KnownTo(r, b) \subseteq Pool!Known(b)
  <2> TAKE b \in Accounts
  <2>1. Pool!KnownTo(r, b) \subseteq Pool!KnownTo(wbTask[t], b)  BY <1>4, <1>u, KnownToSame
  <2> QED BY <2>1, KnownOf
<1> QED BY <1>u, <1>3, <1>8, <1>9, OneKeeps

\* The request sends with the account, or waits for the update of it.
LEMMA SentKeeps ==
  ASSUME Pool!WorkBuddyAssumption, Pool!WorkBuddyInv, NEW t \in Tasks, wbTask[t].pc = "send",
         UNCHANGED <<wbInst, accounts, flights, upstream, wbNow>>,
         NEW pc, NEW change,
         \/ pc = "next" /\ UNCHANGED chain
         \/ /\ pc = "queued" /\ change \in {"limit", "cooldown", "refused"}
            /\ chain' = [chain EXCEPT ![wbTask[t].home] = Append(@, t)],
         Pool!Goes(t, [wbTask[t] EXCEPT !.pc = pc, !.change = change])
  PROVE  Pool!WorkBuddyInv'
<1>t. /\ wbTask = [u \in Tasks |-> wbTask[u]]
      /\ Pool!FilesFit /\ Pool!TokensFit /\ Pool!Shaped(wbTask[t]) /\ Pool!TaskFits(t)
  BY ShapeIs DEF Pool!WorkBuddyInv
<1>2. PICK r : r = [wbTask[t] EXCEPT !.pc = pc, !.change = change]  OBVIOUS
<1>3. Pool!Goes(t, r) /\ wbTask'[t] = r  BY <1>2, GoesTo
<1>4. /\ r.pc = pc /\ r.home = wbTask[t].home /\ r.raw = wbTask[t].raw
      /\ r.account = wbTask[t].account /\ r.list = wbTask[t].list /\ r.left = wbTask[t].left
      /\ r.uid = wbTask[t].uid /\ r.job = wbTask[t].job /\ r.change = change
      /\ r = [f \in DOMAIN Pool!Idle |-> r[f]]
  BY <1>t, <1>2, Fields DEF Pool!Shaped
<1>5. Pool!Shaped(wbTask'[t]) /\ r.home \in PoolProcesses  BY <1>3, <1>4, <1>t DEF Pool!Shaped
<1>6. pc = "queued" => Pool!Brings(wbTask'[t], upstream'.from)
  BY <1>3, <1>4 DEF Pool!Brings, Pool!Changes
<1>8. Pool!TaskFits(t)'
  BY <1>3, <1>4, <1>5, <1>6 DEF Pool!TaskFits
<1>9. \A b \in Accounts : Pool!KnownTo(r, b) \subseteq Pool!Known(b)
  <2> TAKE b \in Accounts
  <2>1. Pool!KnownTo(r, b) \subseteq Pool!KnownTo(wbTask[t], b)  BY <1>4, KnownToSame
  <2> QED BY <2>1, KnownOf
<1> QED BY <1>3, <1>4, <1>5, <1>8, <1>9, OneKeeps

\* The answer to what was sent.
LEMMA AnswerKeeps ==
  ASSUME Pool!WorkBuddyAssumption, Pool!WorkBuddyInv, NEW t \in Tasks, Pool!Answer(t)
  PROVE  Pool!WorkBuddyInv'
<1>t. wbTask[t] = [f \in DOMAIN Pool!Idle |-> wbTask[t][f]]  BY ShapeIs DEF Pool!Shaped
<1>u. UNCHANGED <<wbInst, accounts, flights, upstream, wbNow>> /\ wbTask[t].pc = "send"
  BY DEF Pool!Answer
<1>1. CASE Pool!Goes(t, Pool!Idle) /\ UNCHANGED chain
  <2>1. Pool!TaskFits(t)'  BY <1>1, GoesTo, PoolIdleFits
  <2> QED BY <1>1, <1>u, <2>1, KnownToIdle, OneKeeps
<1>2. ASSUME NEW change \in {"limit", "cooldown", "refused"}, Pool!Update(t, wbTask[t], change)
      PROVE  Pool!WorkBuddyInv'
  BY <1>2, <1>u, SentKeeps DEF Pool!Update
<1>3. CASE Pool!Goes(t, [wbTask[t] EXCEPT !.pc = "next"]) /\ UNCHANGED chain
  <2>1. PICK change : change = wbTask[t].change  OBVIOUS
  <2>2. [wbTask[t] EXCEPT !.pc = "next"] = [wbTask[t] EXCEPT !.pc = "next", !.change = change]
    BY <2>1, <1>t, Fields
  <2> QED BY <1>3, <1>u, <2>2, SentKeeps
<1> QED BY <1>1, <1>2, <1>3 DEF Pool!Answer, Pool!Rotate

\* The chains stay as they are.
LEMMA HeadsStay ==
  ASSUME Pool!WorkBuddyInv, UNCHANGED chain
  PROVE  /\ chain' \in [PoolProcesses -> Seq(Tasks)]
         /\ \A u \in Tasks : wbTask[u].pc = "writing" =>
               /\ chain'[wbTask[u].home] # <<>>
               /\ Head(chain'[wbTask[u].home]) = Head(chain[wbTask[u].home])
  BY ShapeIs DEF Pool!WorkBuddyInv, Pool!FilesFit, Pool!Upstreams, Pool!TaskFits

\* A refresh begins with the token that its task has, or is joined.
LEMMA RefreshKeeps ==
  ASSUME Pool!WorkBuddyAssumption, Pool!WorkBuddyInv, NEW t \in Tasks, Pool!Refresh(t)
  PROVE  Pool!WorkBuddyInv'
<1>t. /\ wbTask = [u \in Tasks |-> wbTask[u]]
      /\ Pool!FilesFit /\ Pool!TokensFit /\ Pool!Shaped(wbTask[t]) /\ Pool!TaskFits(t)
  BY ShapeIs DEF Pool!WorkBuddyInv
<1>u. UNCHANGED <<wbInst, accounts, chain, upstream, wbNow>> /\ wbTask[t].pc = "fresh"
  BY DEF Pool!Refresh
<1>1. PICK p \in PoolProcesses, a \in Accounts : p = wbTask[t].home /\ a = wbTask[t].uid
  BY <1>t, <1>u DEF Pool!Shaped
<1>2. /\ Pool!Goes(t, [wbTask[t] EXCEPT !.pc = "refresh"])
      /\ flights' = [flights EXCEPT ![p][a] = IF @ = None THEN wbTask[t].raw.token ELSE @]
  BY <1>1 DEF Pool!Refresh, Pool!Home
<1>3. PICK r : r = [wbTask[t] EXCEPT !.pc = "refresh"]  OBVIOUS
<1>4. /\ wbTask'[t] = r /\ \A u \in Tasks : u # t => wbTask'[u] = wbTask[u]
      /\ wbTask' = [u \in Tasks |-> wbTask'[u]]
  BY <1>2, <1>3, <1>t DEF Pool!Goes
<1>5. /\ r.pc = "refresh" /\ r.home = p /\ r.raw = wbTask[t].raw
      /\ r.account = wbTask[t].account /\ r.list = wbTask[t].list /\ r.left = wbTask[t].left
      /\ r.uid = a /\ r.job = wbTask[t].job
      /\ r = [f \in DOMAIN Pool!Idle |-> r[f]]
  BY <1>t, <1>1, <1>3, Fields DEF Pool!Shaped
<1>6. Pool!Shaped(wbTask'[t])  BY <1>1, <1>4, <1>5, <1>t, <1>u DEF Pool!Shaped
<1>7. wbTask[t].raw \in Pool!Stored /\ wbTask[t].raw.token \in upstream.expiring
      /\ wbTask[t].raw # None
  BY <1>t, <1>u, NoneApart DEF Pool!TaskFits
<1>8. Pool!TaskFits(t)'  BY <1>4, <1>5, <1>6, <1>7, <1>u DEF Pool!TaskFits
<1>9. \A b \in Accounts : Pool!KnownTo(r, b) \subseteq Pool!Known(b)
  <2> TAKE b \in Accounts
  <2>1. Pool!KnownTo(r, b) \subseteq Pool!KnownTo(wbTask[t], b)
    BY <1>1, <1>5, <1>u, KnownToSame
  <2> QED BY <2>1, KnownOf
<1>10. PICK k : k = wbTask[t].raw.token  OBVIOUS
<1>11. k \in Nat /\ k \in Pool!Known(a) /\ k \in upstream.expiring
  <2>1. k \in Pool!KnownTo(wbTask[t], a)  BY <1>1, <1>7, <1>10, <1>u, KnownToIs
  <2> QED BY <2>1, <1>7, <1>10, KnownOf, StoredFields
<1>12. PICK j \in Nat \cup {None} : j = IF flights[p][a] = None THEN k ELSE flights[p][a]
  BY <1>11, <1>t DEF Pool!FilesFit, Pool!Upstreams
<1>13. flights' = [flights EXCEPT ![p] = [flights[p] EXCEPT ![a] = j]]
  BY <1>2, <1>10, <1>12
<1>14. flights' \in [PoolProcesses -> [Accounts -> Nat \cup {None}]]
  BY <1>13, <1>t DEF Pool!FilesFit, Pool!Upstreams
<1>15. Pool!FilesFit'  BY <1>14, <1>t, <1>u DEF Pool!FilesFit, Pool!Upstreams, Pool!Given
<1>16. ASSUME NEW q \in PoolProcesses, NEW b \in Accounts, flights'[q][b] # None
       PROVE  /\ flights'[q][b] \in Pool!Known(b) /\ flights'[q][b] \in upstream.expiring
              /\ Pool!Joined(q, b)' # {}
  <2>1. CASE flights[q][b] # None
    <3>1. flights'[q][b] = flights[q][b]
      BY <2>1, <1>12, <1>13, <1>t DEF Pool!FilesFit, Pool!Upstreams
    <3>2. flights[q][b] \in Pool!Known(b)  BY <2>1, KnownIs
    <3>3. flights[q][b] \in upstream.expiring /\ Pool!Joined(q, b) # {}
      BY <2>1, <1>t DEF Pool!TokensFit
    <3>4. PICK u \in Pool!Joined(q, b) : TRUE  BY <3>3
    <3>5. u \in Pool!Joined(q, b)'
      BY <3>4, <1>4, <1>u DEF Pool!Joined, Pool!Home
    <3> QED BY <3>1, <3>2, <3>3, <3>5
  <2>2. CASE flights[q][b] = None
    <3>1. q = p /\ b = a /\ flights'[q][b] = k
      BY <2>2, <1>16, <1>12, <1>13, <1>t DEF Pool!FilesFit, Pool!Upstreams
    <3>2. t \in Pool!Joined(q, b)'  BY <3>1, <1>4, <1>5 DEF Pool!Joined, Pool!Home
    <3> QED BY <3>1, <3>2, <1>11
  <2> QED BY <2>1, <2>2
<1>17. \A u \in Tasks :
            \/ wbTask'[u] = wbTask[u]
            \/ Pool!TaskFits(u)' /\ \A b \in Accounts : Pool!KnownTo(wbTask'[u], b) \subseteq
                   Pool!Known(b) \cup {}
  <2> TAKE u \in Tasks
  <2>1. CASE u = t  BY <2>1, <1>4, <1>8, <1>9
  <2>2. CASE u # t  BY <2>2, <1>4
  <2> QED BY <2>1, <2>2
<1>18. wbNow <= wbNow'  BY <1>t, <1>u DEF Pool!FilesFit, Pool!Upstreams
<1> QED BY <1>4, <1>15, <1>16, <1>17, <1>18, <1>u, HeadsStay, PoolStepKeeps

\* The flights that a step leaves alone stay awaited where no task that awaits
\* one moves.
LEMMA FlightsStay ==
  ASSUME Pool!WorkBuddyInv, NEW p \in PoolProcesses, NEW a \in Accounts, flights[p][a] # None,
         \A u \in Pool!Joined(p, a) : wbTask'[u] = wbTask[u]
  PROVE  /\ flights[p][a] \in Pool!Known(a) /\ flights[p][a] \in upstream.expiring
         /\ Pool!Joined(p, a)' # {}
<1>2. flights[p][a] \in Pool!Known(a)  BY KnownIs
<1>3. flights[p][a] \in upstream.expiring /\ Pool!Joined(p, a) # {}
  BY DEF Pool!TokensFit, Pool!WorkBuddyInv
<1>4. PICK u \in Pool!Joined(p, a) : TRUE  BY <1>3
<1>5. u \in Pool!Joined(p, a)'  BY <1>4 DEF Pool!Joined, Pool!Home
<1> QED BY <1>2, <1>3, <1>5

\* A login has brought a pair, and waits for the update of its account.
LEMMA LoggedInKeeps ==
  ASSUME Pool!WorkBuddyAssumption, Pool!WorkBuddyInv, NEW t \in Tasks, Pool!LoggedIn(t)
  PROVE  Pool!WorkBuddyInv'
<1>t. /\ wbTask = [u \in Tasks |-> wbTask[u]]
      /\ Pool!FilesFit /\ Pool!TokensFit /\ Pool!Shaped(wbTask[t]) /\ Pool!TaskFits(t)
  BY ShapeIs DEF Pool!WorkBuddyInv
<1>u. UNCHANGED <<wbInst, accounts, flights, wbNow>> /\ wbTask[t].pc = "browser"
  BY DEF Pool!LoggedIn
<1>g. Pool!Given \in Nat  BY <1>t DEF Pool!FilesFit, Pool!Upstreams, Pool!Given
<1>1. PICK new : new = [token |-> Pool!Given + 1, needsLogin |-> FALSE,
                        cooldownUntil |-> 0, modelCooldown |-> 0]
  OBVIOUS
<1>2. new \in Pool!Stored /\ new.token = Pool!Given + 1 /\ new # None
  <2>1. PICK g \in Nat : g = Pool!Given + 1  BY <1>g
  <2>2. PICK off \in BOOLEAN : off = FALSE  OBVIOUS
  <2>3. PICK zero \in Nat : zero = 0  OBVIOUS
  <2>4. new = [token |-> g, needsLogin |-> off, cooldownUntil |-> zero, modelCooldown |-> zero]
    BY <1>1, <2>1, <2>2, <2>3
  <2>5. new \in Pool!Stored  BY <2>1, <2>2, <2>3, <2>4 DEF Pool!Stored
  <2>6. new # None  BY <2>5, NoneApart
  <2> QED BY <2>1, <2>4, <2>5, <2>6
<1>3. PICK q : q = [wbTask[t] EXCEPT !.account = new]  OBVIOUS
<1>4. PICK r : r = [q EXCEPT !.pc = "queued", !.change = "upsert"]  OBVIOUS
<1>5. /\ r.pc = "queued" /\ r.home = wbTask[t].home /\ r.raw = None
      /\ r.account = new /\ r.list = None /\ r.left = wbTask[t].left
      /\ r.uid = wbTask[t].uid /\ r.job = wbTask[t].job /\ r.change = "upsert"
      /\ r = [f \in DOMAIN Pool!Idle |-> r[f]] /\ q.home = wbTask[t].home
      /\ wbTask[t].uid \in Accounts
      /\ wbTask[t].home \in PoolProcesses /\ wbTask[t].job # "chat"
  BY <1>t, <1>u, <1>3, <1>4, Fields, FilesNotNone DEF Pool!Shaped
<1>6. /\ Pool!Goes(t, r) /\ chain' = [chain EXCEPT ![wbTask[t].home] = Append(@, t)]
      /\ Pool!Grant(wbTask[t].uid, None, None)
  BY <1>1, <1>3, <1>4, <1>5 DEF Pool!LoggedIn, Pool!Update
<1>7. /\ wbTask'[t] = r /\ \A u \in Tasks : u # t => wbTask'[u] = wbTask[u]
      /\ wbTask' = [u \in Tasks |-> wbTask'[u]]
  BY <1>6, <1>t DEF Pool!Goes
<1>8. /\ upstream'.from = Append(upstream.from, None)
      /\ upstream'.expiring = upstream.expiring
      /\ upstream' \in Pool!Upstreams
  <2>1. PICK live : live = [upstream.live EXCEPT ![wbTask[t].uid] =
                 (@ \ {None}) \cup {Pool!Given + 1}]
    OBVIOUS
  <2>2. live \in [Accounts -> SUBSET Nat]
    <3>1. PICK S \in SUBSET Nat : S =
                   (upstream.live[wbTask[t].uid] \ {None}) \cup {Pool!Given + 1}
      <4>1. upstream.live[wbTask[t].uid] \in SUBSET Nat
        BY <1>5, <1>t DEF Pool!FilesFit, Pool!Upstreams
      <4>2. Pool!Given + 1 \in Nat  BY <1>g
      <4> QED BY <4>1, <4>2
    <3>2. live = [upstream.live EXCEPT ![wbTask[t].uid] = S]  BY <2>1, <3>1
    <3> QED BY <3>2, <1>t DEF Pool!FilesFit, Pool!Upstreams
  <2>3. PICK from : from = Append(upstream.from, None)  OBVIOUS
  <2>4. from \in Seq(Nat \cup {None})  BY <2>3, <1>t DEF Pool!FilesFit, Pool!Upstreams
  <2>5. upstream' = [upstream EXCEPT !.live = live, !.from = from]
    BY <2>1, <2>3, <1>6, <1>t DEF Pool!Grant, Pool!FilesFit, Pool!Upstreams
  <2> QED BY <2>2, <2>3, <2>4, <2>5, <1>t DEF Pool!FilesFit, Pool!Upstreams
<1>9. Len(upstream'.from) = Pool!Given + 1
  BY <1>8, <1>t DEF Pool!FilesFit, Pool!Upstreams, Pool!Given
<1>10. Pool!FilesFit'
  BY <1>t, <1>u, <1>5, <1>6, <1>8, <1>9, <1>g, ChainAppends
     DEF Pool!FilesFit, Pool!Upstreams, Pool!Given
<1>11. Pool!Shaped(wbTask'[t])  BY <1>2, <1>5, <1>7 DEF Pool!Shaped
<1>12. Pool!Brings(wbTask'[t], upstream'.from)
  <2>1. Pool!Given + 1 \in DOMAIN upstream'.from /\ upstream'.from[Pool!Given + 1] = None
    BY <1>8, <1>g, <1>t DEF Pool!FilesFit, Pool!Upstreams, Pool!Given
  <2> QED BY <2>1, <1>2, <1>5, <1>7 DEF Pool!Brings, Pool!Changes
<1>13. Pool!TaskFits(t)'  BY <1>5, <1>7, <1>11, <1>12 DEF Pool!TaskFits
<1>0. PICK New : New = {Pool!Given + 1}  OBVIOUS
<1>14. \A b \in Accounts : Pool!KnownTo(r, b) \subseteq New
  BY <1>0, <1>2, <1>5, KnownToIs
<1>15. \A u \in Tasks :
            \/ wbTask'[u] = wbTask[u]
            \/ /\ Pool!TaskFits(u)'
               /\ \A b \in Accounts : Pool!KnownTo(wbTask'[u], b) \subseteq
                      Pool!Known(b) \cup New
  <2> TAKE u \in Tasks
  <2>1. CASE u = t  BY <2>1, <1>7, <1>13, <1>14
  <2>2. CASE u # t  BY <2>2, <1>7
  <2> QED BY <2>1, <2>2
<1>16. \A p \in PoolProcesses, b \in Accounts : flights'[p][b] # None =>
            /\ flights'[p][b] \in Pool!Known(b) /\ flights'[p][b] \in upstream.expiring
            /\ Pool!Joined(p, b)' # {}
  <2> TAKE p \in PoolProcesses, b \in Accounts
  <2>1. \A u \in Pool!Joined(p, b) : wbTask'[u] = wbTask[u]  BY <1>7, <1>u DEF Pool!Joined
  <2> QED BY <2>1, <1>u, FlightsStay
<1>17. wbNow <= wbNow'  BY <1>t, <1>u DEF Pool!FilesFit, Pool!Upstreams
<1>18. \A u \in Tasks : wbTask[u].pc = "writing" =>
               /\ chain'[wbTask[u].home] # <<>>
               /\ Head(chain'[wbTask[u].home]) = Head(chain[wbTask[u].home])
  BY <1>5, <1>6, ChainAppends
<1>19. \E f \in Nat \cup {None} : upstream'.from = Append(upstream.from, f)  BY <1>8
<1> QED BY <1>0, <1>19, <1>7, <1>8, <1>10, <1>15, <1>16, <1>17, <1>18, <1>u, PoolStepKeeps

\* The pool counts as everyone does.
LEMMA PoolFinite ==
  ASSUME NEW S
  PROVE  Pool!IsFiniteSet(S) <=> IsFiniteSet(S)
  BY DEF Pool!IsFiniteSet, IsFiniteSet

LEMMA PoolCardinality ==
  ASSUME NEW S
  PROVE  Pool!Cardinality(S) = Cardinality(S)
  BY DEF Pool!Cardinality, Cardinality

\* Tasks in an order are a sequence of tasks.
LEMMA OrdersAre ==
  ASSUME Pool!WorkBuddyAssumption, NEW S \in SUBSET Tasks, NEW q \in Pool!Orders(S)
  PROVE  q \in Seq(Tasks)
<1>1. IsFiniteSet(S)  BY PoolFinite, FS_Subset DEF Pool!WorkBuddyAssumption
<1>2. Pool!Cardinality(S) \in Nat  BY <1>1, PoolCardinality, FS_CardinalityType
<1>3. PICK n \in Nat : q \in [1 .. n -> S]  BY <1>2 DEF Pool!Orders
<1>4. q \in [1 .. n -> Tasks]  BY <1>3
<1> QED BY <1>4

\* The tasks that await a refresh go on with what it brought.
LEMMA ResumeKeeps ==
  ASSUME Pool!WorkBuddyAssumption, Pool!WorkBuddyInv, NEW p \in PoolProcesses,
         NEW a \in Accounts,
         NEW got, NEW New,
         \/ New = {} /\ upstream'.from = upstream.from
         \/ New = {Pool!Given + 1} /\ \E f \in Nat \cup {None} :
                                    upstream'.from = Append(upstream.from, f),
         UNCHANGED <<wbInst, accounts, wbNow>>,
         upstream'.expiring = upstream.expiring,
         upstream' \in Pool!Upstreams,
         Pool!Resume(p, a, got),
         \A u \in Pool!Joined(p, a) :
            /\ wbTask'[u] = got[u] => Pool!TaskFits(u)'
            /\ \A b \in Accounts : Pool!KnownTo(got[u], b) \subseteq Pool!Known(b) \cup New
  PROVE  Pool!WorkBuddyInv'
<1>t. wbTask = [u \in Tasks |-> wbTask[u]] /\ Pool!FilesFit /\ Pool!TokensFit
  BY DEF Pool!WorkBuddyInv
<1>1. wbTask' = [t \in Tasks |-> IF t \in Pool!Joined(p, a) THEN got[t] ELSE wbTask[t]]
  BY DEF Pool!Resume
<1>2. /\ \A u \in Pool!Joined(p, a) : u \in Tasks /\ wbTask'[u] = got[u]
      /\ \A u \in Tasks : u \notin Pool!Joined(p, a) => wbTask'[u] = wbTask[u]
      /\ wbTask' = [u \in Tasks |-> wbTask'[u]]
  BY <1>1 DEF Pool!Joined
<1>3. flights' = [flights EXCEPT ![p] = [flights[p] EXCEPT ![a] = None]]
  BY DEF Pool!Resume
<1>4. /\ flights' \in [PoolProcesses -> [Accounts -> Nat \cup {None}]]
      /\ flights'[p][a] = None
      /\ \A q \in PoolProcesses, b \in Accounts :
            q # p \/ b # a => flights'[q][b] = flights[q][b]
  BY <1>3, <1>t DEF Pool!FilesFit, Pool!Upstreams
<1>5. PICK S : S = {t \in Pool!Joined(p, a) : got[t].pc = "queued"}  OBVIOUS
<1>6. PICK order \in Pool!Orders(S) : chain' = [chain EXCEPT ![p] = @ \o order]
  BY <1>5 DEF Pool!Resume
<1>7. order \in Seq(Tasks)
  <2>1. S \in SUBSET Tasks  BY <1>5 DEF Pool!Joined
  <2> QED BY <2>1, <1>6, OrdersAre
<1>8. /\ chain' \in [PoolProcesses -> Seq(Tasks)]
      /\ \A u \in Tasks : wbTask[u].pc = "writing" =>
               /\ chain'[wbTask[u].home] # <<>>
               /\ Head(chain'[wbTask[u].home]) = Head(chain[wbTask[u].home])
  BY <1>6, <1>7, ChainGrows
<1>9. upstream'.expiring \subseteq 0 .. Pool!Given'
  <2>1. upstream.from \in Seq(Nat \cup {None})  BY <1>t DEF Pool!FilesFit, Pool!Upstreams
  <2>2. CASE upstream'.from = upstream.from
    <3>1. Pool!Given' = Pool!Given  BY <2>2 DEF Pool!Given
    <3> QED BY <3>1, <1>t DEF Pool!FilesFit, Pool!Upstreams
  <2>3. CASE \E f \in Nat \cup {None} : upstream'.from = Append(upstream.from, f)
    <3>1. Pool!Given \in Nat /\ Pool!Given' = Pool!Given + 1  BY <2>1, <2>3 DEF Pool!Given
    <3>2. upstream.expiring \subseteq 0 .. Pool!Given  BY <1>t DEF Pool!FilesFit, Pool!Upstreams
    <3> QED BY <3>1, <3>2
  <2> QED BY <2>2, <2>3
<1>10. Pool!FilesFit'  BY <1>t, <1>4, <1>8, <1>9 DEF Pool!FilesFit, Pool!Upstreams
<1>11. ASSUME NEW q \in PoolProcesses, NEW b \in Accounts, flights'[q][b] # None
       PROVE  /\ flights'[q][b] \in Pool!Known(b) /\ flights'[q][b] \in upstream.expiring
              /\ Pool!Joined(q, b)' # {}
  <2>1. (q # p \/ b # a) /\ flights'[q][b] = flights[q][b] /\ flights[q][b] # None
    BY <1>4, <1>11
  <2>2. \A u \in Pool!Joined(q, b) : wbTask'[u] = wbTask[u]
    BY <2>1, <1>2 DEF Pool!Joined
  <2> QED BY <2>1, <2>2, FlightsStay
<1>12. \A u \in Tasks :
            \/ wbTask'[u] = wbTask[u]
            \/ Pool!TaskFits(u)' /\ \A b \in Accounts : Pool!KnownTo(wbTask'[u], b) \subseteq
                   Pool!Known(b) \cup New
  <2> TAKE u \in Tasks
  <2>1. CASE u \in Pool!Joined(p, a)  BY <2>1, <1>2
  <2>2. CASE u \notin Pool!Joined(p, a)  BY <2>2, <1>2
  <2> QED BY <2>1, <2>2
<1>13. wbNow <= wbNow'  BY <1>t DEF Pool!FilesFit, Pool!Upstreams
<1> QED BY <1>2, <1>8, <1>10, <1>11, <1>12, <1>13, PoolStepKeeps

\* Who awaits a refresh awaits that of the pair it has.
LEMMA JoinedHas ==
  ASSUME Pool!WorkBuddyAssumption, Pool!WorkBuddyInv, NEW p \in PoolProcesses,
         NEW a \in Accounts,
         flights[p][a] # None, NEW t \in Pool!Joined(p, a)
  PROVE  /\ t \in Tasks /\ Pool!Shaped(wbTask[t]) /\ wbTask[t].pc = "refresh"
         /\ wbTask[t].home = p /\ wbTask[t].uid = a
         /\ wbTask[t].raw \in Pool!Stored /\ wbTask[t].raw.token = flights[p][a]
<1>1. t \in Tasks /\ wbTask[t].pc = "refresh" /\ wbTask[t].home = p /\ wbTask[t].uid = a
  BY DEF Pool!Joined, Pool!Home
<1>2. Pool!Shaped(wbTask[t]) /\ wbTask[t].raw \in Pool!Stored
      /\ wbTask[t].raw.token \in upstream.expiring
  BY <1>1, ShapeIs DEF Pool!TaskFits
<1>3. wbTask[t].raw.token \in Pool!Known(a)
  BY <1>1, <1>2, KnownToIs, KnownOf, NoneApart
<1>4. flights[p][a] \in Pool!Known(a)  BY KnownIs
<1>5. flights[p][a] \in upstream.expiring
      /\ \A x, y \in Pool!Known(a) \cap upstream.expiring : x = y
  BY DEF Pool!WorkBuddyInv, Pool!TokensFit
<1> QED BY <1>1, <1>2, <1>3, <1>4, <1>5

\* The refresh throws.
LEMMA PoolRefreshFailsKeeps ==
  ASSUME Pool!WorkBuddyAssumption, Pool!WorkBuddyInv, NEW p \in PoolProcesses,
         NEW a \in Accounts,
         Pool!RefreshFails(p, a)
  PROVE  Pool!WorkBuddyInv'
<1>t. Pool!FilesFit  BY DEF Pool!WorkBuddyInv
<1>1. PICK got : /\ got = [t \in Pool!Joined(p, a) |->
                               IF wbTask[t].job = "chat" /\ Pool!More(t)
                               THEN [wbTask[t] EXCEPT !.pc = "next"] ELSE Pool!Idle]
                 /\ Pool!Resume(p, a, got)
  BY DEF Pool!RefreshFails
<1>u. UNCHANGED <<wbInst, accounts, wbNow, upstream>> /\ flights[p][a] # None
  BY DEF Pool!RefreshFails
<1>2. ASSUME NEW u \in Pool!Joined(p, a)
      PROVE  /\ wbTask'[u] = got[u] => Pool!TaskFits(u)'
             /\ \A b \in Accounts : Pool!KnownTo(got[u], b) \subseteq Pool!Known(b) \cup {}
  <2>t. u \in Tasks /\ Pool!Shaped(wbTask[u]) /\ wbTask[u].pc = "refresh"  BY <1>u, JoinedHas
  <2>1. CASE got[u] = Pool!Idle
    BY <2>1, <2>t, PoolIdleFits, KnownToIdle
  <2>2. CASE got[u] = [wbTask[u] EXCEPT !.pc = "next"] /\ wbTask[u].job = "chat"
    <3>1. PICK r : r = [wbTask[u] EXCEPT !.pc = "next"]  OBVIOUS
    <3>2. /\ r.pc = "next" /\ r.home = wbTask[u].home /\ r.raw = wbTask[u].raw
          /\ r.account = wbTask[u].account /\ r.list = wbTask[u].list /\ r.left = wbTask[u].left
          /\ r.uid = wbTask[u].uid /\ r.job = "chat"
          /\ r = [f \in DOMAIN Pool!Idle |-> r[f]]
      BY <2>t, <2>2, <3>1, Fields DEF Pool!Shaped
    <3>3. Pool!Shaped(r)  BY <3>2, <2>t, <2>2 DEF Pool!Shaped
    <3>4. wbTask'[u] = r => Pool!TaskFits(u)'  BY <3>2, <3>3 DEF Pool!TaskFits
    <3>5. \A b \in Accounts : Pool!KnownTo(r, b) \subseteq Pool!Known(b)
      <4> TAKE b \in Accounts
      <4>1. Pool!KnownTo(r, b) \subseteq Pool!KnownTo(wbTask[u], b)  BY <3>2, <2>t, KnownToSame
      <4> QED BY <4>1, <2>t, KnownOf
    <3> QED BY <2>2, <3>1, <3>4, <3>5
  <2> QED BY <1>1, <2>1, <2>2
<1>3. /\ upstream'.from = upstream.from /\ upstream'.expiring = upstream.expiring
      /\ upstream' \in Pool!Upstreams
  BY <1>t, <1>u DEF Pool!FilesFit, Pool!Upstreams
<1>4. UNCHANGED <<wbInst, accounts, wbNow>> /\ Pool!Resume(p, a, got)  BY <1>1, <1>u
<1>5. PICK New : New = {}  OBVIOUS
<1>6. \A u \in Pool!Joined(p, a) :
            /\ wbTask'[u] = got[u] => Pool!TaskFits(u)'
            /\ \A b \in Accounts : Pool!KnownTo(got[u], b) \subseteq Pool!Known(b) \cup New
  BY <1>2, <1>5
<1> QED BY <1>3, <1>4, <1>5, <1>6, ResumeKeeps

\* The token was spent before.
LEMMA RefreshRefusedKeeps ==
  ASSUME Pool!WorkBuddyAssumption, Pool!WorkBuddyInv, NEW p \in PoolProcesses,
         NEW a \in Accounts,
         Pool!RefreshRefused(p, a)
  PROVE  Pool!WorkBuddyInv'
<1>t. Pool!FilesFit  BY DEF Pool!WorkBuddyInv
<1>1. PICK got : /\ got = [t \in Pool!Joined(p, a) |->
                              IF wbTask[t].job = "hook" THEN Pool!Idle
                              ELSE [wbTask[t] EXCEPT !.pc = "queued", !.change = "relogin"]]
                 /\ Pool!Resume(p, a, got)
  BY DEF Pool!RefreshRefused
<1>u. UNCHANGED <<wbInst, accounts, wbNow, upstream>> /\ flights[p][a] # None
  BY DEF Pool!RefreshRefused
<1>2. ASSUME NEW u \in Pool!Joined(p, a)
      PROVE  /\ wbTask'[u] = got[u] => Pool!TaskFits(u)'
             /\ \A b \in Accounts : Pool!KnownTo(got[u], b) \subseteq Pool!Known(b) \cup {}
  <2>t. u \in Tasks /\ Pool!Shaped(wbTask[u]) /\ wbTask[u].pc =
            "refresh" /\ wbTask[u].raw \in Pool!Stored
    BY <1>u, JoinedHas
  <2>1. CASE got[u] = Pool!Idle
    BY <2>1, <2>t, PoolIdleFits, KnownToIdle
  <2>2. CASE got[u] = [wbTask[u] EXCEPT !.pc = "queued", !.change = "relogin"]
    <3>1. PICK r : r = [wbTask[u] EXCEPT !.pc = "queued", !.change = "relogin"]  OBVIOUS
    <3>2. /\ r.pc = "queued" /\ r.home = wbTask[u].home /\ r.raw = wbTask[u].raw
          /\ r.account = wbTask[u].account /\ r.list = wbTask[u].list /\ r.left = wbTask[u].left
          /\ r.uid = wbTask[u].uid /\ r.job = wbTask[u].job /\ r.change = "relogin"
          /\ r = [f \in DOMAIN Pool!Idle |-> r[f]]
      BY <2>t, <3>1, Fields DEF Pool!Shaped
    <3>3. Pool!Shaped(r)  BY <3>2, <2>t DEF Pool!Shaped
    <3>4. Pool!Brings(r, upstream'.from)  BY <3>2, <2>t DEF Pool!Brings, Pool!Changes
    <3>5. wbTask'[u] = r => Pool!TaskFits(u)'  BY <3>2, <3>3, <3>4 DEF Pool!TaskFits
    <3>6. \A b \in Accounts : Pool!KnownTo(r, b) \subseteq Pool!Known(b)
      <4> TAKE b \in Accounts
      <4>1. Pool!KnownTo(r, b) \subseteq Pool!KnownTo(wbTask[u], b)  BY <3>2, <2>t, KnownToSame
      <4> QED BY <4>1, <2>t, KnownOf
    <3> QED BY <2>2, <3>1, <3>5, <3>6
  <2> QED BY <1>1, <2>1, <2>2
<1>3. /\ upstream'.from = upstream.from /\ upstream'.expiring = upstream.expiring
      /\ upstream' \in Pool!Upstreams
  BY <1>t, <1>u DEF Pool!FilesFit, Pool!Upstreams
<1>4. UNCHANGED <<wbInst, accounts, wbNow>> /\ Pool!Resume(p, a, got)  BY <1>1, <1>u
<1>5. PICK New : New = {}  OBVIOUS
<1>6. \A u \in Pool!Joined(p, a) :
            /\ wbTask'[u] = got[u] => Pool!TaskFits(u)'
            /\ \A b \in Accounts : Pool!KnownTo(got[u], b) \subseteq Pool!Known(b) \cup New
  BY <1>2, <1>5
<1> QED BY <1>3, <1>4, <1>5, <1>6, ResumeKeeps

\* The pair that comes was made out of the one that every task which waits has.
LEMMA RefreshOkKeeps ==
  ASSUME Pool!WorkBuddyAssumption, Pool!WorkBuddyInv, NEW p \in PoolProcesses,
         NEW a \in Accounts,
         Pool!RefreshOk(p, a)
  PROVE  Pool!WorkBuddyInv'
<1>t. Pool!FilesFit  BY DEF Pool!WorkBuddyInv
<1>g. Pool!Given \in Nat  BY <1>t DEF Pool!FilesFit, Pool!Upstreams, Pool!Given
<1>1. PICK got : /\ got = [t \in Pool!Joined(p, a) |-> [wbTask[t] EXCEPT
                     !.pc = "queued",
                     !.change = IF wbTask[t].job = "hook" THEN "renew" ELSE "tokens",
                     !.account = [wbTask[t].raw EXCEPT !.token = Pool!Given + 1, !.needsLogin =
                         FALSE]]]
                 /\ Pool!Resume(p, a, got)
  BY DEF Pool!RefreshOk
<1>u. UNCHANGED <<wbInst, accounts, wbNow>> /\ flights[p][a] # None
      /\ Pool!Grant(a, flights[p][a], flights[p][a])
  BY DEF Pool!RefreshOk
<1>2. PICK spent \in Nat : spent = flights[p][a]
  BY <1>t, <1>u DEF Pool!FilesFit, Pool!Upstreams
<1>3. /\ upstream'.from = Append(upstream.from, spent)
      /\ upstream'.expiring = upstream.expiring
      /\ upstream' \in Pool!Upstreams
  <2>1. PICK S \in SUBSET Nat : S = (upstream.live[a] \ {spent}) \cup {Pool!Given + 1}
    <3>1. upstream.live[a] \in SUBSET Nat  BY <1>t DEF Pool!FilesFit, Pool!Upstreams
    <3>2. Pool!Given + 1 \in Nat  BY <1>g
    <3> QED BY <3>1, <3>2
  <2>2. PICK live : live = [upstream.live EXCEPT ![a] = S]  OBVIOUS
  <2>3. live \in [Accounts -> SUBSET Nat]  BY <2>1, <2>2, <1>t DEF Pool!FilesFit, Pool!Upstreams
  <2>4. PICK from : from = Append(upstream.from, spent)  OBVIOUS
  <2>5. from \in Seq(Nat \cup {None})  BY <2>4, <1>2, <1>t DEF Pool!FilesFit, Pool!Upstreams
  <2>6. upstream' = [upstream EXCEPT !.live = live, !.from = from]
    BY <2>1, <2>2, <2>4, <1>2, <1>u, <1>t DEF Pool!Grant, Pool!FilesFit, Pool!Upstreams
  <2> QED BY <2>3, <2>4, <2>5, <2>6, <1>t DEF Pool!FilesFit, Pool!Upstreams
<1>4. Pool!Given + 1 \in DOMAIN upstream'.from /\ upstream'.from[Pool!Given + 1] = spent
  BY <1>3, <1>g, <1>t DEF Pool!FilesFit, Pool!Upstreams, Pool!Given
<1>5. ASSUME NEW u \in Pool!Joined(p, a)
      PROVE  /\ wbTask'[u] = got[u] => Pool!TaskFits(u)'
             /\ \A b \in Accounts : Pool!KnownTo(got[u], b) \subseteq
                    Pool!Known(b) \cup {Pool!Given + 1}
  <2>t. /\ u \in Tasks /\ Pool!Shaped(wbTask[u]) /\ wbTask[u].pc = "refresh" /\ wbTask[u].uid =
               a
        /\ wbTask[u].raw \in Pool!Stored /\ wbTask[u].raw.token = spent
    BY <1>u, <1>2, JoinedHas
  <2>1. PICK new : new = [wbTask[u].raw EXCEPT !.token = Pool!Given + 1, !.needsLogin = FALSE]
    OBVIOUS
  <2>2. new \in Pool!Stored /\ new.token = Pool!Given + 1 /\ new # None
    <3>1. PICK n \in Nat : n = Pool!Given + 1  BY <1>g
    <3>2. PICK off \in BOOLEAN : off = FALSE  OBVIOUS
    <3>3. new = [wbTask[u].raw EXCEPT !.token = n, !.needsLogin = off]  BY <2>1, <3>1, <3>2
    <3>4. new \in Pool!Stored /\ new.token = n  BY <3>3, <2>t DEF Pool!Stored
    <3> QED BY <3>1, <3>4, NoneApart
  <2>3. PICK change \in {"renew", "tokens"} :
           change = IF wbTask[u].job = "hook" THEN "renew" ELSE "tokens"
    OBVIOUS
  <2>4. PICK r : r = [wbTask[u] EXCEPT !.pc = "queued", !.change = change, !.account = new]
    OBVIOUS
  <2>5. got[u] = r  BY <1>1, <2>1, <2>3, <2>4
  <2>6. /\ r.pc = "queued" /\ r.home = wbTask[u].home /\ r.raw = wbTask[u].raw
        /\ r.account = new /\ r.list = wbTask[u].list /\ r.left = wbTask[u].left
        /\ r.uid = a /\ r.job = wbTask[u].job /\ r.change = change
        /\ r = [f \in DOMAIN Pool!Idle |-> r[f]]
    BY <2>t, <2>4, Fields DEF Pool!Shaped
  <2>7. Pool!Shaped(r)  BY <2>2, <2>6, <2>t DEF Pool!Shaped
  <2>8. Pool!Brings(r, upstream'.from)
    BY <2>2, <2>3, <2>6, <2>t, <1>4 DEF Pool!Brings, Pool!Changes
  <2>9. wbTask'[u] = r => Pool!TaskFits(u)'  BY <2>6, <2>7, <2>8 DEF Pool!TaskFits
  <2>10. \A b \in Accounts : Pool!KnownTo(r, b) \subseteq Pool!Known(b) \cup {Pool!Given + 1}
    <3> TAKE b \in Accounts
    <3> SUFFICES ASSUME NEW x \in Pool!KnownTo(r, b)  PROVE
                     x \in Pool!Known(b) \cup {Pool!Given + 1}  OBVIOUS
    <3>1. CASE x = Pool!Given + 1  BY <3>1
    <3>2. CASE x # Pool!Given + 1
      <4>1. x \in Pool!KnownTo(wbTask[u], b)  BY <3>2, <2>2, <2>6, <2>t, KnownToIs
      <4> QED BY <4>1, <2>t, KnownOf
    <3> QED BY <3>1, <3>2
  <2> QED BY <2>5, <2>9, <2>10
<1>6. PICK New : New = {Pool!Given + 1}  OBVIOUS
<1>7. \E f \in Nat \cup {None} : upstream'.from = Append(upstream.from, f)  BY <1>2, <1>3
<1>8. \A u \in Pool!Joined(p, a) :
            /\ wbTask'[u] = got[u] => Pool!TaskFits(u)'
            /\ \A b \in Accounts : Pool!KnownTo(got[u], b) \subseteq Pool!Known(b) \cup New
  BY <1>5, <1>6
<1>9. UNCHANGED <<wbInst, accounts, wbNow>> /\ Pool!Resume(p, a, got)  BY <1>1, <1>u
<1>10. upstream'.expiring = upstream.expiring
       /\ upstream' \in Pool!Upstreams
  BY <1>3
<1>11. \/ New = {} /\ upstream'.from = upstream.from
       \/ New = {Pool!Given + 1} /\ \E f \in Nat \cup {None} :
                                  upstream'.from = Append(upstream.from, f)
  BY <1>6, <1>7
<1> QED BY <1>8, <1>9, <1>10, <1>11, ResumeKeeps

\* Nothing but the record of what is live, the time or a bound changes.
LEMMA PoolQuietKeeps ==
  ASSUME Pool!WorkBuddyAssumption, Pool!WorkBuddyInv,
         UNCHANGED <<wbInst, accounts, chain, flights, wbTask>>,
         wbNow' \in Nat, wbNow <= wbNow',
         upstream'.from = upstream.from, upstream'.expiring = upstream.expiring,
         upstream' \in Pool!Upstreams
  PROVE  Pool!WorkBuddyInv'
<1>t. wbTask = [u \in Tasks |-> wbTask[u]] /\ Pool!FilesFit  BY DEF Pool!WorkBuddyInv
<1>1. Pool!FilesFit'  BY <1>t DEF Pool!FilesFit, Pool!Upstreams, Pool!Given
<1>2. \A p \in PoolProcesses, a \in Accounts : flights'[p][a] # None =>
            /\ flights'[p][a] \in Pool!Known(a) /\ flights'[p][a] \in upstream.expiring
            /\ Pool!Joined(p, a)' # {}
  BY FlightsStay
<1>3. PICK New : New = {}  OBVIOUS
<1>4. wbTask' = [u \in Tasks |-> wbTask'[u]] /\ \A u \in Tasks : wbTask'[u] = wbTask[u]  BY <1>t
<1> QED BY <1>1, <1>2, <1>3, <1>4, HeadsStay, PoolStepKeeps

\* Upstream ends the sessions of an account.
LEMMA RevokeKeeps ==
  ASSUME Pool!WorkBuddyAssumption, Pool!WorkBuddyInv, NEW a \in Accounts, Pool!Revoke(a)
  PROVE  Pool!WorkBuddyInv'
<1>t. Pool!FilesFit  BY DEF Pool!WorkBuddyInv
<1>1. PICK live : live = [upstream.live EXCEPT ![a] = {}]  OBVIOUS
<1>2. live \in [Accounts -> SUBSET Nat]  BY <1>1, <1>t DEF Pool!FilesFit, Pool!Upstreams
<1>3. upstream' = [upstream EXCEPT !.live = live]
  BY <1>1, <1>t DEF Pool!Revoke, Pool!FilesFit, Pool!Upstreams
<1>4. UNCHANGED <<wbInst, accounts, chain, flights, wbTask, wbNow>>  BY DEF Pool!Revoke
<1>5. wbNow' \in Nat /\ wbNow <= wbNow'  BY <1>4, <1>t DEF Pool!FilesFit, Pool!Upstreams
<1>6. /\ upstream'.from = upstream.from /\ upstream'.expiring = upstream.expiring
      /\ upstream' \in Pool!Upstreams
  BY <1>2, <1>3, <1>t DEF Pool!FilesFit, Pool!Upstreams
<1> QED BY <1>4, <1>5, <1>6, PoolQuietKeeps

\* No request runs while a pair comes close to its expiry.
LEMMA ExpireKeeps ==
  ASSUME Pool!WorkBuddyAssumption, Pool!WorkBuddyInv, NEW a \in Accounts, Pool!Expire(a)
  PROVE  Pool!WorkBuddyInv'
<1>t. wbTask = [u \in Tasks |-> wbTask[u]] /\ Pool!FilesFit /\ Pool!TokensFit
  BY DEF Pool!WorkBuddyInv
<1>u. /\ UNCHANGED <<wbInst, accounts, chain, flights, wbTask, wbNow, wbStarts>>
      /\ accounts[a] # None /\ \A t \in Tasks : wbTask[t].pc \in {"idle", "browser"}
      /\ upstream' = [upstream EXCEPT !.expiring = @ \cup {accounts[a].token}]
  BY DEF Pool!Expire
<1>1. accounts[a].token \in Nat /\ accounts[a].token \in 0 .. Pool!Given
  <2>1. accounts[a] \in Pool!Stored  BY <1>t, <1>u DEF Pool!FilesFit, Pool!Upstreams, Pool!Files
  <2>2. accounts[a].token \in Pool!Known(a)  BY <1>u, KnownIs
  <2> QED BY <2>1, <2>2, <1>t, StoredFields DEF Pool!TokensFit
<1>2. PICK S \in SUBSET Nat : S = upstream.expiring \cup {accounts[a].token}
  BY <1>1, <1>t DEF Pool!FilesFit, Pool!Upstreams
<1>3. upstream' = [upstream EXCEPT !.expiring = S]
  BY <1>2, <1>u, <1>t DEF Pool!FilesFit, Pool!Upstreams
<1>4. /\ upstream' \in Pool!Upstreams
      /\ upstream'.from = upstream.from /\ upstream'.expiring = S
  BY <1>3, <1>t DEF Pool!FilesFit, Pool!Upstreams
<1>5. Pool!FilesFit'
  <2>1. Pool!Given' = Pool!Given  BY <1>4 DEF Pool!Given
  <2>2. upstream.expiring \subseteq 0 .. Pool!Given  BY <1>t DEF Pool!FilesFit, Pool!Upstreams
  <2>3. upstream'.expiring \subseteq 0 .. Pool!Given'  BY <2>1, <2>2, <1>1, <1>2, <1>4
  <2> QED BY <2>3, <1>4, <1>t, <1>u DEF Pool!FilesFit, Pool!Upstreams
<1>6. \A p \in PoolProcesses, b \in Accounts : flights[p][b] = None
  BY <1>u, <1>t DEF Pool!TokensFit, Pool!Joined
<1>7. \A b \in Accounts : Pool!Known(b)' = (IF accounts[b] =
          None THEN {} ELSE {accounts[b].token})
  <2> TAKE b \in Accounts
  <2>1. \A u \in Tasks : Pool!KnownTo(wbTask'[u], b) = {}  BY <1>u DEF Pool!KnownTo
  <2> QED BY <2>1, <1>u, <1>6, KnownThen
<1>8. Pool!TokensFit'
  <2> SUFFICES ASSUME NEW b \in Accounts
               PROVE  /\ Pool!Known(b)' \subseteq 0 .. Pool!Given'
                      /\ \A x, y \in Pool!Known(b)' \cap upstream'.expiring : x = y
                      /\ \A p \in PoolProcesses : flights'[p][b] # None =>
                            flights'[p][b] \in upstream'.expiring /\ Pool!Joined(p, b)' # {}
    BY DEF Pool!TokensFit
  <2>1. Pool!Known(b)' \subseteq Pool!Known(b)  BY <1>7, KnownIs
  <2>2. Pool!Given' = Pool!Given  BY <1>4 DEF Pool!Given
  <2>3. Pool!Known(b) \subseteq 0 .. Pool!Given  BY <1>t DEF Pool!TokensFit
  <2> QED BY <2>1, <2>2, <2>3, <1>6, <1>7, <1>u
<1>9. ASSUME NEW u \in Tasks
      PROVE  Pool!TaskFits(u)'
  <2>1. Pool!Shaped(wbTask'[u])  BY <1>u, ShapeIs
  <2> QED BY <2>1, <1>u DEF Pool!TaskFits
<1> QED BY <1>5, <1>8, <1>9, <1>u, <1>t DEF Pool!WorkBuddyInv

\* Nothing happens.
LEMMA StutterKeeps ==
  ASSUME Pool!WorkBuddyAssumption, Pool!WorkBuddyInv, UNCHANGED workbuddyVars
  PROVE  Pool!WorkBuddyInv'
<1>t. Pool!FilesFit  BY DEF Pool!WorkBuddyInv
<1>1. UNCHANGED <<wbInst, accounts, chain, flights, wbTask, upstream, wbNow>>
  BY DEF workbuddyVars
<1>2. wbNow' \in Nat /\ wbNow <= wbNow'  BY <1>1, <1>t DEF Pool!FilesFit, Pool!Upstreams
<1>3. upstream' \in Pool!Upstreams
  BY <1>1, <1>t DEF Pool!FilesFit, Pool!Upstreams
<1> QED BY <1>1, <1>2, <1>3, PoolQuietKeeps

\* Time passes.
LEMMA PassKeeps ==
  ASSUME Pool!WorkBuddyAssumption, Pool!WorkBuddyInv, Pool!Pass
  PROVE  Pool!WorkBuddyInv'
<1>t. Pool!FilesFit  BY DEF Pool!WorkBuddyInv
<1>1. UNCHANGED <<wbInst, accounts, chain, flights, wbTask, upstream>> /\ wbNow' = wbNow + 1
  BY DEF Pool!Pass
<1>2. wbNow' \in Nat /\ wbNow <= wbNow'  BY <1>1, <1>t DEF Pool!FilesFit, Pool!Upstreams
<1>3. upstream' \in Pool!Upstreams
  BY <1>1, <1>t DEF Pool!FilesFit, Pool!Upstreams
<1> QED BY <1>1, <1>2, <1>3, PoolQuietKeeps

\* What an update makes of the file: the account of the task is gone, or has
\* the token it had or the one that the task brings.
LEMMA ChangedAre ==
  ASSUME NEW data \in Pool!Files, NEW r, NEW from, NEW time \in Nat,
         Pool!WorkBuddyAssumption, r.uid \in Accounts, Pool!Brings(r, from)
  PROVE  /\ Pool!Changed(data, r, time) \in Pool!Files
         /\ \A b \in Accounts \ {r.uid} : Pool!Changed(data, r, time)[b] = data[b]
         /\ Pool!Changed(data, r, time)[r.uid] # None =>
              \/ data[r.uid] # None /\ Pool!Changed(data, r, time)[r.uid].token =
                     data[r.uid].token
              \/ /\ r.account # None /\ Pool!Changed(data, r, time)[r.uid].token =
                        r.account.token
                 /\ data[r.uid] # None =>
                       from[r.account.token] \in {None, data[r.uid].token}
<1>0. None \notin Pool!Stored  BY NoneApart
<1> DEFINE old == data[r.uid]
           new ==
           IF r.change = "upsert"
           THEN IF old = None THEN r.account ELSE [old EXCEPT !.token = r.account.token]
           ELSE IF old = None THEN None
           ELSE CASE r.change = "remove" -> None
             [] r.change = "relogin" ->
                  IF old.token = r.raw.token THEN [old EXCEPT !.needsLogin = TRUE] ELSE old
             [] r.change = "tokens" ->
                  IF old.token = r.raw.token
                  THEN [old EXCEPT !.token = r.account.token, !.needsLogin = FALSE] ELSE old
             [] r.change = "renew" ->
                  IF old.token = r.raw.token THEN [old EXCEPT !.token =
                      r.account.token] ELSE old
             [] r.change = "cooldown" -> [old EXCEPT !.cooldownUntil = time + 1]
             [] r.change = "limit" -> [old EXCEPT !.modelCooldown = time + 1]
             [] r.change = "refused" -> [old EXCEPT !.needsLogin = TRUE]
<1>1. Pool!Changed(data, r, time) = [data EXCEPT ![r.uid] = new]
  BY DEF Pool!Changed
<1>2. old \in Pool!Stored \cup {None}  BY DEF Pool!Files
<1>3. r.change \in Pool!Changes /\ (r.change \in {"upsert", "tokens", "renew"} =>
          /\ r.account \in Pool!Stored
          /\ from[r.account.token] = IF r.change = "upsert" THEN None ELSE r.raw.token)
  BY DEF Pool!Brings
<1>4. /\ new \in Pool!Stored \cup {None}
      /\ new # None =>
              \/ old # None /\ new.token = old.token
              \/ /\ r.account # None /\ new.token = r.account.token
                 /\ old # None => from[r.account.token] \in {None, old.token}
  <2> HIDE DEF old
  <2>1. CASE r.change = "upsert"
    <3>1. CASE old = None  BY <2>1, <3>1, <1>3, <1>0
    <3>2. CASE old # None
      <4>1. new = [old EXCEPT !.token = r.account.token]  BY <2>1, <3>2
      <4>2. new \in Pool!Stored /\ new.token = r.account.token
        BY <4>1, <3>2, <1>2, <1>3, <2>1, StoredFields DEF Pool!Stored
      <4> QED BY <4>2, <1>0, <1>3, <2>1
    <3> QED BY <3>1, <3>2
  <2>2. CASE r.change = "remove"  BY <2>2 DEF Pool!Changes
  <2>3. CASE r.change # "upsert" /\ old = None  BY <2>3, <1>3 DEF Pool!Changes
  <2>4. CASE r.change = "relogin" /\ old # None
    <3>1. PICK on \in BOOLEAN : on = TRUE  OBVIOUS
    <3>2. new = IF old.token = r.raw.token THEN [old EXCEPT !.needsLogin = on] ELSE old
      BY <2>4, <3>1
    <3> QED BY <3>2, <1>2, <2>4 DEF Pool!Stored
  <2>5. CASE r.change \in {"tokens", "renew"} /\ old # None
    <3>1. CASE old.token # r.raw.token
      <4>1. new = old  BY <2>5, <3>1
      <4> QED BY <4>1, <1>2, <2>5
    <3>2. CASE old.token = r.raw.token /\ r.change = "tokens"
      <4>1. PICK off \in BOOLEAN : off = FALSE  OBVIOUS
      <4>2. new = [old EXCEPT !.token = r.account.token, !.needsLogin = off]
        BY <2>5, <3>2, <4>1
      <4>3. new \in Pool!Stored /\ new.token = r.account.token
        BY <4>2, <1>2, <1>3, <2>5, StoredFields DEF Pool!Stored
      <4> QED BY <4>3, <1>0, <1>3, <2>5, <3>2
    <3>3. CASE old.token = r.raw.token /\ r.change = "renew"
      <4>2. new = [old EXCEPT !.token = r.account.token]
        BY <2>5, <3>3
      <4>3. new \in Pool!Stored /\ new.token = r.account.token
        BY <4>2, <1>2, <1>3, <2>5, StoredFields DEF Pool!Stored
      <4> QED BY <4>3, <1>0, <1>3, <2>5, <3>3
    <3> QED BY <2>5, <3>1, <3>2, <3>3
  <2>6. CASE r.change = "cooldown" /\ old # None
    <3>1. PICK until \in Nat : until = time + 1  OBVIOUS
    <3>2. new = [old EXCEPT !.cooldownUntil = until]  BY <2>6, <3>1
    <3> QED BY <3>2, <1>2, <2>6 DEF Pool!Stored
  <2>7. CASE r.change = "limit" /\ old # None
    <3>1. PICK until \in Nat : until = time + 1  OBVIOUS
    <3>2. new = [old EXCEPT !.modelCooldown = until]  BY <2>7, <3>1
    <3> QED BY <3>2, <1>2, <2>7 DEF Pool!Stored
  <2>8. CASE r.change = "refused" /\ old # None
    <3>1. PICK on \in BOOLEAN : on = TRUE  OBVIOUS
    <3>2. new = [old EXCEPT !.needsLogin = on]  BY <2>8, <3>1
    <3> QED BY <3>2, <1>2, <2>8 DEF Pool!Stored
  <2> QED BY <1>3, <2>1, <2>2, <2>3, <2>4, <2>5, <2>6, <2>7, <2>8 DEF Pool!Changes
<1> HIDE DEF new
<1>5. PICK n \in Pool!Stored \cup {None} : n = new  BY <1>4
<1>6. Pool!Changed(data, r, time) = [data EXCEPT ![r.uid] = n]  BY <1>1, <1>5
<1>7. /\ n # None =>
              \/ old # None /\ n.token = old.token
              \/ /\ r.account # None /\ n.token = r.account.token
                 /\ old # None => from[r.account.token] \in {None, old.token}
  BY <1>4, <1>5
<1> QED BY <1>6, <1>7 DEF Pool!Files

\* In one process the head of the one chain alone writes: what it renames is
\* the change to the file as it is.
LEMMA RenameIs ==
  ASSUME Pool!WorkBuddyAssumption, Pool!WorkBuddyInv, NEW t \in Tasks, Pool!UpdateRename(t)
  PROVE  /\ wbTask[t].pc = "writing" /\ wbTask[t].uid \in Accounts
         /\ Pool!Brings(wbTask[t], upstream.from)
         /\ accounts \in Pool!Files
         /\ \E time \in 0 .. wbNow : time \in Nat /\ accounts' = Pool!Changed(accounts,
                wbTask[t], time)
<1>1. Pool!TaskFits(t) /\ Pool!Shaped(wbTask[t]) /\ Pool!FilesFit  BY ShapeIs
<1>2. wbTask[t].pc = "writing" /\ accounts' = wbTask[t].data  BY DEF Pool!UpdateRename
<1>3. PICK time \in 0 .. wbNow : wbTask[t].data = Pool!Changed(accounts, wbTask[t], time)
  BY <1>1, <1>2 DEF Pool!TaskFits
<1>4. time \in Nat  BY <1>1 DEF Pool!FilesFit, Pool!Upstreams
<1> QED BY <1>1, <1>2, <1>3, <1>4 DEF Pool!TaskFits, Pool!Shaped, Pool!FilesFit, Pool!Upstreams

\* What a task that wrote goes on with is what it knew.
LEMMA ContinuedFits ==
  ASSUME Pool!WorkBuddyAssumption, Pool!WorkBuddyInv, NEW t \in Tasks,
         NEW r \in Pool!Continued(t),
         wbTask[t].pc = "writing", wbTask'[t] = r
  PROVE  /\ Pool!TaskFits(t)' /\ r.pc \in {"idle", "send", "next"}
         /\ \A b \in Accounts : Pool!KnownTo(r, b) \subseteq Pool!KnownTo(wbTask[t], b)
<1>1. Pool!Shaped(wbTask[t])  BY ShapeIs
<1>2. CASE r = Pool!Idle
  <2>1. r.pc = "idle"  BY <1>2 DEF Pool!Idle
  <2> QED BY <2>1, <1>2, PoolIdleFits, KnownToIdle
<1>3. ASSUME NEW pc \in {"send", "next"}, r = [wbTask[t] EXCEPT !.pc = pc, !.data = None],
             wbTask[t].job = "chat"
      PROVE  /\ Pool!TaskFits(t)' /\ r.pc \in {"idle", "send", "next"}
             /\ \A b \in Accounts : Pool!KnownTo(r, b) \subseteq Pool!KnownTo(wbTask[t], b)
  <2>1. /\ r.pc = pc /\ r.home = wbTask[t].home /\ r.raw = wbTask[t].raw
        /\ r.account = wbTask[t].account /\ r.list = wbTask[t].list /\ r.left = wbTask[t].left
        /\ r.uid = wbTask[t].uid /\ r.job = "chat"
        /\ r = [f \in DOMAIN Pool!Idle |-> r[f]]
    BY <1>1, <1>3, Fields DEF Pool!Shaped
  <2>w. /\ wbTask[t].raw \in Pool!Stored \cup {None}
        /\ wbTask[t].account \in Pool!Stored \cup {None}
        /\ wbTask[t].home \in PoolProcesses /\ wbTask[t].uid \in Accounts
        /\ wbTask[t].list \in Pool!Files
        /\ wbTask[t].left \subseteq {a \in Accounts : wbTask[t].list[a] # None}
    BY <1>1, <1>3 DEF Pool!Shaped
  <2>2. Pool!Shaped(r)
    <3>1. /\ r.raw \in Pool!Stored \cup {None} /\ r.account \in Pool!Stored \cup {None}
          /\ r.home \in PoolProcesses /\ r.uid \in Accounts /\ r.list \in Pool!Files
          /\ r.left \subseteq {a \in Accounts : r.list[a] # None}
      BY <2>1, <2>w
    <3> QED BY <2>1, <3>1, <1>3 DEF Pool!Shaped
  <2>3. Pool!TaskFits(t)'  BY <2>1, <2>2 DEF Pool!TaskFits
  <2>4. \A b \in Accounts : Pool!KnownTo(r, b) \subseteq Pool!KnownTo(wbTask[t], b)
    BY <2>1, KnownToSame
  <2> QED BY <2>1, <2>3, <2>4
<1> QED BY <1>2, <1>3 DEF Pool!Continued

\* The update is renamed into place: no other task was about to write, and the
\* file has no token that was not known.
LEMMA RenameKeeps ==
  ASSUME Pool!WorkBuddyAssumption, Pool!Alone, Pool!WorkBuddyInv, NEW t \in Tasks,
         Pool!UpdateRename(t)
  PROVE  Pool!WorkBuddyInv'
<1>t. /\ wbTask = [u \in Tasks |-> wbTask[u]] /\ Pool!FilesFit /\ Pool!TokensFit
      /\ Pool!Shaped(wbTask[t]) /\ Pool!TaskFits(t)
  BY ShapeIs
<1>u. UNCHANGED <<wbInst, flights, upstream, wbNow>>
      /\ chain' = [chain EXCEPT ![Pool!Home(t)] = Tail(@)]
  BY DEF Pool!UpdateRename
<1>1. /\ wbTask[t].pc = "writing" /\ wbTask[t].uid \in Accounts
      /\ Pool!Brings(wbTask[t], upstream.from) /\ accounts \in Pool!Files
  BY RenameIs
<1>2. PICK time \in Nat : accounts' = Pool!Changed(accounts, wbTask[t], time)  BY RenameIs
<1>3. /\ accounts' \in Pool!Files
      /\ \A b \in Accounts \ {wbTask[t].uid} : accounts'[b] = accounts[b]
      /\ accounts'[wbTask[t].uid] # None =>
              \/ accounts[wbTask[t].uid] # None
                 /\ accounts'[wbTask[t].uid].token = accounts[wbTask[t].uid].token
              \/ wbTask[t].account # None
                 /\ accounts'[wbTask[t].uid].token = wbTask[t].account.token
  BY <1>1, <1>2, ChangedAre
<1>4. PICK r \in Pool!Continued(t) : Pool!Goes(t, r)  BY DEF Pool!UpdateRename
<1>5. /\ wbTask'[t] = r /\ \A u \in Tasks : u # t => wbTask'[u] = wbTask[u]
      /\ wbTask' = [u \in Tasks |-> wbTask'[u]]
  BY <1>4, <1>t DEF Pool!Goes
<1>6. /\ Pool!TaskFits(t)' /\ r.pc \in {"idle", "send", "next"}
      /\ \A b \in Accounts : Pool!KnownTo(r, b) \subseteq Pool!KnownTo(wbTask[t], b)
  BY <1>1, <1>5, ContinuedFits
<1>7. chain' \in [PoolProcesses -> Seq(Tasks)]
  <2>1. wbTask[t].home \in PoolProcesses /\ chain[wbTask[t].home] # <<>>
        /\ chain[wbTask[t].home] \in Seq(Tasks)
    BY <1>1, <1>t DEF Pool!TaskFits, Pool!Shaped, Pool!FilesFit, Pool!Upstreams
  <2>2. Tail(chain[wbTask[t].home]) \in Seq(Tasks)  BY <2>1
  <2> QED BY <2>1, <2>2, <1>u, <1>t DEF Pool!FilesFit, Pool!Upstreams, Pool!Home
<1>8. Pool!FilesFit'  BY <1>3, <1>7, <1>t, <1>u DEF Pool!FilesFit, Pool!Upstreams, Pool!Given
<1>9. ASSUME NEW b \in Accounts
      PROVE  Pool!Known(b)' \subseteq Pool!Known(b)
  <2> SUFFICES ASSUME NEW x \in Pool!Known(b)'
               PROVE  x \in Pool!Known(b)
    OBVIOUS
  <2>1. CASE accounts'[b] # None /\ x = accounts'[b].token
    <3>1. CASE accounts[b] # None /\ accounts'[b].token = accounts[b].token
      BY <2>1, <3>1, KnownIs
    <3>2. CASE b = wbTask[t].uid /\ wbTask[t].account # None
               /\ accounts'[b].token = wbTask[t].account.token
      <4>1. x \in Pool!KnownTo(wbTask[t], b)  BY <2>1, <3>2, <1>1, KnownToIs
      <4> QED BY <4>1, KnownOf
    <3> QED BY <2>1, <3>1, <3>2, <1>3
  <2>2. CASE \E p \in PoolProcesses : flights'[p][b] # None /\ x = flights'[p][b]
    BY <2>2, <1>u, KnownIs
  <2>3. CASE \E u \in Tasks : x \in Pool!KnownTo(wbTask'[u], b)
    <3> PICK u \in Tasks : x \in Pool!KnownTo(wbTask'[u], b)  BY <2>3
    <3>1. x \in Pool!KnownTo(wbTask[u], b)  BY <1>5, <1>6
    <3> QED BY <3>1, KnownOf
  <2> QED BY <2>1, <2>2, <2>3, KnownThen
<1>10. Pool!TokensFit'
  <2> SUFFICES ASSUME NEW b \in Accounts
               PROVE  /\ Pool!Known(b)' \subseteq 0 .. Pool!Given'
                      /\ \A x, y \in Pool!Known(b)' \cap upstream'.expiring : x = y
                      /\ \A p \in PoolProcesses : flights'[p][b] # None =>
                            flights'[p][b] \in upstream'.expiring /\ Pool!Joined(p, b)' # {}
    BY DEF Pool!TokensFit
  <2>1. Pool!Given' = Pool!Given  BY <1>u DEF Pool!Given
  <2>2. /\ Pool!Known(b) \subseteq 0 .. Pool!Given
        /\ \A x, y \in Pool!Known(b) \cap upstream.expiring : x = y
    BY <1>t DEF Pool!TokensFit
  <2>3. ASSUME NEW p \in PoolProcesses, flights'[p][b] # None
        PROVE  flights'[p][b] \in upstream'.expiring /\ Pool!Joined(p, b)' # {}
    <3>1. \A u \in Pool!Joined(p, b) : wbTask'[u] = wbTask[u]  BY <1>1, <1>5 DEF Pool!Joined
    <3> QED BY <3>1, <2>3, <1>u, FlightsStay
  <2> QED BY <2>1, <2>2, <2>3, <1>9, <1>u
<1>11. ASSUME NEW u \in Tasks
       PROVE  Pool!TaskFits(u)'
  <2>1. CASE u = t  BY <2>1, <1>6
  <2>2. CASE u # t
    <3>f. Pool!TaskFits(u) /\ Pool!Shaped(wbTask[u]) /\ wbTask'[u] = wbTask[u]
      BY <2>2, <1>5, ShapeIs
    <3>1. wbTask[u].pc # "writing"
      <4> SUFFICES ASSUME wbTask[u].pc = "writing"
                   PROVE  FALSE
        OBVIOUS
      <4>1. wbTask[u].home \in PoolProcesses /\ wbTask[t].home \in PoolProcesses
        BY <1>1, <1>t, <3>f DEF Pool!Shaped
      <4>2. Head(chain[wbTask[u].home]) = u /\ Head(chain[wbTask[t].home]) = t
        BY <1>1, <1>t, <3>f DEF Pool!TaskFits
      <4> QED BY <2>2, <4>1, <4>2 DEF Pool!Alone
    <3> QED BY <3>f, <3>1, <1>u DEF Pool!TaskFits
  <2> QED BY <2>1, <2>2
<1> QED BY <1>5, <1>8, <1>10, <1>11 DEF Pool!WorkBuddyInv

\* At the start each account has the first pair, and nobody knows another.
LEMMA WorkBuddyInit ==
  ASSUME Pool!WorkBuddyAssumption, Pool!Init
  PROVE  Pool!WorkBuddyInv
<1>1. PICK new : new = [token |-> 0, needsLogin |-> FALSE, cooldownUntil |-> 0,
               modelCooldown |-> 0]
  OBVIOUS
<1>2. new \in Pool!Stored /\ new.token = 0
  <2>1. PICK off \in BOOLEAN : off = FALSE  OBVIOUS
  <2>2. PICK zero \in Nat : zero = 0  OBVIOUS
  <2>3. new = [token |-> zero, needsLogin |-> off, cooldownUntil |-> zero,
            modelCooldown |-> zero]
    BY <1>1, <2>1, <2>2
  <2> QED BY <2>2, <2>3 DEF Pool!Stored
<1>3. accounts = [a \in Accounts |-> IF a \notin wbInst.accounts THEN None ELSE new]
  BY <1>1 DEF Pool!Init
<1>4. PICK live : live = [a \in Accounts |-> {0}]  OBVIOUS
<1>5. live \in [Accounts -> SUBSET Nat]
  <2>1. PICK zero \in Nat : zero = 0  OBVIOUS
  <2>2. {zero} \in SUBSET Nat /\ live = [a \in Accounts |-> {zero}]  BY <2>1, <1>4
  <2> QED BY <2>2
<1>6. /\ upstream = [live |-> live, expiring |-> {}, from |-> <<>>]
      /\ upstream.expiring = {} /\ upstream.from = <<>>
  BY <1>4 DEF Pool!Init
<1>e. <<>> \in Seq(Nat \cup {None})  OBVIOUS
<1>7. PICK empty \in Seq(Nat \cup {None}) : empty = <<>>  BY <1>e
<1>8. upstream \in Pool!Upstreams
  <2>1. upstream = [live |-> live, expiring |-> {}, from |-> empty]  BY <1>6, <1>7
  <2>2. {} \in SUBSET Nat  OBVIOUS
  <2> QED BY <2>1, <2>2, <1>5, <1>7 DEF Pool!Upstreams
<1>9. Pool!Given = 0  BY <1>6 DEF Pool!Given
<1>10. Pool!FilesFit
  <2>1. accounts \in Pool!Files  BY <1>2, <1>3 DEF Pool!Files
  <2>2. chain \in [PoolProcesses -> Seq(Tasks)]
    <3>1. <<>> \in Seq(Tasks)  OBVIOUS
    <3> QED BY <3>1 DEF Pool!Init
  <2>3. flights \in [PoolProcesses -> [Accounts -> Nat \cup {None}]]
    <3>1. PICK no \in [Accounts -> Nat \cup {None}] : no = [a \in Accounts |-> None]  OBVIOUS
    <3> QED BY <3>1 DEF Pool!Init
  <2> QED BY <2>1, <2>2, <2>3, <1>6, <1>8, <1>9 DEF Pool!FilesFit, Pool!Upstreams, Pool!Init
<1>11. \A t \in Tasks : wbTask[t] = Pool!Idle  BY DEF Pool!Init
<1>12. ASSUME NEW a \in Accounts
       PROVE  Pool!Known(a) \subseteq {0}
  <2>1. \A t \in Tasks : Pool!KnownTo(wbTask[t], a) = {}  BY <1>11, KnownToIdle
  <2>2. \A p \in PoolProcesses : flights[p][a] = None  BY DEF Pool!Init
  <2> QED BY <2>1, <2>2, <1>2, <1>3, KnownIs
<1>13. Pool!TokensFit
  <2>1. \A p \in PoolProcesses, a \in Accounts : flights[p][a] = None  BY DEF Pool!Init
  <2> QED BY <2>1, <1>6, <1>9, <1>12 DEF Pool!TokensFit
<1>14. ASSUME NEW t \in Tasks
       PROVE  Pool!TaskFits(t)
  <2>1. Pool!Shaped(Pool!Idle)  BY DEF Pool!Shaped, Pool!Idle
  <2>2. wbTask[t] = Pool!Idle /\ Pool!Idle.pc = "idle"  BY <1>11 DEF Pool!Idle
  <2> QED BY <2>1, <2>2 DEF Pool!TaskFits
<1>15. wbTask = [t \in Tasks |-> wbTask[t]]  BY DEF Pool!Init
<1> QED BY <1>10, <1>13, <1>14, <1>15 DEF Pool!WorkBuddyInv

\* Every step of the pool of one process keeps the invariant.
LEMMA WorkBuddyNext ==
  ASSUME Pool!WorkBuddyAssumption, Pool!Alone, Pool!WorkBuddyInv, [Pool!Next]_workbuddyVars
  PROVE  Pool!WorkBuddyInv'
<1>1. CASE \E t \in Tasks, p \in PoolProcesses : Pool!Start(t, p)  BY <1>1, StartKeeps
<1>2. ASSUME NEW t \in Tasks, Pool!Step(t)
      PROVE  Pool!WorkBuddyInv'
  BY <1>2, ReadKeeps, NextAccountKeeps, RefreshKeeps, UpdateReadKeeps, RenameKeeps,
     AnswerKeeps, LoggedInKeeps DEF Pool!Step
<1>3. CASE \E p \in PoolProcesses, a \in Accounts :
              Pool!RefreshOk(p, a) \/ Pool!RefreshRefused(p, a) \/ Pool!RefreshFails(p, a)
  BY <1>3, RefreshOkKeeps, RefreshRefusedKeeps, PoolRefreshFailsKeeps
<1>4. CASE \E a \in Accounts : Pool!Expire(a) \/ Pool!Revoke(a)
  BY <1>4, ExpireKeeps, RevokeKeeps
<1>5. CASE Pool!Pass  BY <1>5, PassKeeps
<1>6. CASE UNCHANGED workbuddyVars  BY <1>6, StutterKeeps
<1> QED BY <1>1, <1>2, <1>3, <1>4, <1>5, <1>6 DEF Pool!Next

\* What begins does not touch the file.
LEMMA StartsQuietly ==
  ASSUME NEW t, NEW p, Pool!Start(t, p)
  PROVE  accounts' = accounts
  BY DEF Pool!Start

\* Only a rename does.
LEMMA ElseQuiet ==
  ASSUME [Pool!Next]_workbuddyVars
  PROVE  accounts' = accounts \/ \E t \in Tasks : Pool!UpdateRename(t)
<1>1. CASE \E t \in Tasks, p \in PoolProcesses : Pool!Start(t, p)  BY <1>1, StartsQuietly
<1>2. ASSUME NEW t \in Tasks, Pool!Step(t)
      PROVE  accounts' = accounts \/ Pool!UpdateRename(t)
  BY <1>2
     DEF Pool!Step, Pool!ReadCandidates, Pool!NextAccount, Pool!Refresh, Pool!UpdateRead,
         Pool!Answer, Pool!LoggedIn
<1>3. CASE \E p \in PoolProcesses, a \in Accounts :
              Pool!RefreshOk(p, a) \/ Pool!RefreshRefused(p, a) \/ Pool!RefreshFails(p, a)
  BY <1>3 DEF Pool!RefreshOk, Pool!RefreshRefused, Pool!RefreshFails
<1>4. CASE \E a \in Accounts : Pool!Expire(a) \/ Pool!Revoke(a)
  BY <1>4 DEF Pool!Expire, Pool!Revoke
<1>5. CASE Pool!Pass  BY <1>5 DEF Pool!Pass
<1>6. CASE UNCHANGED workbuddyVars  BY <1>6 DEF workbuddyVars
<1> QED BY <1>1, <1>2, <1>3, <1>4, <1>5, <1>6 DEF Pool!Next

\* A rename is one change of the file as it is, and the pair it puts in place of
\* another was made out of that one, or is a login's.
LEMMA StepKeepsAccounts ==
  ASSUME Pool!WorkBuddyAssumption, Pool!WorkBuddyInv, [Pool!Next]_workbuddyVars
  PROVE  Pool!Atomic /\ Pool!Descends
<1>1. CASE accounts' = accounts
  BY <1>1 DEF Pool!Atomic, Pool!Descends
<1>2. ASSUME NEW t \in Tasks, Pool!UpdateRename(t)
      PROVE  Pool!Atomic /\ Pool!Descends
  <2>1. /\ wbTask[t].pc = "writing" /\ wbTask[t].uid \in Accounts
        /\ Pool!Brings(wbTask[t], upstream.from) /\ accounts \in Pool!Files
    BY <1>2, RenameIs
  <2>2. PICK time \in 0 .. wbNow : time \in Nat /\ accounts' = Pool!Changed(accounts,
                 wbTask[t], time)
    BY <1>2, RenameIs
  <2>3. Pool!Atomic  BY <2>1, <2>2 DEF Pool!Atomic
  <2>4. /\ \A b \in Accounts \ {wbTask[t].uid} : accounts'[b] = accounts[b]
        /\ accounts'[wbTask[t].uid] # None =>
              \/ accounts[wbTask[t].uid] # None
                 /\ accounts'[wbTask[t].uid].token = accounts[wbTask[t].uid].token
              \/ /\ accounts'[wbTask[t].uid].token = wbTask[t].account.token
                 /\ accounts[wbTask[t].uid] # None =>
                       upstream.from[wbTask[t].account.token] \in {None,
                           accounts[wbTask[t].uid].token}
    BY <2>1, <2>2, ChangedAre
  <2>5. Pool!Descends  BY <2>4 DEF Pool!Descends
  <2> QED BY <2>3, <2>5
<1> QED BY <1>1, <1>2, ElseQuiet

=============================================================================
