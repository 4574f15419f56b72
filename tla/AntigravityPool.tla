-------------------------- MODULE AntigravityPool --------------------------
(***************************************************************************)
(* The Antigravity accounts and the streaming request over them            *)
(* (extensions/antigravity: auth/accounts.ts, stream/stream.ts,            *)
(* models/discovery.ts, index.ts).                                         *)
(*                                                                         *)
(* The whole account store is read, changed and written back.  Where a     *)
(* token is refreshed in between, what others wrote meanwhile is lost: a   *)
(* task keeps the store it has loaded.  Endpoints and runtime models are   *)
(* tried in one step, since nothing of them is shared.                     *)
(***************************************************************************)
EXTENDS Naturals, Sequences, FiniteSets

CONSTANTS
    Accounts,     \* linked Google accounts
    Tasks,        \* requests and commands under way in the process
    Instances,    \* bounds, of which a behaviour takes one: the jobs that are
                  \* begun and how many, the access tokens that Google mints
                  \* and the cooldown periods that pass
    None          \* absent

Jobs == {"request", "activate", "remove", "discover", "rotation", "login", "auth"}

\* Tokens are numbered in the order in which they are minted.  What the store
\* knows of the model asked for: nothing, listed, a list without it, or
\* unsupported.
StoredAccount == [access: Nat, cooldownUntil: Nat,
                  model: {"unknown", "yes", "others", "no"}]

AntigravityAssumption ==
    /\ IsFiniteSet(Accounts) /\ Accounts # {} /\ IsFiniteSet(Tasks)
    /\ Instances \subseteq [jobs: SUBSET Jobs, starts: Nat, tokens: Nat, periods: Nat]
    /\ None \notin Accounts \cup Tasks /\ None \notin StoredAccount

EmptyRetries == 2  \* emptyAttempt: repetitions of an answer without content

Store == [accounts: [Accounts -> StoredAccount \cup {None}],
          active: Accounts \cup {None}, rotate: BOOLEAN]

VARIABLES
    inst,      \* the instance
    store,     \* antigravity-accounts.json: accounts, active, rotate
    auth,      \* Pi's auth.json: account and access token, or None
    task,      \* what each task is doing
    google,    \* external: owner of each token, and the expired ones
    now,       \* periods passed
    starts     \* bound

agvars == <<inst, store, auth, task, google, now, starts>>

\* loaded: the store this task works on.  left: accounts still to be tried,
\* in order.  token: what a request sends.  tried: triedAccessTokens.
\* response: the last answer to fetch.  empties: emptyAttempt.  emitted:
\* content has reached the caller.  refused: history, tokens that the request
\* saw refused.  keys: tokens listed for discovery.
Idle == [pc |-> "idle", job |-> None, loaded |-> None, left |-> <<>>, account |-> None,
         token |-> None, tried |-> {}, response |-> None, empties |-> 0,
         emitted |-> FALSE, refused |-> {}, keys |-> {}, updated |-> FALSE]

Task ==
    [pc: {"idle", "choose", "refresh", "send", "mark", "stream", "ended", "catalog"},
     job: Jobs \cup {"acquire", "failover", None}, loaded: Store \cup {None},
     left: Seq(Accounts), account: Accounts \cup {None}, token: Nat \cup {None},
     tried: SUBSET Nat, response: {"ok", "error", "quota", "notFound", None},
     empties: Nat, emitted: BOOLEAN, refused: SUBSET Nat, keys: SUBSET Nat, updated: BOOLEAN]

TypeOK ==
    /\ inst \in Instances /\ store \in Store
    /\ auth # None => auth \in [account: Accounts, access: Nat]
    /\ task \in [Tasks -> Task]
    /\ google.owner \in Seq(Accounts) /\ google.expired \subseteq Nat
    /\ now \in Nat /\ starts \in Nat

Init ==
    /\ inst \in Instances
    /\ store = [accounts |-> [a \in Accounts |-> [access |-> 0, cooldownUntil |-> 0,
                                                  model |-> "unknown"]],
                active |-> CHOOSE a \in Accounts : TRUE, rotate |-> TRUE]
    /\ auth = [account |-> store.active, access |-> 0]
    /\ task = [t \in Tasks |-> Idle]
    /\ google = [owner |-> <<>>, expired |-> {0}]
    /\ now = 0 /\ starts = 0

---------------------------------------------------------------------------
(* The store.                                                              *)

Minted    == Len(google.owner)
Mint(a)   == Minted < inst.tokens /\ google' = [google EXCEPT !.owner = Append(@, a)]
Linked(s) == {a \in Accounts : s.accounts[a] # None}
Later(x, y) == IF x > y THEN x ELSE y

\* accountFromCredentials: the token that expires later is kept, and all else
\* that is known of the account.
FromCredentials(token, existing) ==
    IF existing = None
    THEN [access |-> token, cooldownUntil |-> 0, model |-> "unknown"]
    ELSE [existing EXCEPT !.access = Later(token, @)]

\* syncCurrentAuth: the account of auth.json is linked.
Sync(s) ==
    IF auth = None THEN s
    ELSE LET a == auth.account
         IN  [s EXCEPT !.accounts[a] = FromCredentials(auth.access, @),
                       !.active = IF @ = None THEN a ELSE @]
Synced == Sync(store)

\* markAccountCooldown, markAccountModelUnsupported: the account that has this
\* token now, if one does.
Marked(token, mark) ==
    LET holders == {a \in Linked(store) : store.accounts[a].access = token}
    IN  IF holders = {} THEN {store}
        ELSE {[store EXCEPT !.accounts[a] = mark[a]] : a \in holders}

\* What a catalog says of the model.
Listed == {"yes", "others", "no"}

explicitlyUnsupported(s, a) == s.accounts[a].model = "no"
eligibleForModel(s, a) ==
    /\ ~explicitlyUnsupported(s, a)
    /\ s.accounts[a].model = "others" => \A b \in Linked(s) : s.accounts[b].model # "yes"

\* Known support first, then accounts not on cooldown; the least recently used
\* of those is any of them.
Rank(s, a) ==
    LET m == s.accounts[a].model
        p == IF m = "yes" THEN 0 ELSE IF m = "others" THEN 2 ELSE 1
    IN  2 * p + (IF s.accounts[a].cooldownUntil > now THEN 1 ELSE 0)

Orders(s, pool) ==
    {q \in [1 .. Cardinality(pool) -> pool] :
        \A i, j \in DOMAIN q : i < j => q[i] # q[j] /\ Rank(s, q[i]) <= Rank(s, q[j])}

Fallback(eligible, all) == IF eligible # {} THEN eligible ELSE all

\* acquireNextAccount: with rotation off the active account only, unless the
\* model needs another.
AcquirePool(s) ==
    LET active == IF s.active # None THEN s.active ELSE CHOOSE a \in Linked(s) : TRUE
        eligible == {a \in Linked(s) : eligibleForModel(s, a)}
    IN  IF ~s.rotate /\ eligibleForModel(s, active) THEN {active}
        ELSE Fallback(eligible, Linked(s))

\* failoverToNextAccount
FailoverPool(s, tried) ==
    LET untried == {a \in Linked(s) : s.accounts[a].access \notin tried
                                      /\ ~explicitlyUnsupported(s, a)}
    IN  Fallback({a \in untried : eligibleForModel(s, a)}, untried)

---------------------------------------------------------------------------
(* Requests and commands begin.                                            *)

Goes(t, r) == task' = [task EXCEPT ![t] = r]

Starts(job) == job \in inst.jobs /\ starts < inst.starts /\ starts' = starts + 1
Begin(t, job) == task[t].pc = "idle" /\ Starts(job) /\ UNCHANGED <<inst, google, now>>

\* The store is loaded and the accounts of a pool are gone through.
Choosing(t, r, s, pool) ==
    \E q \in Orders(s, pool) :
       Goes(t, [r EXCEPT !.pc = "choose", !.loaded = s, !.left = q])

\* runAntigravityStream begins with the key that Pi has resolved.
Request(t) ==
    /\ Begin(t, "request") /\ auth # None /\ UNCHANGED auth /\ store' = Synced
    /\ Choosing(t, [Idle EXCEPT !.job = "acquire", !.token = auth.access],
                Synced, AcquirePool(Synced))

Activate(t, a) ==
    /\ Begin(t, "activate") /\ a \in Linked(Synced) /\ UNCHANGED auth /\ store' = Synced
    /\ Choosing(t, [Idle EXCEPT !.job = "activate"], Synced, {a})

\* The active account gives way to another, which is made fresh first.
Remove(t, a) ==
    LET rest == [Synced EXCEPT !.accounts[a] = None]
    IN  /\ Begin(t, "remove") /\ a \in Linked(Synced)
        /\ IF Synced.active # a
           THEN store' = rest /\ UNCHANGED <<auth, task>>
           ELSE IF Linked(rest) = {}
           THEN store' = [rest EXCEPT !.active = None] /\ auth' = None /\ UNCHANGED task
           ELSE /\ store' = Synced /\ UNCHANGED auth
                /\ \E b \in Linked(rest) :
                      Choosing(t, [Idle EXCEPT !.job = "remove"], rest, {b})

\* discoverAntigravityModels: the catalog of Pi's own key is there, and the
\* keys of the other accounts are listed.
Discover(t) ==
    /\ Begin(t, "discover") /\ auth # None /\ UNCHANGED auth
    /\ \E m \in Listed :
       \E s \in Marked(auth.access, [a \in Linked(store) |-> [store.accounts[a] EXCEPT !.model = m]]) :
          /\ store' = Sync(s)
          /\ Choosing(t, [Idle EXCEPT !.job = "discover", !.token = auth.access],
                      Sync(s), Linked(Sync(s)))

ToggleRotation(t) ==
    /\ Begin(t, "rotation") /\ store' = [store EXCEPT !.rotate = ~@]
    /\ UNCHANGED <<auth, task>>

\* login and refresh of Pi's own credential (index.ts), which Pi then saves.
Login(a) ==
    LET s == Synced
    IN  /\ Starts("login") /\ Mint(a)
        /\ store' = [s EXCEPT !.accounts[a] = FromCredentials(Minted + 1, @), !.active = a]
        /\ auth' = [account |-> a, access |-> Minted + 1]
        /\ UNCHANGED <<inst, task, now>>

RefreshAuth ==
    /\ Starts("auth") /\ auth # None /\ auth.access \in google.expired
    /\ Mint(auth.account)
    /\ auth' = [auth EXCEPT !.access = Minted + 1]
    /\ store' = IF store.accounts[auth.account] = None THEN store
                ELSE [store EXCEPT !.accounts[auth.account] = FromCredentials(Minted + 1, @)]
    /\ UNCHANGED <<inst, task, now>>

---------------------------------------------------------------------------
(* Going through the accounts.                                             *)

\* A request sends with what was chosen; none chosen, the first one falls back
\* on the key it was given, and a failover fails.
NoneLeft(t) ==
    LET r == task[t]
    IN  /\ r.pc = "choose" /\ r.left = <<>>
        /\ store' = IF r.job = "discover" /\ r.updated THEN r.loaded ELSE store
        /\ Goes(t, CASE r.job = "acquire" -> [r EXCEPT !.pc = "send", !.loaded = None,
                                                       !.tried = {r.token}]
                     [] r.job = "failover" -> [r EXCEPT !.pc = "ended", !.loaded = None]
                     [] r.job = "discover" -> [r EXCEPT !.pc = "catalog", !.loaded = None]
                     [] OTHER -> Idle)
        /\ UNCHANGED <<inst, auth, google, now, starts>>

\* The account is saved with the store as it was loaded.
Took(t, a, token) ==
    LET r == task[t]
        s == [r.loaded EXCEPT !.accounts[a].access = token]
        fresh == [r EXCEPT !.loaded = None, !.left = <<>>, !.account = None]
    IN  CASE r.job \in {"acquire", "failover"} ->
               /\ store' = s /\ UNCHANGED auth
               /\ Goes(t, [fresh EXCEPT !.pc = "send", !.token = token,
                                        !.tried = @ \cup {token}, !.empties = 0])
          [] r.job = "discover" ->
               /\ UNCHANGED <<store, auth>>
               /\ Goes(t, [r EXCEPT !.pc = "choose", !.left = Tail(@), !.account = None,
                                    !.loaded = s, !.keys = @ \cup ({token} \ {r.token}),
                                    !.updated = @ \/ s # r.loaded])
          [] OTHER ->
               /\ store' = [s EXCEPT !.active = a,
                                     !.rotate = IF r.job = "activate" THEN FALSE ELSE @]
               /\ auth' = [account |-> a, access |-> token]
               /\ Goes(t, Idle)

\* ensureFresh: a token that is not near its expiry is used as it is.
UseAccount(t) ==
    LET r == task[t]
        a == Head(r.left)
        token == r.loaded.accounts[a].access
    IN  /\ r.pc = "choose" /\ r.left # <<>>
        /\ IF token \in google.expired
           THEN Goes(t, [r EXCEPT !.pc = "refresh", !.account = a]) /\ UNCHANGED <<store, auth>>
           ELSE Took(t, a, token)
        /\ UNCHANGED <<inst, google, now, starts>>

Refreshed(t) ==
    LET r == task[t]
    IN  /\ r.pc = "refresh" /\ Mint(r.account)
        /\ Took(t, r.account, Minted + 1)
        /\ UNCHANGED <<inst, now, starts>>

\* A command fails, and a request or the discovery takes the next account.
RefreshFails(t) ==
    LET r == task[t]
    IN  /\ r.pc = "refresh"
        /\ Goes(t, IF r.job \in {"activate", "remove"} THEN Idle
                   ELSE [r EXCEPT !.pc = "choose", !.left = Tail(@), !.account = None])
        /\ UNCHANGED <<inst, store, auth, google, now, starts>>

\* recordAccountModelCatalog for every key whose catalog was fetched.
RecordCatalog(t) ==
    LET r == task[t]
        holder(a) == a \in Linked(store) /\ store.accounts[a].access \in r.keys
    IN  /\ r.pc = "catalog" /\ Goes(t, Idle)
        /\ \E fetched \in SUBSET r.keys : \E m \in [fetched -> Listed] :
              store' = [store EXCEPT !.accounts = [a \in Accounts |->
                 IF holder(a) /\ @[a].access \in fetched
                 THEN [@[a] EXCEPT !.model = m[store.accounts[a].access]] ELSE @[a]]]
        /\ UNCHANGED <<inst, auth, google, now, starts>>

---------------------------------------------------------------------------
(* The request.                                                            *)

\* What fetch got last from the endpoints and runtime models it tried; when
\* each attempt threw, response is what an earlier round left.
Send(t) ==
    LET r == task[t]
        Got(x, bad) == Goes(t, [r EXCEPT !.response = x, !.refused = @ \cup bad,
                              !.pc = CASE x = "ok" -> "stream"
                                       [] x \in {"quota", "notFound"} -> "mark"
                                       [] OTHER -> "ended"])
    IN  /\ r.pc = "send"
        /\ \/ \E x \in {"ok", "error", "quota", "notFound"} :
                 Got(x, IF x \in {"quota", "notFound"} THEN {r.token} ELSE {})
           \* the body of an earlier answer has been read
           \/ Got(IF r.response = "ok" THEN "error" ELSE r.response, {})
        /\ UNCHANGED <<inst, store, auth, google, now, starts>>

\* The account is marked and the next one is looked for.
Mark(t) ==
    LET r == task[t]
        mark == [a \in Linked(store) |->
                   IF r.response = "notFound" THEN [store.accounts[a] EXCEPT !.model = "no"]
                   ELSE [store.accounts[a] EXCEPT !.cooldownUntil = now + 1]]
    IN  /\ r.pc = "mark"
        /\ \E s \in Marked(r.token, mark) :
              /\ store' = Sync(s)
              /\ Choosing(t, [r EXCEPT !.job = "failover"], Sync(s),
                          FailoverPool(Sync(s), r.tried))
        /\ UNCHANGED <<inst, auth, google, now, starts>>

\* Chunks of the answer.
Chunk(t) ==
    /\ task[t].pc = "stream" /\ ~task[t].emitted
    /\ Goes(t, [task[t] EXCEPT !.emitted = TRUE])
    /\ UNCHANGED <<inst, store, auth, google, now, starts>>

\* Mutant: an answer is asked for again though a part of it was shown.
FinishRepeats(t) ==
    LET r == task[t]
    IN  /\ r.pc = "stream"
        /\ Goes(t, IF r.empties = EmptyRetries THEN [r EXCEPT !.pc = "ended"]
                   ELSE [r EXCEPT !.pc = "send", !.empties = @ + 1])
        /\ UNCHANGED <<inst, store, auth, google, now, starts>>

\* The answer ends with a finish reason: an empty one is asked for again.
Finish(t) ==
    LET r == task[t]
    IN  /\ r.pc = "stream"
        /\ Goes(t, IF r.emitted \/ r.empties = EmptyRetries
                   THEN [r EXCEPT !.pc = "ended"]
                   ELSE [r EXCEPT !.pc = "send", !.empties = @ + 1])
        /\ UNCHANGED <<inst, store, auth, google, now, starts>>

\* The answer carries an error, stalls or is cut off; a quota error before any
\* content fails over.
Break(t) ==
    LET r == task[t]
    IN  /\ r.pc = "stream"
        /\ \/ Goes(t, [r EXCEPT !.pc = "ended"])
           \/ Goes(t, [r EXCEPT !.refused = @ \cup {r.token},
                                !.pc = IF r.emitted THEN "ended" ELSE "mark"])
        /\ UNCHANGED <<inst, store, auth, google, now, starts>>

Ended(t) == /\ task[t].pc = "ended" /\ Goes(t, Idle)
            /\ UNCHANGED <<inst, store, auth, google, now, starts>>
---------------------------------------------------------------------------
Expire(token) == /\ token \notin google.expired
                 /\ google' = [google EXCEPT !.expired = @ \cup {token}]
                 /\ UNCHANGED <<inst, store, auth, task, now, starts>>

Pass == /\ now < inst.periods /\ now' = now + 1
        /\ UNCHANGED <<inst, store, auth, task, google, starts>>

Command(t) ==
    \/ Request(t) \/ Discover(t) \/ ToggleRotation(t)
    \/ \E a \in Accounts : Activate(t, a) \/ Remove(t, a)

Step(t) ==
    \/ NoneLeft(t) \/ UseAccount(t) \/ Refreshed(t) \/ RefreshFails(t)
    \/ RecordCatalog(t) \/ Send(t) \/ Mark(t) \/ Chunk(t) \/ Finish(t)
    \/ Break(t) \/ Ended(t)

Next ==
    \/ \E t \in Tasks : Command(t) \/ Step(t)
    \/ \E a \in Accounts : Login(a)
    \/ RefreshAuth \/ Pass
    \/ \E token \in 0 .. Minted : Expire(token)

Spec == Init /\ [][Next]_agvars

---------------------------------------------------------------------------
(* Properties.                                                             *)

\* However many accounts fail over, refresh or run out, a request is sent
\* again only while nothing of an answer has reached the caller, and never
\* with a token that it has seen refused (runAntigravityStream).
NoReplay ==
    \A t \in Tasks : task[t].pc = "send" =>
        ~task[t].emitted /\ task[t].token \notin task[t].refused

\* Why: every token that is kept somewhere was minted, and so a new one is none
\* that was tried; the accounts that a failover goes through hold tokens that
\* were not tried when they were loaded, and what was refused was tried.
Sane(s, n) == s \in Store /\ \A a \in Linked(s) : s.accounts[a].access \in 0 .. n
ActiveLinked(s) == s.active # None => s.active \in Linked(s)

Going(r, n) ==
    /\ Sane(r.loaded, n) /\ (r.job # "remove" => ActiveLinked(r.loaded))
    /\ \A i \in DOMAIN r.left : r.left[i] \in Linked(r.loaded)
    /\ r.pc = "refresh" => r.account \in Linked(r.loaded) /\ r.left # <<>>
    /\ r.job = "acquire" =>
          r.tried = {} /\ r.refused = {} /\ ~r.emitted /\ r.token \in 0 .. n
    /\ r.job = "failover" =>
          /\ r.refused \subseteq r.tried /\ r.tried \subseteq 0 .. n /\ ~r.emitted
          /\ \A i \in DOMAIN r.left : r.loaded.accounts[r.left[i]].access \notin r.tried
Asking(r, n) ==
    /\ r.token \in r.tried /\ r.refused \subseteq r.tried /\ r.tried \subseteq 0 .. n
    /\ r.pc # "mark" => r.token \notin r.refused
    /\ r.pc # "stream" => ~r.emitted
Fits(r, n) ==
    /\ r \in Task
    /\ r.pc \in {"choose", "refresh"} => Going(r, n)
    /\ r.pc \in {"send", "mark", "stream"} => Asking(r, n)

AntigravityInv ==
    /\ TypeOK /\ Sane(store, Minted) /\ ActiveLinked(store)
    /\ auth # None => auth.access \in 0 .. Minted
    /\ \A t \in Tasks : Fits(task[t], Minted)
=============================================================================
