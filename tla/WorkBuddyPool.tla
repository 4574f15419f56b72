--------------------------- MODULE WorkBuddyPool ---------------------------
(***************************************************************************)
(* The account pool of extensions/workbuddy-pool (store.ts, auth.ts,       *)
(* transport.ts, provider.ts): one file of accounts, whose writes a        *)
(* promise chain serialises within a process; requests that refresh the    *)
(* tokens of an account, try the accounts in turn and note what was        *)
(* refused; logins and removals meanwhile.                                 *)
(*                                                                         *)
(* A token pair is a number.  Everything between two awaits is one step.   *)
(***************************************************************************)
EXTENDS Naturals, Sequences, FiniteSets

CONSTANTS
    Processes,    \* Pi processes that share the file
    Tasks,        \* what runs in them at one time: requests and commands
    Accounts,     \* uids
    maxAttempts,  \* accounts that one request tries
    Instances,    \* bounds, of which a behaviour takes one: the accounts there
                  \* are, the token pairs that upstream gives out, the cooldown
                  \* periods that pass, the requests and commands that begin
    None          \* absent

Stored == [token: Nat, needsLogin: BOOLEAN, cooldownUntil: Nat, modelCooldown: Nat]
Files == [Accounts -> Stored \cup {None}]

WorkBuddyAssumption ==
    /\ IsFiniteSet(Tasks) /\ IsFiniteSet(Accounts)
    /\ maxAttempts \in Nat \ {0}
    /\ Instances \subseteq [accounts: SUBSET Accounts, tokens: Nat, periods: Nat, starts: Nat]
    /\ None \notin Processes \cup Tasks \cup Accounts \cup Stored \cup Files

VARIABLES
    inst,      \* the instance
    accounts,  \* the account file
    chain,     \* store.queue of each process: tasks waiting for or in update
    flights,   \* refreshFlights of each process: the token it spends
    task,      \* what each task is doing
    upstream,  \* external: live token pairs of each account, pairs that are
               \* close to expiry, and which pair each was refreshed from
    now,       \* periods passed
    starts     \* bound

wbvars == <<inst, accounts, chain, flights, task, upstream, now, starts>>

Tokens == 0 .. inst.tokens
Until  == 0 .. inst.periods + 1  \* a cooldown is over when now has reached it

\* The same number stands for both tokens of a pair.
WbAccount == [token: Tokens, needsLogin: BOOLEAN,
              cooldownUntil: Until, modelCooldown: Until]

\* pc: where the task awaits.  raw: the account as it was read, account: as
\* refreshed.  list: the file as the request read it, and left its accounts not
\* yet tried.  change: the update it waits
\* for.  data: the file as update read and changed it.
Idle == [pc |-> "idle", job |-> None, home |-> None, uid |-> None, raw |-> None,
         account |-> None, list |-> None, left |-> {}, tries |-> 0, change |-> None, data |-> None]

TypeOK ==
    /\ accounts \in [Accounts -> WbAccount \cup {None}]
    /\ \A p \in Processes : \A i \in DOMAIN chain[p] : chain[p][i] \in Tasks
    /\ flights \in [Processes -> [Accounts -> Tokens \cup {None}]]
    /\ \A t \in Tasks : task[t].pc \in {"idle", "read", "fresh", "refresh", "queued",
                                        "writing", "send", "next", "browser"}
    /\ now \in 0 .. inst.periods /\ starts \in 0 .. inst.starts

Init ==
    /\ inst \in Instances
    /\ accounts = [a \in Accounts |->
          IF a \notin inst.accounts THEN None
          ELSE [token |-> 0, needsLogin |-> FALSE, cooldownUntil |-> 0, modelCooldown |-> 0]]
    /\ chain = [p \in Processes |-> <<>>]
    /\ flights = [p \in Processes |-> [a \in Accounts |-> None]]
    /\ task = [t \in Tasks |-> Idle]
    /\ upstream = [live |-> [a \in Accounts |-> {0}], expiring |-> {},
                   from |-> <<>>]
    /\ now = 0 /\ starts = 0

---------------------------------------------------------------------------
Given == Len(upstream.from)  \* token pairs given out so far
Grant(a, spent, from) ==
    upstream' = [upstream EXCEPT !.live[a] = (@ \ {spent}) \cup {Given + 1},
                                 !.from = Append(@, from)]

needsRefresh(r) == r.token \in upstream.expiring

usable(r) == ~r.needsLogin /\ r.cooldownUntil <= now /\ r.modelCooldown <= now

\* Accounts that may serve, best first; those whose quota is spent when no
\* other is left.
candidates ==
    LET live == {a \in Accounts : accounts[a] # None /\ usable(accounts[a])}
        pool == {a \in Accounts : accounts[a] # None /\ ~accounts[a].needsLogin
                                  /\ accounts[a].modelCooldown = 0}
    IN  IF live # {} THEN live ELSE pool

\* What the function that a task gives to store.update makes of the file at a time.
Changed(data, r, time) ==
    LET a == r.uid
        old == data[a]
        raw == r.raw
        new == r.account
    IN  [data EXCEPT ![a] =
           IF r.change = "upsert"
           THEN IF old = None THEN new ELSE [old EXCEPT !.token = new.token]
           ELSE IF old = None THEN None
           ELSE CASE r.change = "remove" -> None
             [] r.change = "relogin" ->
                  IF old.token = raw.token THEN [old EXCEPT !.needsLogin = TRUE] ELSE old
             [] r.change = "tokens" ->
                  IF old.token = raw.token
                  THEN [old EXCEPT !.token = new.token, !.needsLogin = FALSE] ELSE old
             [] r.change = "renew" ->
                  IF old.token = raw.token THEN [old EXCEPT !.token = new.token] ELSE old
             [] r.change = "cooldown" -> [old EXCEPT !.cooldownUntil = time + 1]
             [] r.change = "limit" -> [old EXCEPT !.modelCooldown = time + 1]
             [] r.change = "refused" -> [old EXCEPT !.needsLogin = TRUE]]

Home(t) == task[t].home
Goes(t, r) == task' = [task EXCEPT ![t] = r]

\* store.update: queued on the chain of the process.
Update(t, r, change) ==
    /\ Goes(t, [r EXCEPT !.pc = "queued", !.change = change])
    /\ chain' = [chain EXCEPT ![r.home] = Append(@, t)]

---------------------------------------------------------------------------
(* Requests and commands begin.                                            *)

Start(t, p) ==
    /\ task[t].pc = "idle" /\ starts < inst.starts
    /\ starts' = starts + 1
    /\ \/ /\ Goes(t, [Idle EXCEPT !.pc = "read", !.job = "chat", !.home = p])
          /\ UNCHANGED chain
       \/ \E a \in inst.accounts :
             \* provider.refresh, one expiring account of it; or
             \* ensureFreshAccount for the catalog and the commands
             \/ /\ accounts[a] # None /\ ~accounts[a].needsLogin
                /\ needsRefresh(accounts[a])
                /\ \E job \in {"hook", "warm"} :
                      Goes(t, [Idle EXCEPT !.pc = "fresh", !.job = job, !.home = p,
                                           !.uid = a, !.raw = accounts[a]])
                /\ UNCHANGED chain
             \/ /\ Goes(t, [Idle EXCEPT !.pc = "browser", !.job = "login", !.home = p,
                                        !.uid = a])
                /\ UNCHANGED chain
             \/ Update(t, [Idle EXCEPT !.job = "remove", !.home = p, !.uid = a], "remove")
    /\ UNCHANGED <<inst, accounts, flights, upstream, now>>

\* The store is read once, and the candidates are those of that moment.
ReadCandidates(t) ==
    /\ task[t].pc = "read"
    /\ IF candidates = {} THEN Goes(t, Idle)
       ELSE Goes(t, [task[t] EXCEPT !.pc = "next", !.left = candidates,
                                    !.list = accounts])
    /\ UNCHANGED <<inst, accounts, chain, flights, upstream, now, starts>>

\* The next account in order, as it was read (ensureFreshAccount).
NextAccount(t) ==
    /\ task[t].pc = "next"
    /\ \E a \in task[t].left :
          LET r == task[t].list[a]
          IN  Goes(t, [task[t] EXCEPT !.pc = IF needsRefresh(r) THEN "fresh" ELSE "send",
                                      !.left = @ \ {a}, !.tries = @ + 1,
                                      !.uid = a, !.raw = r, !.account = r])
    /\ UNCHANGED <<inst, accounts, chain, flights, upstream, now, starts>>

More(t) == task[t].left # {} /\ task[t].tries < maxAttempts

\* The loop goes on, or the request ends with what it has.
Rotate(t) == Goes(t, IF More(t) THEN [task[t] EXCEPT !.pc = "next"] ELSE Idle)

---------------------------------------------------------------------------
(* Refresh.                                                                *)

\* refreshAccount: a refresh in flight for the uid is joined.
Refresh(t) ==
    LET p == Home(t)
        a == task[t].uid
    IN  /\ task[t].pc = "fresh"
        /\ Goes(t, [task[t] EXCEPT !.pc = "refresh"])
        /\ flights' = [flights EXCEPT ![p][a] = IF @ = None THEN task[t].raw.token ELSE @]
        /\ UNCHANGED <<inst, accounts, chain, upstream, now, starts>>

Joined(p, a) == {t \in Tasks : task[t].pc = "refresh" /\ Home(t) = p /\ task[t].uid = a}

Orders(S) == {q \in [1 .. Cardinality(S) -> S] : \A i, j \in DOMAIN q : q[i] = q[j] => i = j}

\* What the awaiting tasks do with the answer: got is the next record of each.
\* Those that update are queued one after the other.
Resume(p, a, got) ==
    /\ task' = [t \in Tasks |-> IF t \in Joined(p, a) THEN got[t] ELSE task[t]]
    /\ flights' = [flights EXCEPT ![p][a] = None]
    /\ \E order \in Orders({t \in Joined(p, a) : got[t].pc = "queued"}) :
          chain' = [chain EXCEPT ![p] = @ \o order]

\* A pair that is live is rotated; the answer reaches every task that waits.
RefreshOk(p, a) ==
    LET spent == flights[p][a]
        got == [t \in Joined(p, a) |-> [task[t] EXCEPT
                     !.pc = "queued",
                     !.change = IF task[t].job = "hook" THEN "renew" ELSE "tokens",
                     !.account = [task[t].raw EXCEPT !.token = Given + 1, !.needsLogin = FALSE]]]
    IN  /\ spent # None /\ spent \in upstream.live[a] /\ Given < inst.tokens
        /\ Grant(a, spent, spent)
        /\ Resume(p, a, got)
        /\ UNCHANGED <<inst, accounts, now, starts>>

\* A pair that was spent before is refused: the account must log in again,
\* if it still has that pair.  The refresh hook goes on to the next account.
RefreshRefused(p, a) ==
    LET got == [t \in Joined(p, a) |->
                   IF task[t].job = "hook" THEN Idle
                   ELSE [task[t] EXCEPT !.pc = "queued", !.change = "relogin"]]
    IN  /\ flights[p][a] # None /\ flights[p][a] \notin upstream.live[a]
        /\ Resume(p, a, got)
        /\ UNCHANGED <<inst, accounts, upstream, now, starts>>

\* The refresh throws; a request goes on to the next account.
RefreshFails(p, a) ==
    LET got == [t \in Joined(p, a) |->
                   IF task[t].job = "chat" /\ More(t)
                   THEN [task[t] EXCEPT !.pc = "next"] ELSE Idle]
    IN  /\ flights[p][a] # None
        /\ Resume(p, a, got)
        /\ UNCHANGED <<inst, accounts, upstream, now, starts>>

---------------------------------------------------------------------------
(* store.update: the head of the chain reads and changes the file, then    *)
(* writes and renames it.                                                  *)

\* Mutant: an update does not wait for the ones before it.
UpdateReadNow(t) ==
    /\ task[t].pc = "queued"
    /\ Goes(t, [task[t] EXCEPT !.pc = "writing", !.data = Changed(accounts, task[t], now)])
    /\ UNCHANGED <<inst, accounts, chain, flights, upstream, now, starts>>

UpdateRead(t) ==
    /\ task[t].pc = "queued" /\ chain[Home(t)] # <<>> /\ Head(chain[Home(t)]) = t
    /\ Goes(t, [task[t] EXCEPT !.pc = "writing", !.data = Changed(accounts, task[t], now)])
    /\ UNCHANGED <<inst, accounts, chain, flights, upstream, now, starts>>

\* What the task may do after its update: a request sends what it refreshed;
\* after a refusal it goes on only with some codes (rotateEligible).
Continued(t) ==
    IF task[t].job # "chat" THEN {Idle}
    ELSE IF task[t].change \in {"tokens", "relogin"}
    THEN {[task[t] EXCEPT !.pc = "send", !.data = None]}
    ELSE {Idle} \cup (IF More(t) THEN {[task[t] EXCEPT !.pc = "next", !.data = None]}
                      ELSE {})

UpdateRename(t) ==
    /\ task[t].pc = "writing"
    /\ accounts' = task[t].data
    /\ chain' = [chain EXCEPT ![Home(t)] = Tail(@)]
    /\ \E r \in Continued(t) : Goes(t, r)
    /\ UNCHANGED <<inst, flights, upstream, now, starts>>

---------------------------------------------------------------------------
(* The answer to the request sent with the account's token.                *)

Answer(t) ==
    LET stale == task[t].account.token \notin upstream.live[task[t].uid]
    IN  /\ task[t].pc = "send"
        /\ \/ Goes(t, Idle) /\ UNCHANGED chain          \* served, or a final error
           \/ Update(t, task[t], "limit")                \* 6004
           \/ Update(t, task[t], "cooldown")             \* quota
           \/ stale /\ Update(t, task[t], "refused")     \* 401, 403
           \/ Rotate(t) /\ UNCHANGED chain               \* 5xx, no connection
        /\ UNCHANGED <<inst, accounts, flights, upstream, now, starts>>

\* The browser sign-in gives a new pair, and the account is upserted.
LoggedIn(t) ==
    LET new == [token |-> Given + 1, needsLogin |-> FALSE,
                cooldownUntil |-> 0, modelCooldown |-> 0]
    IN  /\ task[t].pc = "browser" /\ Given < inst.tokens
        /\ Grant(task[t].uid, None, None)
        /\ Update(t, [task[t] EXCEPT !.account = new], "upsert")
        /\ UNCHANGED <<inst, accounts, flights, now, starts>>

---------------------------------------------------------------------------
(* Time.                                                                   *)

\* A pair comes close to its expiry; that takes far longer than a request.
Expire(a) ==
    /\ accounts[a] # None /\ accounts[a].token \notin upstream.expiring
    /\ \A t \in Tasks : task[t].pc \in {"idle", "browser"}
    /\ upstream' = [upstream EXCEPT !.expiring = @ \cup {accounts[a].token}]
    /\ UNCHANGED <<inst, accounts, chain, flights, task, now, starts>>

\* Upstream ends the sessions of an account.
Revoke(a) ==
    /\ upstream.live[a] # {}
    /\ a \in inst.accounts
    /\ upstream' = [upstream EXCEPT !.live[a] = {}]
    /\ UNCHANGED <<inst, accounts, chain, flights, task, now, starts>>

Pass == /\ now < inst.periods /\ now' = now + 1
        /\ UNCHANGED <<inst, accounts, chain, flights, task, upstream, starts>>

---------------------------------------------------------------------------
Step(t) == \/ ReadCandidates(t) \/ NextAccount(t) \/ Refresh(t)
           \/ UpdateRead(t) \/ UpdateRename(t) \/ Answer(t) \/ LoggedIn(t)

Next ==
    \/ \E t \in Tasks, p \in Processes : Start(t, p)
    \/ \E t \in Tasks : Step(t)
    \/ \E p \in Processes, a \in Accounts :
          RefreshOk(p, a) \/ RefreshRefused(p, a) \/ RefreshFails(p, a)
    \/ \E a \in Accounts : Expire(a) \/ Revoke(a)
    \/ Pass

Spec == Init /\ [][Next]_wbvars

---------------------------------------------------------------------------
(* Properties.                                                             *)

\* Within one process an update is one step of the file: what is renamed is
\* the change made to the file as it is then, not as it was when it was read
\* ("two concurrent logins must not clobber each other's account").
Atomic ==
    accounts' # accounts =>
       \E t \in Tasks, time \in 0 .. now :
          task[t].pc = "writing" /\ accounts' = Changed(accounts, task[t], time)
UpdatesAtomic == [][Atomic]_wbvars

\* The tokens of an account are replaced by a login's, or by those that a
\* refresh made out of them: the outcome of a refresh begun before a login
\* never replaces what the login brought (auth.ts, provider.ts).
Descends ==
    \A a \in Accounts :
       /\ accounts[a] # None /\ accounts'[a] # None
       /\ accounts'[a].token # accounts[a].token
       => upstream.from[accounts'[a].token] \in {None, accounts[a].token}
TokensDescend == [][Descends]_wbvars

---------------------------------------------------------------------------
(* What the two rest on where one process uses the file.  A task that      *)
(* writes is the head of the chain, and has what its change makes of the   *)
(* file as it is; of each account one token at most that is known to       *)
(* anyone is to be refreshed, so that a refresh that is joined spends the  *)
(* token of everyone who joins.                                            *)
Changes == {"upsert", "remove", "relogin", "tokens", "renew", "cooldown", "limit", "refused"}

Alone == \A p, q \in Processes : p = q

\* The tokens of an account that a task has read or was given.
KnownTo(r, a) ==
    IF r.pc \in {"idle", "browser"} THEN {}
    ELSE {k.token : k \in {IF r.list = None THEN None ELSE r.list[a],
                           IF r.uid = a THEN r.raw ELSE None,
                           IF r.uid = a THEN r.account ELSE None} \ {None}}
Known(a) ==
    (IF accounts[a] = None THEN {} ELSE {accounts[a].token})
        \cup ({flights[p][a] : p \in Processes} \ {None})
        \cup UNION {KnownTo(task[t], a) : t \in Tasks}

Upstreams == [live: [Accounts -> SUBSET Nat], expiring: SUBSET Nat,
              from: Seq(Nat \cup {None})]

FilesFit ==
    /\ inst \in Instances /\ accounts \in Files /\ now \in Nat
    /\ chain \in [Processes -> Seq(Tasks)]
    /\ flights \in [Processes -> [Accounts -> Nat \cup {None}]]
    /\ upstream \in Upstreams
    /\ upstream.expiring \subseteq 0 .. Given

TokensFit ==
    \A a \in Accounts :
       /\ Known(a) \subseteq 0 .. Given
       /\ \A x, y \in Known(a) \cap upstream.expiring : x = y
       /\ \A p \in Processes : flights[p][a] # None =>
             flights[p][a] \in upstream.expiring /\ Joined(p, a) # {}

\* A request keeps the file that it read, and its accounts in it.
Shaped(r) ==
    /\ r = [f \in DOMAIN Idle |-> r[f]]
    /\ r.raw \in Stored \cup {None} /\ r.account \in Stored \cup {None}
    /\ r.list \in Files \cup {None}
    /\ r.pc # "idle" => r.home \in Processes
    /\ r.pc \notin {"idle", "read", "next"} => r.uid \in Accounts
    /\ r.pc = "browser" => r.raw = None /\ r.account = None /\ r.list = None
    /\ r.pc \in {"read", "next", "send"} => r.job = "chat"
    /\ r.job = "chat" /\ r.pc \notin {"idle", "read"} =>
          r.list \in Files /\ r.left \subseteq {a \in Accounts : r.list[a] # None}

\* The pair that an update brings was made out of the one it replaces.
Brings(r, from) ==
    /\ r.change \in Changes
    /\ r.change \in {"relogin", "tokens", "renew"} => r.raw \in Stored
    /\ r.change \in {"upsert", "tokens", "renew"} =>
          /\ r.account \in Stored /\ r.account.token \in DOMAIN from
          /\ from[r.account.token] = IF r.change = "upsert" THEN None ELSE r.raw.token

TaskFits(t) ==
    /\ Shaped(task[t])
    /\ task[t].pc \in {"fresh", "refresh"} =>
          task[t].raw \in Stored /\ task[t].raw.token \in upstream.expiring
    /\ task[t].pc \in {"queued", "writing"} => Brings(task[t], upstream.from)
    /\ task[t].pc = "writing" =>
          /\ chain[task[t].home] # <<>> /\ Head(chain[task[t].home]) = t
          /\ \E time \in 0 .. now : task[t].data = Changed(accounts, task[t], time)

WorkBuddyInv ==
    FilesFit /\ TokensFit /\ task = [t \in Tasks |-> task[t]] /\ \A t \in Tasks : TaskFits(t)
=============================================================================
