----------------------------- MODULE GeminiWeb -----------------------------
(***************************************************************************)
(* The Gemini Web provider: one cookie credential in a file shared by the  *)
(* processes (auth.ts), and in each process a client that caches a         *)
(* bootstrap page and runs generations and refreshes (client.ts, index.ts).*)
(* Every write of the file happens under a lock directory that is never    *)
(* stolen; reads take no lock.  A step is what runs between two awaits;    *)
(* pages and frames are left out, and of a cookie header only its identity *)
(* (the import), its rotated token `ts` and its other cookies `cc` matter. *)
(* Days stand for the clock: a bootstrap's ten minutes may or may not have *)
(* passed, whatever the day.                                               *)
(***************************************************************************)
EXTENDS Naturals, Sequences, FiniteSets

CONSTANTS Processes, Tasks, MaxImports, MaxDay, MaxTokens, MaxStarts, None

VARIABLES
  store,     \* credentials.json: None, or the credential
  lock,      \* credentials.json.lock: None, its task, or the process that died with it
  client,    \* by process: None, or its cached bootstrap and the queue of its setupLock
  task,      \* by task: None, or a command or request under way
  google,    \* the last values Google issued of the two parts of the cookies
  day, imports, starts,
  rotations  \* history: how often a rotation was asked for, by identity and day

gwvars == <<store, lock, client, task, google, day, imports, starts, rotations>>

Revs == 1..MaxImports
Days == 0..MaxDay
Cookies == [rev : Revs, ts : 0..MaxTokens, cc : 0..MaxTokens]
Credentials == [rev : Revs, cookie : Cookies, updatedAt : Days,
                lastRotationAt : Days \cup {None}, models : Revs \cup {None}]
Clients == [cache : {None} \cup [rev : Revs, cookie : Cookies], setup : Seq(Tasks)]
Kinds == {"generate", "refresh", "import", "logout"}
Stages == {"cache", "queue", "bootstrap", "storeBack", "send", "lock", "rotate", "verify", "discover"}
NewClient == [cache |-> None, setup |-> << >>]

GeminiAssumption ==
  /\ MaxImports \in Nat /\ MaxDay \in Nat /\ MaxTokens \in Nat /\ MaxStarts \in Nat
  /\ None \notin Tasks /\ None \notin Nat /\ None \notin Credentials

GWTypeOK ==
  /\ store \in Credentials \cup {None}
  /\ lock \in Tasks \cup Processes \cup {None}
  /\ client \in [Processes -> Clients \cup {None}]
  /\ task \in [Tasks -> {None} \cup
       [kind : Kinds, p : Processes, stage : Stages, closed : BOOLEAN,
        cred : Credentials \cup {None}, cookie : Cookies \cup {None}]]
  /\ google \in [ts : 0..MaxTokens, cc : 0..MaxTokens]
  /\ day \in Days /\ imports \in 0..MaxImports /\ starts \in 0..MaxStarts
  /\ rotations \in [Revs \X Days -> Nat]

GWInit ==
  /\ store = None /\ lock = None
  /\ client = [p \in Processes |-> None] /\ task = [t \in Tasks |-> None]
  /\ google = [ts |-> 0, cc |-> 0] /\ day = 0 /\ imports = 0 /\ starts = 0
  /\ rotations = [r \in Revs \X Days |-> 0]

At(t, stage) == task[t] # None /\ task[t].stage = stage
Live(t) == task[t] # None /\ ~task[t].closed
Finish(t) == task' = [task EXCEPT ![t] = None]
Goto(t, stage) == task' = [task EXCEPT ![t].stage = stage]

(* index.ts getClient.                                                     *)
Opened(p) == IF client[p] = None THEN [client EXCEPT ![p] = NewClient] ELSE client

(* close(): what still runs for the client of p finds it closed after its  *)
(* next await; a waiter of setupLock leaves its queue with an error.       *)
Closed(p, tasks) ==
  [t \in Tasks |->
     IF tasks[t] = None \/ tasks[t].p # p THEN tasks[t]
     ELSE IF tasks[t].stage = "queue" THEN None
     ELSE [tasks[t] EXCEPT !.closed = TRUE]]

(* A task in the network of a closed client is the only one that notices:  *)
(* the queue of a closed client is never looked at again.                  *)
Release(t) ==
  client' = IF Live(t) THEN [client EXCEPT ![task[t].p].setup = Tail(@)] ELSE client

CacheBootstrap(t, cred, cookie, setup) ==
  client' = IF Live(t) THEN [client EXCEPT ![task[t].p] =
                  [cache |-> [rev |-> cred.rev, cookie |-> cookie], setup |-> setup]]
            ELSE client

Begin(t, p, kind, stage, cred) ==
  /\ task[t] = None /\ starts < MaxStarts
  /\ starts' = starts + 1
  /\ task' = [task EXCEPT ![t] = [kind |-> kind, p |-> p, stage |-> stage, closed |-> FALSE,
                                  cred |-> cred, cookie |-> None]]

----------------------------------------------------------------------------
(* generate                                                                *)

(* The credential is read without the lock; one without models fails.      *)
Generate(t, p) ==
  /\ store # None /\ store.models # None
  /\ Begin(t, p, "generate", "cache", store)
  /\ client' = Opened(p)
  /\ UNCHANGED <<store, lock, google, day, imports, rotations>>

Usable(t) ==
  LET cache == client[task[t].p].cache
  IN  cache # None /\ cache.rev = task[t].cred.rev

(* getOrFetchBootstrap: a cached page of this identity that is not too old *)
(* is used, before the setupLock or once it is held.                       *)
CacheHit(t) ==
  /\ At(t, "cache") \/ At(t, "queue")
  /\ Live(t) /\ Usable(t)
  /\ \/ At(t, "cache") /\ UNCHANGED client
     \/ At(t, "queue") /\ Head(client[task[t].p].setup) = t /\ Release(t)
  /\ task' = [task EXCEPT ![t].stage = "send", ![t].cookie = client[task[t].p].cache.cookie]
  /\ UNCHANGED <<store, lock, google, day, imports, starts, rotations>>

SetupLock(t) ==
  /\ At(t, "cache") /\ Live(t)
  /\ client' = [client EXCEPT ![task[t].p].setup = Append(@, t)]
  /\ Goto(t, "queue")
  /\ UNCHANGED <<store, lock, google, day, imports, starts, rotations>>

CacheMiss(t) ==
  /\ At(t, "queue") /\ Head(client[task[t].p].setup) = t
  /\ Goto(t, "bootstrap")
  /\ UNCHANGED <<store, lock, client, google, day, imports, starts, rotations>>

(* doBootstrap: the page may set cookies, which are merged over those the  *)
(* request was sent with.                                                  *)
Issued(cookie) ==
  {cookie} \cup (IF google.cc < MaxTokens THEN {[cookie EXCEPT !.cc = google.cc + 1]} ELSE {})

Bootstrap(t) ==
  /\ At(t, "bootstrap") /\ Live(t)
  /\ \E cookie \in Issued(task[t].cred.cookie) :
       LET changed == cookie # task[t].cred.cookie
           setup == client[task[t].p].setup
       IN  /\ google' = IF changed THEN [google EXCEPT !.cc = @ + 1] ELSE google
           /\ CacheBootstrap(t, task[t].cred, cookie, IF changed THEN setup ELSE Tail(setup))
           /\ task' = [task EXCEPT ![t].cookie = cookie,
                                   ![t].stage = IF changed THEN "storeBack" ELSE "send"]
  /\ UNCHANGED <<store, lock, day, imports, starts, rotations>>

BootstrapFails(t) ==
  /\ At(t, "bootstrap") \/ (At(t, "cache") /\ ~Live(t))
  /\ Release(t) /\ Finish(t)
  /\ UNCHANGED <<store, lock, google, day, imports, starts, rotations>>

\* Mutant: the cookies go to the stored credential, whose ever it is.
WrittenBackAny(t) ==
  IF store = None THEN store ELSE [store EXCEPT !.cookie = task[t].cookie, !.updatedAt = day]

(* The new cookies go to the stored credential of the same identity, or    *)
(* nowhere; the whole update is made under the lock.                       *)
WrittenBack(t) ==
  IF store = None \/ store.rev # task[t].cred.rev THEN store
  ELSE [store EXCEPT !.cookie = task[t].cookie, !.updatedAt = day]

StoreBack(t) ==
  /\ At(t, "storeBack") /\ lock = None
  /\ store' = WrittenBack(t)
  /\ Release(t)
  /\ IF Live(t) THEN Goto(t, "send") ELSE Finish(t)
  /\ UNCHANGED <<lock, google, day, imports, starts, rotations>>

(* The answer; a refusal drops the cached page, whichever page that is.    *)
Answered(t) ==
  /\ At(t, "send")
  /\ \E refused \in BOOLEAN :
       client' = IF refused /\ Live(t) THEN [client EXCEPT ![task[t].p].cache = None] ELSE client
  /\ Finish(t)
  /\ UNCHANGED <<store, lock, google, day, imports, starts, rotations>>

----------------------------------------------------------------------------
(* refresh, which keeps the lock over its requests                         *)

RefreshStart(t, p) ==
  /\ Begin(t, p, "refresh", "lock", None)
  /\ client' = Opened(p)
  /\ UNCHANGED <<store, lock, google, day, imports, rotations>>

(* A task whose wait for the lock is over its 35 s gives up with an error. *)
LockTimeout(t) ==
  /\ task[t] # None /\ task[t].stage \in {"lock", "storeBack"} /\ lock # None
  /\ IF task[t].stage = "storeBack" THEN Release(t) ELSE UNCHANGED client
  /\ Finish(t)
  /\ UNCHANGED <<store, lock, google, day, imports, starts, rotations>>

Due(cred) ==
  day - (IF cred.lastRotationAt = None THEN cred.updatedAt ELSE cred.lastRotationAt) >= 1

RefreshLocked(t) ==
  /\ At(t, "lock") /\ task[t].kind = "refresh" /\ lock = None
  /\ IF store = None THEN Finish(t) /\ UNCHANGED lock
     ELSE /\ lock' = t
          /\ task' = [task EXCEPT ![t].cred = store,
                                  ![t].stage = IF Due(store) THEN "rotate" ELSE "verify"]
  /\ UNCHANGED <<store, client, google, day, imports, starts, rotations>>

(* rotateCookies, then the attempt and the rotated token are saved whether *)
(* or not it succeeded, even for a client that was closed meanwhile.       *)
Rotate(t) ==
  /\ At(t, "rotate")
  /\ \E rotated \in BOOLEAN :
       LET cred == [task[t].cred EXCEPT
             !.lastRotationAt = day,
             !.cookie.ts = IF rotated THEN google.ts + 1 ELSE @,
             !.updatedAt = IF rotated THEN day ELSE @]
       IN  /\ rotated => Live(t) /\ google.ts < MaxTokens
           /\ google' = IF rotated THEN [google EXCEPT !.ts = @ + 1] ELSE google
           /\ store' = cred
           /\ task' = [task EXCEPT ![t].cred = cred, ![t].stage = "verify"]
  /\ rotations' = [rotations EXCEPT ![<<task[t].cred.rev, day>>] = @ + 1]
  /\ UNCHANGED <<lock, client, day, imports, starts>>

Verify(t) ==
  /\ At(t, "verify") /\ Live(t)
  /\ \E cookie \in Issued(task[t].cred.cookie) :
       LET changed == cookie # task[t].cred.cookie
           cred == IF changed THEN [task[t].cred EXCEPT !.cookie = cookie, !.updatedAt = day]
                   ELSE task[t].cred
       IN  /\ google' = IF changed THEN [google EXCEPT !.cc = @ + 1] ELSE google
           /\ store' = IF changed THEN cred ELSE store
           /\ CacheBootstrap(t, cred, cookie, client[task[t].p].setup)
           /\ task' = [task EXCEPT ![t].cred = cred, ![t].stage = "discover"]
  /\ UNCHANGED <<lock, day, imports, starts, rotations>>

Discover(t) ==
  /\ At(t, "discover") /\ Live(t)
  /\ store' = [task[t].cred EXCEPT !.models = task[t].cred.rev]
  /\ lock' = None /\ Finish(t)
  /\ UNCHANGED <<client, google, day, imports, starts, rotations>>

(* A failed or closed request ends the refresh; what it saved stays.       *)
RefreshFails(t) ==
  /\ At(t, "verify") \/ At(t, "discover")
  /\ lock' = None /\ Finish(t)
  /\ UNCHANGED <<store, client, google, day, imports, starts, rotations>>

----------------------------------------------------------------------------
(* The commands and the process                                            *)

(* /gemini-web.import and /gemini-web.logout close the client first.       *)
Command(t, p, kind) ==
  /\ kind = "import" => imports < MaxImports
  /\ task[t] = None /\ starts < MaxStarts
  /\ starts' = starts + 1
  /\ task' = [Closed(p, task) EXCEPT ![t] = [kind |-> kind, p |-> p, stage |-> "lock",
                closed |-> FALSE, cred |-> None, cookie |-> None]]
  /\ client' = [client EXCEPT ![p] = None]
  /\ UNCHANGED <<store, lock, google, day, imports, rotations>>

(* The import replaces the credential, resets the client and refreshes it. *)
ImportStored(t) ==
  /\ At(t, "lock") /\ task[t].kind = "import" /\ lock = None /\ imports < MaxImports
  /\ imports' = imports + 1
  /\ store' = [rev |-> imports + 1, updatedAt |-> day, lastRotationAt |-> None, models |-> None,
               cookie |-> [rev |-> imports + 1, ts |-> google.ts, cc |-> google.cc]]
  /\ client' = [client EXCEPT ![task[t].p] = NewClient]
  /\ task' = [Closed(task[t].p, task) EXCEPT ![t] =
                [task[t] EXCEPT !.kind = "refresh", !.closed = FALSE]]
  /\ UNCHANGED <<lock, google, day, starts, rotations>>

LogoutStored(t) ==
  /\ At(t, "lock") /\ task[t].kind = "logout" /\ lock = None
  /\ store' = None /\ Finish(t)
  /\ UNCHANGED <<lock, client, google, day, imports, starts, rotations>>

(* session_shutdown aborts the commands that wait and closes the client.   *)
Shutdown(p) ==
  /\ client[p] # None
  /\ client' = [client EXCEPT ![p] = None]
  /\ task' = [t \in Tasks |-> IF At(t, "lock") /\ task[t].p = p THEN None ELSE Closed(p, task)[t]]
  /\ UNCHANGED <<store, lock, google, day, imports, starts, rotations>>

(* A process that dies with the lock leaves it behind for good.            *)
Crash(p) ==
  /\ \E t \in Tasks : task[t] # None /\ task[t].p = p
  /\ lock' = IF lock \in Tasks /\ task[lock].p = p THEN p ELSE lock
  /\ task' = [t \in Tasks |-> IF task[t] # None /\ task[t].p = p THEN None ELSE task[t]]
  /\ client' = [client EXCEPT ![p] = None]
  /\ UNCHANGED <<store, google, day, imports, starts, rotations>>

NextDay == day < MaxDay /\ day' = day + 1
           /\ UNCHANGED <<store, lock, client, task, google, imports, starts, rotations>>

TaskNext(t) ==
  \/ CacheHit(t) \/ SetupLock(t) \/ CacheMiss(t) \/ Bootstrap(t) \/ BootstrapFails(t)
  \/ StoreBack(t) \/ Answered(t) \/ LockTimeout(t)
  \/ RefreshLocked(t) \/ Rotate(t) \/ Verify(t) \/ Discover(t) \/ RefreshFails(t)
  \/ ImportStored(t) \/ LogoutStored(t)

GWNext ==
  \/ \E t \in Tasks : TaskNext(t)
  \/ \E t \in Tasks, p \in Processes :
       \/ Generate(t, p) \/ RefreshStart(t, p)
       \/ \E kind \in {"import", "logout"} : Command(t, p, kind)
  \/ \E p \in Processes : Shutdown(p) \/ Crash(p)
  \/ NextDay

GWSpec == GWInit /\ [][GWNext]_gwvars

----------------------------------------------------------------------------
(* A cookie belongs to the import it came with, wherever it is: the stored *)
(* one and its models, a cached page's, and the one a request is sent with *)
(* all carry the identity they are kept under, whichever process imported, *)
(* logged out or refreshed while they were in flight (auth.ts:22, "bound   *)
(* to this imported cookie identity").                                     *)
OneIdentity ==
  /\ store # None => store.cookie.rev = store.rev /\ store.models \in {None, store.rev}
  /\ \A p \in Processes : client[p] # None /\ client[p].cache # None =>
       client[p].cache.cookie.rev = client[p].cache.rev
  /\ \A t \in Tasks : At(t, "send") => task[t].cookie.rev = task[t].cred.rev

(* One identity's token is rotated at most once a day whatever the         *)
(* processes do (README: "at most once every 24 hours").                   *)
RotationPaced == \A r \in DOMAIN rotations : rotations[r] <= 1

----------------------------------------------------------------------------
(* What these rest on.  What a task, a client and the file know of an      *)
(* identity is its own; who refreshes holds the lock, and what it read is  *)
(* what the file says; and the file remembers its identity's rotations.    *)
GoodCred(c) == c \in Credentials /\ c.cookie.rev = c.rev /\ c.models \in {None, c.rev}

GoodClient(c) ==
  /\ c = [cache |-> c.cache, setup |-> c.setup]
  /\ c.cache = None \/ (c.cache \in [rev : Revs, cookie : Cookies] /\ c.cache.cookie.rev = c.cache.rev)

GoodTask(x) ==
  /\ x \in [kind : Kinds, p : Processes, stage : Stages, closed : BOOLEAN,
            cred : Credentials \cup {None}, cookie : Cookies \cup {None}]
  /\ x.stage # "lock" => GoodCred(x.cred)
  /\ x.stage \in {"storeBack", "send"} => x.cookie \in Cookies /\ x.cookie.rev = x.cred.rev
  /\ x.stage # "lock" => x.kind \in {"generate", "refresh"}

Held == {"rotate", "verify", "discover"}

Fits(t) ==
  /\ GoodTask(task[t])
  /\ ~task[t].closed /\ task[t].kind \in {"generate", "refresh"} => GoodClient(client[task[t].p])
  /\ task[t].stage \in Held => lock = t /\ store = task[t].cred
  /\ task[t].stage = "rotate" => Due(task[t].cred)

FileFits ==
  /\ store = None \/ (GoodCred(store) /\ store.rev <= imports)
  /\ google \in [ts : 0..MaxTokens, cc : 0..MaxTokens] /\ day \in Days /\ imports \in 0..MaxImports
  /\ rotations \in [Revs \X Days -> 0..1]
  /\ \A r \in Revs, d \in Days : rotations[<<r, d>>] > 0 =>
       /\ d <= day /\ r <= imports
       /\ store # None /\ store.rev = r => store.lastRotationAt # None /\ d <= store.lastRotationAt

ClientsFit ==
  /\ client = [p \in Processes |-> client[p]]
  /\ \A p \in Processes : client[p] = None \/ GoodClient(client[p])

TasksFit ==
  /\ task = [t \in Tasks |-> task[t]]
  /\ \A t \in Tasks : task[t] = None \/ Fits(t)

GeminiInv == FileFits /\ ClientsFit /\ TasksFit
=============================================================================
