-------------------------- MODULE CliProcessProofs --------------------------
(***************************************************************************)
(* Theorems about CliProcess, for any scenarios and bounds: who holds the  *)
(* calls that wait for pi, what a call that continues a turn leaves open,  *)
(* whose result a call gets, and how the attempts at a call end.  The      *)
(* operators of the model take the world as a record, so the invariant is  *)
(* stated of worlds, and each operator has a lemma that says what it keeps *)
(* of one (Moves).                                                         *)
(***************************************************************************)
EXTENDS CliProcess, FiniteSetTheorems, WellFoundedInduction, TLAPS

-----------------------------------------------------------------------------
(* The invariant, of a world w and the settings s.                          *)

Worlds == [cli : [Procs -> Process], os : [Procs -> Program], tool : [Tools -> Block],
           call : PiCall, parked : 0 .. MaxProcs, map : 0 .. MaxProcs,
           stray : SUBSET [p : Procs, waits : BOOLEAN], wants : SUBSET Tools]

\* The blocks that the calls of process c are for, those it waits on, and those
\* it knows of.
Ids(c) == {x.id : x \in c.pending}
Awaited(c) == c.awaiting \cup Ids(c)
Known(c) == Awaited(c) \cup c.ready

\* The blocks that lines m are about, each at most once.
Blocks(m) == {m[i].t : i \in {j \in DOMAIN m : m[j].k = "tool"}}
Once(m) == \A i, j \in DOMAIN m :
               m[i].k = "tool" /\ m[j].k = "tool" /\ m[i].t = m[j].t => i = j

\* An open call is in one pending map, of a process that lives and serves.
Held(w) ==
    /\ \A p \in Procs : w.cli[p].pending # {} => w.cli[p].alive /\ ~w.cli[p].retired
    /\ \A p \in Procs : \A c \in w.cli[p].pending : w.tool[c.from].at = "open"
    /\ \A p, q \in Procs : \A c \in w.cli[p].pending, d \in w.cli[q].pending :
           c.from = d.from => p = q /\ c = d
    /\ \A t \in Tools : w.tool[t].at = "open" =>
           \E p \in Procs : \E c \in w.cli[p].pending : c.from = t

\* With tags, a call waits for its own block and gets its own result.
Matched(w, s) ==
    s.idTags =>
        /\ \A p \in Procs : \A c \in w.cli[p].pending : c.id = c.from
        /\ \A t \in Tools : w.tool[t].by = "pi" => w.tool[t].of = t

\* A block is announced once, by its process, before any process waits on it,
\* for its line or for its result.
Announced(w) ==
    \A p \in Procs :
        /\ Once(w.cli[p].buf) /\ Once(w.os[p].out)
        /\ Blocks(w.cli[p].buf) \cap Blocks(w.os[p].out) = {}
        /\ (Blocks(w.cli[p].buf) \cup Blocks(w.os[p].out)) \cap Known(w.cli[p]) = {}
        /\ w.cli[p].awaiting \cap Ids(w.cli[p]) = {}
        /\ \A t \in Blocks(w.cli[p].buf) \cup Blocks(w.os[p].out) \cup Known(w.cli[p]) :
               t \in Tools /\ w.tool[t].p = p

Born(w) ==
    /\ \A t \in Tools : w.tool[t].at = "new" => w.tool[t].p = 0
    /\ \A p \in Procs : w.os[p].run = "none" => ~w.cli[p].alive

\* The call that a process is in the hands of, and that no process is parked
\* beside.
Serves(c) == c.ph \in {"think", "lost"} \/ (c.ph = "open" /\ ~c.finished)
Engaged(c) == c.ph = "retire" \/ Serves(c)

Attached(w) ==
    \A p \in Procs : w.cli[p].sink =>
        p = w.call.p /\ w.call.ph = "open" /\ ~w.call.finished

\* Every process but r that serves is parked or in the hands of the call.
KeptBut(w, r) ==
    \A p \in Procs \ {r} : w.cli[p].alive /\ ~w.cli[p].retired =>
        p = w.parked \/ (p = w.call.p /\ Serves(w.call))

Free(w) ==
    /\ Engaged(w.call) => w.parked = NoProc
    /\ w.call.ph = "open" => w.parked \in {NoProc, w.call.p}

\* The call itself: what it is at first, and how its stream is ended.
CallSound(c) ==
    /\ c.ph # "none" => c.n # 0
    /\ c.ph \in {"think", "retire", "open", "lost"} => c.p # 0
    /\ c.ph \in {"start", "think", "retire"} =>
           /\ ~c.finished /\ ~c.miss /\ ~c.saw /\ ~c.selfInt /\ ~c.toolUse
           /\ c.tools = {} /\ c.ended = 0
    /\ c.ph = "open" /\ ~c.finished => c.ended = 0 /\ ~c.miss
    /\ c.ended <= 1
    /\ c.ph = "none" /\ c.n > 0 => c.ended = 1
    /\ ~c.saw => c.tools = {}

\* A second attempt starts with no session in the map.
Missed(w, s) ==
    /\ \A p \in Procs : w.os[p].resumed => ~s.piOwned
    /\ w.call.force => ~s.piOwned
    /\ w.call.ph = "open" /\ w.call.miss =>
           w.map = 0 /\ ~s.piOwned /\ w.parked = NoProc
    /\ w.call.ph = "think" => ~w.call.force
    /\ w.call.ph \in {"start", "retire"} /\ w.call.force => w.map = 0
    /\ w.call.ph = "open" /\ ~w.call.finished /\ w.call.force =>
           ~w.os[w.call.p].resumed /\ w.map = w.cli[w.call.p].session

\* The processes and their blocks; the same with the call; all but process r
\* being kept.
Base(w, s) ==
    w \in Worlds /\ Held(w) /\ Matched(w, s) /\ Announced(w) /\ Born(w) /\ Attached(w)
CoreBut(w, s, r) ==
    Base(w, s) /\ KeptBut(w, r) /\ Free(w) /\ CallSound(w.call) /\ Missed(w, s)
Core(w, s) == CoreBut(w, s, NoProc)

\* The process of an open call waits on what its line told this call of, and
\* on what pi has results R for.
Whole(w, R) ==
    \/ w.cli[w.call.p].eof
    \/ w.call.finished /\ w.cli[w.call.p].retired
    \/ ~w.call.finished /\ w.call.selfInt /\ w.call.saw
    \/ Awaited(w.cli[w.call.p]) \subseteq w.call.tools \cup R

\* Between its turns a process that serves waits on nothing.
Quiet(c) == c.alive /\ ~c.retired /\ ~c.eof /\ ~c.turn => Awaited(c) = {}

\* What the parked process waits on is what pi runs, if it runs anything.
Runs(w) == IF w.call.ph = "start" THEN w.call.results ELSE w.wants
Owed(w) ==
    /\ w.parked # NoProc /\ w.call.ph \in {"none", "start"} /\ Runs(w) # {}
    /\ w.cli[w.parked].alive /\ ~w.cli[w.parked].retired
    /\ w.cli[w.parked].turn /\ ~w.cli[w.parked].eof
    => Awaited(w.cli[w.parked]) \subseteq Runs(w)

\* Between callbacks an open call is attached to a process whose turn lives.
Live(w) ==
    /\ w.call.ph = "open" =>
        /\ ~w.call.finished /\ Whole(w, {})
        /\ w.cli[w.call.p].sink
        /\ w.cli[w.call.p].alive /\ ~w.cli[w.call.p].eof
        /\ w.cli[w.call.p].turn \/ w.cli[w.call.p].retired
    /\ w.call.ph = "think" => ~w.cli[w.call.p].turn

Good(w, s) ==
    Core(w, s) /\ Live(w) /\ Owed(w) /\ \A p \in Procs : Quiet(w.cli[p])

CliInv == conf \in Scenarios /\ Good(World, conf)

-----------------------------------------------------------------------------
(* What a callback keeps of the world.                                      *)

\* A process goes from c to d: it may be retired, be detached, give up calls,
\* wait on the blocks of T too, and resume its turn.
ProcMoves(c, d, T) ==
    /\ d.alive = c.alive /\ d.eof = c.eof /\ d.session = c.session /\ d.buf = c.buf
    /\ c.turn => d.turn
    /\ c.retired => d.retired
    /\ d.retired => c.retired \/ d.pending = {}
    /\ d.sink => c.sink
    /\ d.pending \subseteq c.pending
    /\ Awaited(d) \subseteq Awaited(c) \cup T
    /\ d.ready \subseteq c.ready \cup T
    /\ c.awaiting \cap Ids(c) = {} => d.awaiting \cap Ids(d) = {}

OsMoves(o, u) ==
    /\ u.out = o.out /\ u.resumed = o.resumed
    /\ u.run = "none" <=> o.run = "none"

CallMoves(c, d) ==
    /\ d.ph = c.ph /\ d.p = c.p /\ d.n = c.n /\ d.results = c.results
    /\ d.mode = c.mode /\ d.aborted = c.aborted /\ d.force = c.force
    /\ d.user = c.user
    /\ c.finished => d.finished

\* A call is given up by answering it, and is answered only with its own.
Answered(w, v) ==
    /\ \A t \in Tools : v.tool[t].p = w.tool[t].p
    /\ \A t \in Tools : v.tool[t].at = "new" <=> w.tool[t].at = "new"
    /\ \A t \in Tools : v.tool[t].at = w.tool[t].at \/ v.tool[t].at = "done"
    /\ \A q \in Procs : \A c \in w.cli[q].pending \ v.cli[q].pending :
           v.tool[c.from].at = "done"
    /\ \A t \in Tools : v.tool[t].at # w.tool[t].at =>
           \A q \in Procs : \A c \in v.cli[q].pending : c.from # t
    /\ \A t \in Tools : v.tool[t].by = "pi" =>
           \/ w.tool[t].by = "pi" /\ v.tool[t].of = w.tool[t].of
           \/ \E q \in Procs : \E c \in w.cli[q].pending :
                  c.from = t /\ c.id = v.tool[t].of

New(w, T, q) == IF q = w.call.p THEN T ELSE {}
Moves(w, v, T) ==
    /\ v \in Worlds
    /\ \A q \in Procs : ProcMoves(w.cli[q], v.cli[q], New(w, T, q))
    /\ \A q \in Procs : q # w.call.p => v.cli[q].turn = w.cli[q].turn
    /\ \A q \in Procs : v.cli[q].sink /\ v.call.finished => w.call.finished
    /\ \A q \in Procs : w.cli[q].sink /\ ~v.call.finished => v.cli[q].sink
    /\ \A q \in Procs : OsMoves(w.os[q], v.os[q])
    /\ Answered(w, v)
    /\ CallMoves(w.call, v.call)
    /\ v.stray = w.stray /\ v.wants = w.wants

\* The blocks of T are the call's process's, and no line names them any more.
Unnamed(w, T) ==
    \A t \in T : /\ t \in Tools /\ w.tool[t].p = w.call.p
                 /\ t \notin Blocks(w.cli[w.call.p].buf)
                 /\ t \notin Blocks(w.os[w.call.p].out)

\* Nor does any call name them yet.
Untold(w, T) == Unnamed(w, T) /\ T \cap Ids(w.cli[w.call.p]) = {}

LEMMA WorldParts ==
  ASSUME NEW w \in Worlds
  PROVE  /\ w.cli \in [Procs -> Process] /\ w.os \in [Procs -> Program]
         /\ w.tool \in [Tools -> Block] /\ w.call \in PiCall
         /\ w.parked \in 0 .. MaxProcs /\ w.map \in 0 .. MaxProcs
         /\ w.stray \in SUBSET [p : Procs, waits : BOOLEAN] /\ w.wants \in SUBSET Tools
  BY DEF Worlds

LEMMA MovesNothing ==
  ASSUME NEW w \in Worlds
  PROVE  Moves(w, w, {})
  BY DEF Moves, ProcMoves, OsMoves, CallMoves, Answered, New

LEMMA MovesTwice ==
  ASSUME NEW w \in Worlds, NEW v, NEW u, NEW S, NEW T, Moves(w, v, S), Moves(v, u, T)
  PROVE  Moves(w, u, S \cup T)
  <1>1. v.call.p = w.call.p
    BY DEF Moves, CallMoves
  <1>2. \A q \in Procs : ProcMoves(w.cli[q], u.cli[q], New(w, S \cup T, q))
    <2> SUFFICES ASSUME NEW q \in Procs PROVE ProcMoves(w.cli[q], u.cli[q], New(w, S \cup T, q))
      OBVIOUS
    <2>1. ProcMoves(w.cli[q], v.cli[q], New(w, S, q)) /\ ProcMoves(v.cli[q], u.cli[q], New(v, T, q))
      BY DEF Moves
    <2>2. New(w, S \cup T, q) = New(w, S, q) \cup New(v, T, q)
      BY <1>1 DEF New
    <2> QED BY <2>1, <2>2 DEF ProcMoves
  <1>3. Answered(w, u)
    <2>1. Answered(w, v) /\ Answered(v, u)
      BY DEF Moves
    <2>2. \A q \in Procs : u.cli[q].pending \subseteq v.cli[q].pending
      BY DEF Moves, ProcMoves
    <2>3. \A q \in Procs : v.cli[q].pending \subseteq w.cli[q].pending
      BY DEF Moves, ProcMoves
    <2>4. \A q \in Procs : \A c \in w.cli[q].pending : c.from \in Tools
      BY DEF Worlds, Process
    <2>5. ASSUME NEW t \in Tools, u.tool[t].by = "pi"
          PROVE  \/ w.tool[t].by = "pi" /\ u.tool[t].of = w.tool[t].of
                 \/ \E q \in Procs : \E c \in w.cli[q].pending : c.from = t /\ c.id = u.tool[t].of
      <3>1. \/ v.tool[t].by = "pi" /\ u.tool[t].of = v.tool[t].of
            \/ \E q \in Procs : \E c \in v.cli[q].pending : c.from = t /\ c.id = u.tool[t].of
        BY <2>1, <2>5 DEF Answered
      <3>2. v.tool[t].by = "pi" =>
               \/ w.tool[t].by = "pi" /\ v.tool[t].of = w.tool[t].of
               \/ \E q \in Procs : \E c \in w.cli[q].pending : c.from = t /\ c.id = v.tool[t].of
        BY <2>1 DEF Answered
      <3> QED BY <3>1, <3>2, <2>3
    <2>6. \A q \in Procs : \A c \in w.cli[q].pending \ u.cli[q].pending : u.tool[c.from].at = "done"
      BY <2>1, <2>4 DEF Answered
    <2>7. \A t \in Tools : u.tool[t].at # w.tool[t].at =>
             \A q \in Procs : \A c \in u.cli[q].pending : c.from # t
      BY <2>1, <2>2 DEF Answered
    <2>8. /\ \A t \in Tools : u.tool[t].p = w.tool[t].p
          /\ \A t \in Tools : u.tool[t].at = "new" <=> w.tool[t].at = "new"
          /\ \A t \in Tools : u.tool[t].at = w.tool[t].at \/ u.tool[t].at = "done"
      BY <2>1 DEF Answered
    <2> QED BY <2>5, <2>6, <2>7, <2>8 DEF Answered
  <1>4. \A q \in Procs : OsMoves(w.os[q], u.os[q])
    BY DEF Moves, OsMoves
  <1>5. /\ u \in Worlds /\ CallMoves(w.call, u.call)
        /\ u.stray = w.stray /\ u.wants = w.wants
    BY DEF Moves, CallMoves
  <1>6. /\ \A q \in Procs : q # w.call.p => u.cli[q].turn = w.cli[q].turn
        /\ \A q \in Procs : u.cli[q].sink /\ u.call.finished => w.call.finished
        /\ \A q \in Procs : w.cli[q].sink /\ ~u.call.finished => u.cli[q].sink
    BY <1>1 DEF Moves, ProcMoves, CallMoves
  <1> QED BY <1>2, <1>3, <1>4, <1>5, <1>6 DEF Moves

\* More blocks may be allowed for.
LEMMA MovesMore ==
  ASSUME NEW w, NEW v, NEW T, Moves(w, v, {})
  PROVE  Moves(w, v, T)
  BY DEF Moves, ProcMoves, New

LEMMA HeldMoves ==
  ASSUME NEW w \in Worlds, NEW v, NEW T, Moves(w, v, T), Held(w)
  PROVE  Held(v)
  <1>0. Answered(w, v)
    BY DEF Moves
  <1>1. /\ \A q \in Procs : v.cli[q].pending \subseteq w.cli[q].pending
        /\ \A q \in Procs : v.cli[q].alive = w.cli[q].alive
        /\ \A q \in Procs : v.cli[q].retired => w.cli[q].retired \/ v.cli[q].pending = {}
    BY DEF Moves, ProcMoves
  <1>2. \A q \in Procs : \A c \in w.cli[q].pending : c.from \in Tools
    BY DEF Worlds, Process
  <1>3. \A p \in Procs : v.cli[p].pending # {} => v.cli[p].alive /\ ~v.cli[p].retired
    BY <1>1 DEF Held
  <1>4. \A p \in Procs : \A c \in v.cli[p].pending : v.tool[c.from].at = "open"
    BY <1>0, <1>1, <1>2 DEF Held, Answered
  <1>5. \A p, q \in Procs : \A c \in v.cli[p].pending, d \in v.cli[q].pending :
           c.from = d.from => p = q /\ c = d
    BY <1>1 DEF Held
  <1>6. ASSUME NEW t \in Tools, v.tool[t].at = "open"
        PROVE  \E p \in Procs : \E c \in v.cli[p].pending : c.from = t
    <2>1. w.tool[t].at = "open"
      BY <1>0, <1>6 DEF Answered
    <2>2. PICK p \in Procs : \E c \in w.cli[p].pending : c.from = t
      BY <2>1 DEF Held
    <2>3. PICK c \in w.cli[p].pending : c.from = t
      BY <2>2
    <2>4. c \in v.cli[p].pending
      BY <1>0, <1>6, <2>3 DEF Answered
    <2> QED BY <2>3, <2>4
  <1> QED BY <1>3, <1>4, <1>5, <1>6 DEF Held

LEMMA MatchedMoves ==
  ASSUME NEW w \in Worlds, NEW v, NEW T, NEW s, Moves(w, v, T), Matched(w, s)
  PROVE  Matched(v, s)
  <1>0. Answered(w, v)
    BY DEF Moves
  <1>1. \A q \in Procs : v.cli[q].pending \subseteq w.cli[q].pending
    BY DEF Moves, ProcMoves
  <1>2. ASSUME s.idTags, NEW t \in Tools, v.tool[t].by = "pi" PROVE v.tool[t].of = t
    BY <1>0, <1>2 DEF Answered, Matched
  <1> QED BY <1>1, <1>2 DEF Matched

LEMMA AnnouncedMoves ==
  ASSUME NEW w \in Worlds, NEW v, NEW T, Moves(w, v, T), Announced(w), Unnamed(w, T)
  PROVE  Announced(v)
  <1> SUFFICES ASSUME NEW p \in Procs
               PROVE  /\ Once(v.cli[p].buf) /\ Once(v.os[p].out)
                      /\ Blocks(v.cli[p].buf) \cap Blocks(v.os[p].out) = {}
                      /\ (Blocks(v.cli[p].buf) \cup Blocks(v.os[p].out)) \cap Known(v.cli[p]) = {}
                      /\ v.cli[p].awaiting \cap Ids(v.cli[p]) = {}
                      /\ \A t \in Blocks(v.cli[p].buf) \cup Blocks(v.os[p].out) \cup Known(v.cli[p]) :
                            t \in Tools /\ v.tool[t].p = p
    BY DEF Announced
  <1>1. v.cli[p].buf = w.cli[p].buf /\ v.os[p].out = w.os[p].out
    BY DEF Moves, ProcMoves, OsMoves
  <1>2. Known(v.cli[p]) \subseteq Known(w.cli[p]) \cup New(w, T, p)
    BY DEF Moves, ProcMoves, Known
  <1>3. \A t \in Tools : v.tool[t].p = w.tool[t].p
    BY DEF Moves, Answered
  <1>4. \A t \in New(w, T, p) : /\ t \in Tools /\ w.tool[t].p = p
                               /\ t \notin Blocks(w.cli[p].buf) \cup Blocks(w.os[p].out)
    BY DEF New, Unnamed
  <1>5. /\ Once(w.cli[p].buf) /\ Once(w.os[p].out)
        /\ Blocks(w.cli[p].buf) \cap Blocks(w.os[p].out) = {}
        /\ (Blocks(w.cli[p].buf) \cup Blocks(w.os[p].out)) \cap Known(w.cli[p]) = {}
        /\ w.cli[p].awaiting \cap Ids(w.cli[p]) = {}
        /\ \A t \in Blocks(w.cli[p].buf) \cup Blocks(w.os[p].out) \cup Known(w.cli[p]) :
               t \in Tools /\ w.tool[t].p = p
    BY DEF Announced
  <1>6. v.cli[p].awaiting \cap Ids(v.cli[p]) = {}
    BY <1>5 DEF Moves, ProcMoves
  <1> QED BY ONLY <1>1, <1>2, <1>3, <1>4, <1>5, <1>6

LEMMA BaseMoves ==
  ASSUME NEW w, NEW v, NEW T, NEW s, Moves(w, v, T), Base(w, s), Unnamed(w, T)
  PROVE  Base(v, s)
  <1>1. w \in Worlds /\ v \in Worlds
    BY DEF Base, Moves
  <1>2. Born(v)
    BY DEF Base, Born, Moves, Answered, OsMoves, ProcMoves
  <1>3. Attached(v)
    BY DEF Base, Attached, Moves, ProcMoves, CallMoves
  <1>4. Held(v) /\ Matched(v, s) /\ Announced(v)
    BY <1>1, HeldMoves, MatchedMoves, AnnouncedMoves DEF Base
  <1> QED BY <1>1, <1>2, <1>3, <1>4 DEF Base

-----------------------------------------------------------------------------
(* The operators on a process and its calls.                                *)

Requests == [id : Tools, from : Tools]

LEMMA AnswerIs ==
  ASSUME NEW w \in Worlds, NEW C \in SUBSET Requests, NEW by \in {"failed", "refused", "pi"}
  PROVE  LET v == Answer(w, C, by) IN
         /\ v \in Worlds
         /\ v.cli = w.cli /\ v.os = w.os /\ v.call = w.call /\ v.parked = w.parked
         /\ v.map = w.map /\ v.stray = w.stray /\ v.wants = w.wants
         /\ \A t \in Tools : v.tool[t].p = w.tool[t].p
         /\ \A t \in Tools : (\E c \in C : c.from = t) /\ w.tool[t].at # "done" =>
                /\ v.tool[t].at = "done" /\ v.tool[t].by = by
                /\ by = "pi" => \E c \in C : c.from = t /\ c.id = v.tool[t].of
         /\ \A t \in Tools : ~(\E c \in C : c.from = t) \/ w.tool[t].at = "done" =>
                v.tool[t] = w.tool[t]
  <1> DEFINE hit(t) == w.tool[t].at # "done" /\ \E c \in C : c.from = t
             one(t) == IF by = "pi" THEN (CHOOSE c \in C : c.from = t).id ELSE 0
             new(t) == [w.tool[t] EXCEPT !.at = "done", !.by = by, !.of = one(t)]
             tools == [t \in Tools |-> IF hit(t) THEN new(t) ELSE w.tool[t]]
  <1>1. \A t \in Tools : w.tool[t] \in Block
    BY DEF Worlds
  <1>2. ASSUME NEW t \in Tools, hit(t)
        PROVE  /\ one(t) \in 0 .. MaxTools
               /\ by = "pi" => \E c \in C : c.from = t /\ c.id = one(t)
    <2>1. (CHOOSE c \in C : c.from = t) \in C /\ (CHOOSE c \in C : c.from = t).from = t
      BY <1>2
    <2>2. (CHOOSE c \in C : c.from = t).id \in Tools
      BY <2>1 DEF Requests
    <2>3. Tools \subseteq 0 .. MaxTools /\ 0 \in 0 .. MaxTools
      BY CliAssumption DEF Tools
    <2> QED BY <2>1, <2>2, <2>3
  <1> HIDE DEF one
  <1>3. \A t \in Tools : hit(t) => new(t) \in Block
    BY ZenonT(40), <1>1, <1>2 DEF Block
  <1>4. tools \in [Tools -> Block]
    BY <1>1, <1>3
  <1>5. Answer(w, C, by) = [w EXCEPT !.tool = tools]
    BY DEF Answer, one
  <1>6. \A t \in Tools : hit(t) => tools[t].at = "done" /\ tools[t].by = by
                                   /\ tools[t].of = one(t) /\ tools[t].p = w.tool[t].p
    BY <1>1 DEF Block
  <1>7. \A t \in Tools : ~hit(t) => tools[t] = w.tool[t]
    OBVIOUS
  <1> HIDE DEF tools, new
  <1>8. [w EXCEPT !.tool = tools] \in Worlds
    BY <1>4 DEF Worlds
  <1> QED BY <1>2, <1>5, <1>6, <1>7, <1>8 DEF Worlds

\* The calls C of process p are answered and leave its map.
LEMMA AnswerPart ==
  ASSUME NEW w \in Worlds, Held(w), NEW p \in Procs, NEW C \in SUBSET w.cli[p].pending,
         NEW by \in {"failed", "pi"}, NEW u,
         u.tool = Answer(w, C, by).tool,
         \A q \in Procs \ {p} : u.cli[q].pending = w.cli[q].pending,
         u.cli[p].pending = w.cli[p].pending \ C
  PROVE  Answered(w, u)
  <1>0. \A q \in Procs : w.cli[q].pending \in SUBSET Requests
    BY DEF Worlds, Process, Requests
  <1>1. C \in SUBSET Requests /\ by \in {"failed", "refused", "pi"}
    BY <1>0
  <1>2. /\ \A t \in Tools : u.tool[t].p = w.tool[t].p
        /\ \A t \in Tools : (\E c \in C : c.from = t) /\ w.tool[t].at # "done" =>
                /\ u.tool[t].at = "done" /\ u.tool[t].by = by
                /\ by = "pi" => \E c \in C : c.from = t /\ c.id = u.tool[t].of
        /\ \A t \in Tools : ~(\E c \in C : c.from = t) \/ w.tool[t].at = "done" =>
                u.tool[t] = w.tool[t]
    BY <1>1, AnswerIs
  <1>3. \A c \in C : c.from \in Tools /\ w.tool[c.from].at = "open" /\ u.tool[c.from].at = "done"
    BY <1>0, <1>2 DEF Held, Requests
  <1>4. /\ \A t \in Tools : u.tool[t].at = "new" <=> w.tool[t].at = "new"
        /\ \A t \in Tools : u.tool[t].at = w.tool[t].at \/ u.tool[t].at = "done"
    BY <1>2, <1>3
  <1>5. ASSUME NEW t \in Tools, u.tool[t].at # w.tool[t].at,
               NEW q \in Procs, NEW c \in u.cli[q].pending
        PROVE  c.from # t
    <2>1. PICK d \in C : d.from = t
      BY <1>2, <1>5
    <2>2. c \in w.cli[q].pending
      BY <1>5
    <2>3. c.from = t => q = p /\ c = d
      BY <2>1, <2>2 DEF Held
    <2> QED BY <2>1, <2>3
  <1>6. \A q \in Procs : \A c \in w.cli[q].pending \ u.cli[q].pending : u.tool[c.from].at = "done"
    BY <1>3
  <1>7. ASSUME NEW t \in Tools, u.tool[t].by = "pi"
        PROVE  \/ w.tool[t].by = "pi" /\ u.tool[t].of = w.tool[t].of
               \/ \E q \in Procs : \E c \in w.cli[q].pending : c.from = t /\ c.id = u.tool[t].of
    BY <1>2, <1>7
  <1> QED BY <1>2, <1>4, <1>5, <1>6, <1>7 DEF Answered

LEMMA SameTools ==
  ASSUME NEW w \in Worlds, NEW v, v.tool = w.tool,
         \A q \in Procs : v.cli[q].pending = w.cli[q].pending
  PROVE  Answered(w, v)
  <1>1. \A q \in Procs : w.cli[q].pending \ v.cli[q].pending = {}
    OBVIOUS
  <1>2. \A t \in Tools : v.tool[t] = w.tool[t]
    OBVIOUS
  <1>3. /\ \A t \in Tools : v.tool[t].p = w.tool[t].p
        /\ \A t \in Tools : v.tool[t].at = "new" <=> w.tool[t].at = "new"
        /\ \A t \in Tools : v.tool[t].at = w.tool[t].at \/ v.tool[t].at = "done"
        /\ \A t \in Tools : v.tool[t].by = "pi" =>
               w.tool[t].by = "pi" /\ v.tool[t].of = w.tool[t].of
    BY <1>2
  <1>4. \A t \in Tools : v.tool[t].at # w.tool[t].at =>
           \A q \in Procs : \A c \in v.cli[q].pending : c.from # t
    BY <1>2
  <1>5. \A q \in Procs : \A c \in w.cli[q].pending \ v.cli[q].pending : v.tool[c.from].at = "done"
    BY <1>1
  <1> QED BY ONLY <1>3, <1>4, <1>5 DEF Answered

\* Only the process p is touched, and the call is left alone.
Local(w, v, p) ==
    /\ v.call = w.call /\ v.parked = w.parked /\ v.map = w.map
    /\ v.stray = w.stray /\ v.wants = w.wants
    /\ v.cli[p].sink = w.cli[p].sink /\ v.cli[p].turn = w.cli[p].turn
    /\ \A q \in Procs \ {p} : v.cli[q] = w.cli[q] /\ v.os[q] = w.os[q]

LEMMA LocalMoves ==
  ASSUME NEW w \in Worlds, NEW v \in Worlds, NEW p \in Procs, Local(w, v, p),
         ProcMoves(w.cli[p], v.cli[p], {}), OsMoves(w.os[p], v.os[p]), Answered(w, v)
  PROVE  Moves(w, v, {})
  <1>1. \A q \in Procs : ProcMoves(w.cli[q], v.cli[q], {})
    <2> SUFFICES ASSUME NEW q \in Procs PROVE ProcMoves(w.cli[q], v.cli[q], {})
      OBVIOUS
    <2>1. CASE q = p
      BY <2>1
    <2>2. CASE q # p
      BY <2>2 DEF Local, ProcMoves
    <2> QED BY <2>1, <2>2
  <1>2. \A q \in Procs : OsMoves(w.os[q], v.os[q])
    BY DEF Local, OsMoves
  <1>3. \A q \in Procs : v.cli[q].turn = w.cli[q].turn /\ v.cli[q].sink = w.cli[q].sink
    BY DEF Local
  <1> QED BY <1>1, <1>2, <1>3 DEF Moves, Local, CallMoves, New

LEMMA FailPendingMoves ==
  ASSUME NEW w \in Worlds, Held(w), NEW p \in Procs
  PROVE  LET v == FailPending(w, p) IN
         /\ Moves(w, v, {}) /\ Local(w, v, p) /\ v.os = w.os
         /\ v.cli[p].pending = {} /\ Awaited(v.cli[p]) = {} /\ v.cli[p].ready = {}
         /\ v.cli[p].alive = w.cli[p].alive /\ v.cli[p].retired = w.cli[p].retired
  <1> DEFINE C == w.cli[p].pending
             a == Answer(w, C, "failed")
             c == [w.cli[p] EXCEPT !.pending = {}, !.awaiting = {}, !.ready = {}]
             v == FailPending(w, p)
  <1>0. C \in SUBSET Requests
    BY DEF Worlds, Process, Requests
  <1>1. /\ a \in Worlds
        /\ a.cli = w.cli /\ a.os = w.os /\ a.call = w.call /\ a.parked = w.parked
        /\ a.map = w.map /\ a.stray = w.stray /\ a.wants = w.wants
    BY <1>0, AnswerIs
  <1>2. w.cli \in [Procs -> Process] /\ w.cli[p] \in Process
    BY DEF Worlds
  <1>3. /\ c \in Process /\ c.pending = {} /\ c.awaiting = {} /\ c.ready = {}
        /\ c.alive = w.cli[p].alive /\ c.retired = w.cli[p].retired /\ c.eof = w.cli[p].eof
        /\ c.session = w.cli[p].session /\ c.buf = w.cli[p].buf /\ c.turn = w.cli[p].turn
        /\ c.sink = w.cli[p].sink
    BY <1>2 DEF Process
  <1>4. v = [a EXCEPT !.cli = [w.cli EXCEPT ![p] = c]]
    <2> HIDE DEF a
    <2>1. v = [a EXCEPT !.cli[p].pending = {}, !.cli[p].awaiting = {}, !.cli[p].ready = {}]
      BY DEF FailPending, a
    <2>2. v = [a EXCEPT !.cli = [a.cli EXCEPT ![p] = [a.cli[p] EXCEPT !.pending = {}, !.awaiting = {}, !.ready = {}]]]
      BY ZenonT(40), <1>1, <2>1 DEF Worlds
    <2> QED BY <1>1, <2>2
  <1> HIDE DEF c, a, C
  <1>5. [w.cli EXCEPT ![p] = c] \in [Procs -> Process]
    BY <1>2, <1>3
  <1>6. v \in Worlds /\ v.cli = [w.cli EXCEPT ![p] = c] /\ v.tool = a.tool
        /\ v.os = w.os /\ v.call = w.call /\ v.parked = w.parked
        /\ v.map = w.map /\ v.stray = w.stray /\ v.wants = w.wants
    BY <1>1, <1>4, <1>5 DEF Worlds
  <1> HIDE DEF v
  <1>7. v.cli[p] = c /\ \A q \in Procs \ {p} : v.cli[q] = w.cli[q]
    BY <1>2, <1>6
  <1>8. Answered(w, v)
    <2>1. \A q \in Procs \ {p} : v.cli[q].pending = w.cli[q].pending
      BY <1>7
    <2>2. v.cli[p].pending = w.cli[p].pending \ C /\ C \in SUBSET w.cli[p].pending
      BY <1>3, <1>7 DEF C
    <2>3. v.tool = Answer(w, C, "failed").tool
      BY <1>6 DEF a
    <2> QED BY <2>1, <2>2, <2>3, AnswerPart
  <1>9. Local(w, v, p)
    BY <1>3, <1>6, <1>7 DEF Local
  <1>10. Awaited(c) = {}
    BY <1>3 DEF Awaited, Ids
  <1>11. ProcMoves(w.cli[p], v.cli[p], {})
    BY <1>3, <1>7, <1>10 DEF ProcMoves
  <1>12. OsMoves(w.os[p], v.os[p])
    BY <1>6 DEF OsMoves
  <1>13. Moves(w, v, {})
    BY <1>6, <1>8, <1>9, <1>11, <1>12, LocalMoves
  <1> QED BY <1>3, <1>6, <1>7, <1>9, <1>10, <1>13 DEF v

\* One process, its program, the call, or the pool is replaced.
WithProc(w, p, c) == [w EXCEPT !.cli = [w.cli EXCEPT ![p] = c]]
WithProgram(w, p, o) == [w EXCEPT !.os = [w.os EXCEPT ![p] = o]]
WithCall(w, c) == [w EXCEPT !.call = c]

LEMMA WithProcIs ==
  ASSUME NEW w \in Worlds, NEW p \in Procs, NEW c \in Process
  PROVE  LET v == WithProc(w, p, c) IN
         /\ v \in Worlds /\ v.cli[p] = c /\ \A q \in Procs \ {p} : v.cli[q] = w.cli[q]
         /\ v.os = w.os /\ v.tool = w.tool /\ v.call = w.call /\ v.parked = w.parked
         /\ v.map = w.map /\ v.stray = w.stray /\ v.wants = w.wants
  <1>1. w.cli \in [Procs -> Process]
    BY DEF Worlds
  <1>2. [w.cli EXCEPT ![p] = c] \in [Procs -> Process]
    BY <1>1
  <1>3. [w.cli EXCEPT ![p] = c][p] = c /\ \A q \in Procs \ {p} : [w.cli EXCEPT ![p] = c][q] = w.cli[q]
    BY <1>1
  <1> QED BY <1>2, <1>3 DEF Worlds, WithProc

LEMMA WithProgramIs ==
  ASSUME NEW w \in Worlds, NEW p \in Procs, NEW o \in Program
  PROVE  LET v == WithProgram(w, p, o) IN
         /\ v \in Worlds /\ v.os[p] = o /\ \A q \in Procs \ {p} : v.os[q] = w.os[q]
         /\ v.cli = w.cli /\ v.tool = w.tool /\ v.call = w.call /\ v.parked = w.parked
         /\ v.map = w.map /\ v.stray = w.stray /\ v.wants = w.wants
  <1>1. w.os \in [Procs -> Program]
    BY DEF Worlds
  <1>2. [w.os EXCEPT ![p] = o] \in [Procs -> Program]
    BY <1>1
  <1>3. [w.os EXCEPT ![p] = o][p] = o /\ \A q \in Procs \ {p} : [w.os EXCEPT ![p] = o][q] = w.os[q]
    BY <1>1
  <1> QED BY <1>2, <1>3 DEF Worlds, WithProgram

LEMMA WithCallIs ==
  ASSUME NEW w \in Worlds, NEW c \in PiCall
  PROVE  LET v == WithCall(w, c) IN
         /\ v \in Worlds /\ v.call = c
         /\ v.cli = w.cli /\ v.os = w.os /\ v.tool = w.tool /\ v.parked = w.parked
         /\ v.map = w.map /\ v.stray = w.stray /\ v.wants = w.wants
  BY DEF Worlds, WithCall

LEMMA ProgramMoves ==
  ASSUME NEW w \in Worlds, NEW p \in Procs, NEW o \in Program, OsMoves(w.os[p], o)
  PROVE  LET v == WithProgram(w, p, o) IN
         Moves(w, v, {}) /\ Local(w, v, p) /\ v.cli = w.cli /\ v.tool = w.tool
  <1> DEFINE v == WithProgram(w, p, o)
  <1>1. /\ v \in Worlds /\ v.os[p] = o /\ \A q \in Procs \ {p} : v.os[q] = w.os[q]
        /\ v.cli = w.cli /\ v.tool = w.tool /\ v.call = w.call /\ v.parked = w.parked
        /\ v.map = w.map /\ v.stray = w.stray /\ v.wants = w.wants
    BY WithProgramIs
  <1> HIDE DEF v
  <1>2. Local(w, v, p)
    BY <1>1 DEF Local
  <1>3. ProcMoves(w.cli[p], v.cli[p], {}) /\ Answered(w, v)
    BY <1>1, SameTools DEF ProcMoves
  <1>4. Moves(w, v, {})
    BY <1>1, <1>2, <1>3, LocalMoves
  <1> QED BY <1>1, <1>2, <1>4 DEF v

LEMMA InterruptMoves ==
  ASSUME NEW w \in Worlds, NEW p \in Procs
  PROVE  LET v == Interrupt(w, p) IN
         Moves(w, v, {}) /\ Local(w, v, p) /\ v.cli = w.cli /\ v.tool = w.tool
  <1> DEFINE o == [w.os[p] EXCEPT !.intr = TRUE]
  <1>1. w.os[p] \in Program
    BY DEF Worlds
  <1>2. o \in Program /\ OsMoves(w.os[p], o)
    BY <1>1 DEF Program, OsMoves
  <1>3. CASE w.os[p].run # "up"
    BY <1>3, MovesNothing DEF Interrupt, Local
  <1>4. CASE w.os[p].run = "up"
    <2>1. Interrupt(w, p) = WithProgram(w, p, o)
      BY <1>4 DEF Interrupt, WithProgram, Worlds
    <2> HIDE DEF o
    <2> QED BY <1>2, <2>1, ProgramMoves
  <1> QED BY <1>3, <1>4

LEMMA ForceKillMoves ==
  ASSUME NEW w \in Worlds, NEW p \in Procs
  PROVE  LET v == ForceKill(w, p) IN
         Moves(w, v, {}) /\ Local(w, v, p) /\ v.cli = w.cli /\ v.tool = w.tool
  <1> DEFINE o == [w.os[p] EXCEPT !.run = "killed"]
  <1>1. w.os[p] \in Program
    BY DEF Worlds
  <1>2. CASE w.os[p].run # "up"
    BY <1>2, MovesNothing DEF ForceKill, Local
  <1>3. CASE w.os[p].run = "up"
    <2>1. o \in Program /\ OsMoves(w.os[p], o)
      BY <1>1, <1>3 DEF Program, OsMoves, Running
    <2>2. ForceKill(w, p) = WithProgram(w, p, o)
      BY <1>3 DEF ForceKill, WithProgram, Worlds
    <2> HIDE DEF o
    <2> QED BY <2>1, <2>2, ProgramMoves
  <1> QED BY <1>2, <1>3

LEMMA LocalTwice ==
  ASSUME NEW w, NEW v, NEW u, NEW p, Local(w, v, p), Local(v, u, p)
  PROVE  Local(w, u, p)
  BY DEF Local

\* The process whose calls have failed is marked as retired.
LEMMA MarkMoves ==
  ASSUME NEW w \in Worlds, NEW p \in Procs, w.cli[p].pending = {},
         NEW end \in {"no", "grace", "kill", "done"}
  PROVE  LET c == [w.cli[p] EXCEPT !.retired = TRUE, !.idle = "off", !.end = end]
             v == WithProc(w, p, c)
         IN  /\ Moves(w, v, {}) /\ Local(w, v, p) /\ v.os = w.os
             /\ v.cli[p].retired /\ v.cli[p].alive = w.cli[p].alive
  <1> DEFINE c == [w.cli[p] EXCEPT !.retired = TRUE, !.idle = "off", !.end = end]
             v == WithProc(w, p, c)
  <1>1. w.cli[p] \in Process
    BY DEF Worlds
  <1>2. /\ c \in Process /\ c.retired
        /\ c.alive = w.cli[p].alive /\ c.eof = w.cli[p].eof /\ c.session = w.cli[p].session
        /\ c.buf = w.cli[p].buf /\ c.turn = w.cli[p].turn /\ c.sink = w.cli[p].sink
        /\ c.pending = w.cli[p].pending /\ c.awaiting = w.cli[p].awaiting
        /\ c.ready = w.cli[p].ready
    BY <1>1 DEF Process
  <1> HIDE DEF c
  <1>3. ProcMoves(w.cli[p], c, {})
    BY <1>2 DEF ProcMoves, Awaited, Ids
  <1>4. /\ v \in Worlds /\ v.cli[p] = c /\ \A q \in Procs \ {p} : v.cli[q] = w.cli[q]
        /\ v.os = w.os /\ v.tool = w.tool /\ v.call = w.call /\ v.parked = w.parked
        /\ v.map = w.map /\ v.stray = w.stray /\ v.wants = w.wants
    BY <1>2, WithProcIs
  <1> HIDE DEF v
  <1>5. Local(w, v, p)
    BY <1>2, <1>4 DEF Local
  <1>6. Answered(w, v)
    <2>1. \A q \in Procs : v.cli[q].pending = w.cli[q].pending
      BY <1>2, <1>4
    <2> QED BY <1>4, <2>1, SameTools
  <1>7. OsMoves(w.os[p], v.os[p])
    BY <1>4 DEF OsMoves
  <1>8. Moves(w, v, {})
    BY <1>3, <1>4, <1>5, <1>6, <1>7, LocalMoves
  <1> QED BY <1>2, <1>4, <1>5, <1>8 DEF c, v

LEMMA WorldsEqual ==
  ASSUME NEW w \in Worlds, NEW v \in Worlds,
         w.cli = v.cli, w.os = v.os, w.tool = v.tool, w.call = v.call,
         w.parked = v.parked, w.map = v.map, w.stray = v.stray, w.wants = v.wants
  PROVE  w = v
  BY DEF Worlds

\* What is known of a process that has been retired.
Retired(w, v, p) ==
    /\ Moves(w, v, {}) /\ Local(w, v, p)
    /\ v.cli[p].retired /\ v.cli[p].alive = w.cli[p].alive
    /\ w.cli[p].retired \/ Awaited(v.cli[p]) = {}

LEMMA RetireMoves ==
  ASSUME NEW w \in Worlds, Held(w), NEW p \in Procs
  PROVE  Retired(w, Retire(w, p), p)
  <1> DEFINE f == FailPending(w, p)
             mark(end) == [f.cli[p] EXCEPT !.retired = TRUE, !.idle = "off", !.end = end]
             m(end) == WithProc(f, p, mark(end))
             Stages == {"no", "grace", "kill", "done"}
             v == [f EXCEPT !.cli[p].retired = TRUE, !.cli[p].idle = "off"]
  <1>1. /\ Moves(w, f, {}) /\ Local(w, f, p) /\ f.os = w.os
        /\ f.cli[p].pending = {} /\ Awaited(f.cli[p]) = {}
        /\ f.cli[p].alive = w.cli[p].alive
    BY FailPendingMoves
  <1>2. f \in Worlds
    BY <1>1 DEF Moves
  <1> HIDE DEF f
  <1>3. \A end \in Stages :
           /\ Moves(f, m(end), {}) /\ Local(f, m(end), p) /\ m(end).os = f.os
           /\ m(end).cli[p].retired /\ m(end).cli[p].alive = f.cli[p].alive
    BY <1>1, <1>2, MarkMoves
  <1>4. \A end \in Stages : Retired(w, m(end), p)
    <2> SUFFICES ASSUME NEW end \in Stages PROVE Retired(w, m(end), p)
      OBVIOUS
    <2>1. /\ Moves(f, m(end), {}) /\ Local(f, m(end), p)
          /\ m(end).cli[p].retired /\ m(end).cli[p].alive = f.cli[p].alive
      BY <1>3
    <2> HIDE DEF m
    <2>2. Moves(w, m(end), {} \cup {}) /\ Local(w, m(end), p)
      BY <1>1, <2>1, MovesTwice, LocalTwice
    <2>3. Awaited(m(end).cli[p]) \subseteq Awaited(f.cli[p])
      BY <2>1 DEF Moves, ProcMoves, New
    <2> QED BY <1>1, <2>1, <2>2, <2>3 DEF Retired
  <1>5. \A end \in Stages : \A o \in Program : OsMoves(w.os[p], o) =>
            Retired(w, WithProgram(m(end), p, o), p)
    <2> SUFFICES ASSUME NEW end \in Stages, NEW o \in Program, OsMoves(w.os[p], o)
                 PROVE  Retired(w, WithProgram(m(end), p, o), p)
      OBVIOUS
    <2> DEFINE x == m(end)
               u == WithProgram(x, p, o)
    <2>1. Retired(w, x, p) /\ x.os = w.os
      BY <1>1, <1>3, <1>4
    <2>2. x \in Worlds
      BY <2>1 DEF Retired, Moves
    <2> HIDE DEF x
    <2>3. Moves(x, u, {}) /\ Local(x, u, p) /\ u.cli = x.cli
      BY <2>1, <2>2, ProgramMoves
    <2> HIDE DEF u
    <2>4. Moves(w, u, {} \cup {}) /\ Local(w, u, p)
      BY <2>1, <2>3, MovesTwice, LocalTwice DEF Retired
    <2> QED BY <2>1, <2>3, <2>4 DEF Retired, u, x
  <1>6. w.os[p] \in Program /\ f.cli[p] \in Process
    BY <1>2 DEF Worlds
  <1>7. CASE w.cli[p].retired
    BY <1>7, MovesNothing DEF Retire, Retired, Local
  <1>8. CASE ~w.cli[p].retired /\ ~w.cli[p].alive
    <2>1. Retire(w, p) = [v EXCEPT !.cli[p].end = "done"]
      BY <1>8 DEF Retire, f
    <2>2. [v EXCEPT !.cli[p].end = "done"] = m("done")
      BY <1>2, <1>6 DEF Worlds, WithProc
    <2> HIDE DEF m, v
    <2> QED BY <1>4, <2>1, <2>2
  <1>9. CASE ~w.cli[p].retired /\ w.cli[p].alive /\ w.cli[p].turn /\ ~w.cli[p].eof
    <2>1. Retire(w, p) = [Interrupt(v, p) EXCEPT !.cli[p].end = "grace"]
      BY <1>9 DEF Retire, f
    <2>2. CASE w.os[p].run = "up"
      <3> DEFINE o == [w.os[p] EXCEPT !.intr = TRUE]
      <3>1. Interrupt(v, p) = [v EXCEPT !.os[p].intr = TRUE]
        BY <1>1, <1>2, <2>2 DEF Interrupt, Worlds
      <3>2. [[v EXCEPT !.os[p].intr = TRUE] EXCEPT !.cli[p].end = "grace"]
              = WithProgram(m("grace"), p, o)
        BY ZenonT(40), <1>1, <1>2, <1>6 DEF Worlds, WithProc, WithProgram
      <3>3. o \in Program /\ OsMoves(w.os[p], o)
        BY <1>6 DEF Program, OsMoves
      <3> HIDE DEF m, v, o
      <3> QED BY <1>5, <2>1, <3>1, <3>2, <3>3
    <2>3. CASE w.os[p].run # "up"
      <3>1. Interrupt(v, p) = v
        BY <1>1, <1>2, <2>3 DEF Interrupt, Worlds
      <3>2. [v EXCEPT !.cli[p].end = "grace"] = m("grace")
        BY <1>2, <1>6 DEF Worlds, WithProc
      <3> HIDE DEF m, v
      <3> QED BY <1>4, <2>1, <3>1, <3>2
    <2> QED BY <2>2, <2>3
  <1>10. CASE ~w.cli[p].retired /\ w.cli[p].alive /\ ~(w.cli[p].turn /\ ~w.cli[p].eof)
    <2> DEFINE o == [w.os[p] EXCEPT !.quit = TRUE]
    <2>1. Retire(w, p) = [v EXCEPT !.os[p].quit = TRUE, !.cli[p].end = "kill"]
      BY <1>10 DEF Retire, f
    <2>2. [v EXCEPT !.os[p].quit = TRUE, !.cli[p].end = "kill"] = WithProgram(m("kill"), p, o)
      BY ZenonT(40), <1>1, <1>2, <1>6 DEF Worlds, WithProc, WithProgram
    <2>3. o \in Program /\ OsMoves(w.os[p], o)
      BY <1>6 DEF Program, OsMoves
    <2> HIDE DEF m, v, o
    <2> QED BY <1>5, <2>1, <2>2, <2>3
  <1> QED BY <1>7, <1>8, <1>9, <1>10

-----------------------------------------------------------------------------
(* How a call lets go of its process.                                       *)

LEMMA WithCallMoves ==
  ASSUME NEW w \in Worlds, NEW c \in PiCall, CallMoves(w.call, c), c.finished => w.call.finished
  PROVE  LET v == WithCall(w, c) IN
         /\ Moves(w, v, {}) /\ v.call = c
         /\ v.cli = w.cli /\ v.os = w.os /\ v.parked = w.parked /\ v.map = w.map
  <1> DEFINE v == WithCall(w, c)
  <1>1. /\ v \in Worlds /\ v.call = c
        /\ v.cli = w.cli /\ v.os = w.os /\ v.tool = w.tool /\ v.parked = w.parked
        /\ v.map = w.map /\ v.stray = w.stray /\ v.wants = w.wants
    BY WithCallIs
  <1> HIDE DEF v
  <1>2. Answered(w, v)
    BY <1>1, SameTools
  <1>3. Moves(w, v, {})
    BY <1>1, <1>2 DEF Moves, ProcMoves, OsMoves
  <1> QED BY <1>1, <1>3 DEF v

\* The call's process goes to the pool, which holds no other, if it can serve.
LEMMA ReleaseIs ==
  ASSUME NEW w \in Worlds, NEW idle \in {"turn", "handoff"}, w.call.p \in Procs,
         w.parked \in {NoProc, w.call.p}
  PROVE  LET v == Release(w, idle)
             p == w.call.p
         IN  /\ Moves(w, v, {}) /\ v.call = w.call /\ v.map = w.map /\ v.os = w.os
             /\ v.cli[p].retired = w.cli[p].retired /\ v.cli[p].turn = w.cli[p].turn
             /\ v.parked \in {w.parked, p}
             /\ w.cli[p].alive /\ ~w.cli[p].retired => v.parked = p
  <1> DEFINE p == w.call.p
             c == [w.cli[p] EXCEPT !.idle = idle]
             u == WithProc(w, p, c)
             v == [u EXCEPT !.parked = p]
  <1>1. CASE ~w.cli[p].alive \/ w.cli[p].retired
    BY <1>1, MovesNothing DEF Release
  <1>2. CASE w.cli[p].alive /\ ~w.cli[p].retired
    <2>1. w.cli[p] \in Process
      BY DEF Worlds
    <2>2. /\ c \in Process /\ ProcMoves(w.cli[p], c, {})
          /\ c.retired = w.cli[p].retired /\ c.turn = w.cli[p].turn /\ c.sink = w.cli[p].sink
          /\ c.pending = w.cli[p].pending
      BY <2>1 DEF Process, ProcMoves, Awaited, Ids
    <2>3. Release(w, idle) = v
      <3>1. Release(w, idle) = [w EXCEPT !.parked = p, !.cli[p].idle = idle]
        BY <1>2 DEF Release, Park
      <3> QED BY <3>1 DEF Worlds, WithProc
    <2> HIDE DEF c
    <2>4. /\ u \in Worlds /\ u.cli[p] = c /\ \A q \in Procs \ {p} : u.cli[q] = w.cli[q]
          /\ u.os = w.os /\ u.tool = w.tool /\ u.call = w.call
          /\ u.map = w.map /\ u.stray = w.stray /\ u.wants = w.wants
      BY <2>2, WithProcIs
    <2> HIDE DEF u
    <2>5. p \in 0 .. MaxProcs
      BY CliAssumption DEF Procs
    <2>6. /\ v \in Worlds /\ v.parked = p /\ v.cli = u.cli /\ v.os = w.os /\ v.tool = w.tool
          /\ v.call = w.call /\ v.map = w.map /\ v.stray = w.stray /\ v.wants = w.wants
      <3> HIDE DEF p
      <3> QED BY <2>4, <2>5 DEF Worlds
    <2> HIDE DEF v
    <2>7. \A q \in Procs : ProcMoves(w.cli[q], v.cli[q], {}) /\ v.cli[q].turn = w.cli[q].turn
                           /\ v.cli[q].sink = w.cli[q].sink /\ v.cli[q].pending = w.cli[q].pending
      <3> SUFFICES ASSUME NEW q \in Procs
                   PROVE  ProcMoves(w.cli[q], v.cli[q], {}) /\ v.cli[q].turn = w.cli[q].turn
                          /\ v.cli[q].sink = w.cli[q].sink /\ v.cli[q].pending = w.cli[q].pending
        OBVIOUS
      <3>1. CASE q = p
        BY <2>2, <2>4, <2>6, <3>1
      <3>2. CASE q # p
        BY <2>4, <2>6, <3>2 DEF ProcMoves
      <3> QED BY <3>1, <3>2
    <2>8. Answered(w, v)
      BY <2>6, <2>7, SameTools
    <2>9. Moves(w, v, {})
      BY <2>6, <2>7, <2>8 DEF Moves, OsMoves, CallMoves, New
    <2> QED BY <1>2, <2>2, <2>3, <2>4, <2>6, <2>9
  <1> QED BY <1>1, <1>2

LEMMA FinishIs ==
  ASSUME NEW w \in Worlds, Attached(w), w.call.p \in Procs
  PROVE  LET v == Finish(w)
             p == w.call.p
         IN  /\ Moves(w, v, {}) /\ v.call.finished /\ v.map = w.map /\ v.parked = w.parked
             /\ v.cli[p].retired = w.cli[p].retired /\ v.cli[p].turn = w.cli[p].turn
             /\ v.call \in {w.call, [w.call EXCEPT !.finished = TRUE, !.timer = FALSE]}
             /\ v.os = w.os
  <1> DEFINE p == w.call.p
             c == [w.cli[p] EXCEPT !.sink = FALSE]
             d == [w.call EXCEPT !.finished = TRUE, !.timer = FALSE]
             u == WithCall(w, d)
             v == WithProc(u, p, c)
  <1>1. CASE w.call.finished
    BY <1>1, MovesNothing DEF Finish
  <1>2. CASE ~w.call.finished
    <2>1. w.cli[p] \in Process /\ w.call \in PiCall
      BY DEF Worlds
    <2>2. /\ c \in Process /\ ProcMoves(w.cli[p], c, {}) /\ ~c.sink
          /\ c.retired = w.cli[p].retired /\ c.turn = w.cli[p].turn
          /\ c.pending = w.cli[p].pending
      BY <2>1 DEF Process, ProcMoves, Awaited, Ids
    <2>3. d \in PiCall /\ CallMoves(w.call, d) /\ d.finished /\ d.p = p
      BY <2>1 DEF PiCall, CallMoves
    <2>4. Finish(w) = v
      <3>1. Finish(w) = [w EXCEPT !.call.finished = TRUE, !.call.timer = FALSE, !.cli[p].sink = FALSE]
        BY <1>2 DEF Finish
      <3> QED BY <3>1, <2>1 DEF Worlds, WithProc, WithCall, PiCall
    <2> HIDE DEF c, d
    <2>5. /\ u \in Worlds /\ u.call = d
          /\ u.cli = w.cli /\ u.os = w.os /\ u.tool = w.tool /\ u.parked = w.parked
          /\ u.map = w.map /\ u.stray = w.stray /\ u.wants = w.wants
      BY <2>3, WithCallIs
    <2> HIDE DEF u
    <2>6. /\ v \in Worlds /\ v.cli[p] = c /\ \A q \in Procs \ {p} : v.cli[q] = w.cli[q]
          /\ v.os = w.os /\ v.tool = w.tool /\ v.call = d /\ v.parked = w.parked
          /\ v.map = w.map /\ v.stray = w.stray /\ v.wants = w.wants
      BY <2>2, <2>5, WithProcIs
    <2> HIDE DEF v
    <2>7. \A q \in Procs : ProcMoves(w.cli[q], v.cli[q], {}) /\ v.cli[q].turn = w.cli[q].turn
                           /\ v.cli[q].pending = w.cli[q].pending
      <3> SUFFICES ASSUME NEW q \in Procs
                   PROVE  ProcMoves(w.cli[q], v.cli[q], {}) /\ v.cli[q].turn = w.cli[q].turn
                          /\ v.cli[q].pending = w.cli[q].pending
        OBVIOUS
      <3>1. CASE q = p
        BY <2>2, <2>6, <3>1
      <3>2. CASE q # p
        BY <2>6, <3>2 DEF ProcMoves
      <3> QED BY <3>1, <3>2
    <2>8. Answered(w, v)
      BY <2>6, <2>7, SameTools
    <2>9. \A q \in Procs : ~v.cli[q].sink
      BY <2>2, <2>6 DEF Attached
    <2>10. Moves(w, v, {})
      BY <2>3, <2>6, <2>7, <2>8, <2>9 DEF Moves, OsMoves, New
    <2> QED BY <2>2, <2>3, <2>4, <2>6, <2>10 DEF d
  <1> QED BY <1>1, <1>2

\* A call whose process is in its hands, about to let go of it.
Going(w, s) ==
    /\ Base(w, s) /\ KeptBut(w, w.call.p)
    /\ w.call.ph = "open" /\ w.call.p \in Procs /\ ~w.call.finished
    /\ w.parked = NoProc
    /\ w.call.n # 0 /\ w.call.ended <= 1
    /\ ~w.call.saw => w.call.tools = {}
    /\ \A p \in Procs : w.os[p].resumed => ~s.piOwned
    /\ w.call.force => ~s.piOwned
    /\ w.call.miss => w.map = 0 /\ ~s.piOwned

LEMMA CoreGoing ==
  ASSUME NEW w, NEW s, Core(w, s), w.call.ph = "open", ~w.call.finished
  PROVE  Going(w, s) /\ w.call.ended = 0 /\ ~w.call.miss
  <1>1. w \in Worlds /\ CallSound(w.call) /\ Missed(w, s) /\ Free(w) /\ KeptBut(w, NoProc)
    BY DEF Core, CoreBut, Base
  <1>2. w.call \in PiCall
    BY <1>1 DEF Worlds
  <1>3. w.call.p \in Procs
    <2>1. w.call.p \in 0 .. MaxProcs /\ w.call.p # 0
      BY <1>1, <1>2 DEF CallSound, PiCall
    <2> QED BY <2>1, CliAssumption DEF Procs
  <1>4. w.parked = NoProc
    BY <1>1 DEF Free, Engaged, Serves
  <1>5. KeptBut(w, w.call.p)
    <2>1. NoProc \notin Procs
      BY CliAssumption DEF Procs, NoProc
    <2> QED BY <1>1, <2>1 DEF KeptBut
  <1> QED BY <1>1, <1>3, <1>4, <1>5 DEF Going, CallSound, Missed, Core, CoreBut

\* The call changes in nothing that matters here.
LEMMA GoingCall ==
  ASSUME NEW w, NEW s, Going(w, s), NEW c \in PiCall, CallMoves(w.call, c), ~c.finished,
         c.ended <= 1, ~c.saw => c.tools = {},
         c.miss => w.map = 0 /\ ~s.piOwned
  PROVE  LET v == WithCall(w, c) IN
         /\ Going(v, s) /\ Moves(w, v, {}) /\ v.call = c
         /\ v.cli = w.cli /\ v.os = w.os /\ v.map = w.map
  <1> DEFINE v == WithCall(w, c)
  <1>1. w \in Worlds
    BY DEF Going, Base
  <1>2. /\ Moves(w, v, {}) /\ v.call = c
        /\ v.cli = w.cli /\ v.os = w.os /\ v.parked = w.parked /\ v.map = w.map
    BY <1>1, WithCallMoves
  <1> HIDE DEF v
  <1>3. Base(v, s)
    BY <1>2, BaseMoves DEF Going, Unnamed
  <1>4. KeptBut(v, v.call.p)
    BY <1>2 DEF Going, KeptBut, CallMoves
  <1> QED BY <1>2, <1>3, <1>4 DEF Going, CallMoves, v

LEMMA ClearMapMoves ==
  ASSUME NEW w \in Worlds
  PROVE  LET v == ClearMap(w) IN
         /\ Moves(w, v, {}) /\ v.call = w.call /\ v.cli = w.cli /\ v.os = w.os
         /\ v.parked = w.parked /\ v.map \in {0, w.map} /\ (~conf.piOwned => v.map = 0)
  <1> DEFINE v == [w EXCEPT !.map = 0]
  <1>1. CASE conf.piOwned
    BY <1>1, MovesNothing DEF ClearMap
  <1>2. CASE ~conf.piOwned
    <2>1. /\ v \in Worlds /\ v.call = w.call /\ v.cli = w.cli /\ v.os = w.os /\ v.tool = w.tool
          /\ v.parked = w.parked /\ v.map = 0 /\ v.stray = w.stray /\ v.wants = w.wants
      BY CliAssumption DEF Worlds
    <2>2. ClearMap(w) = v
      BY <1>2 DEF ClearMap
    <2> HIDE DEF v
    <2>3. Answered(w, v)
      BY <2>1, SameTools
    <2>4. Moves(w, v, {})
      BY <2>1, <2>3 DEF Moves, ProcMoves, OsMoves, CallMoves
    <2> QED BY <2>1, <2>2, <2>4
  <1> QED BY <1>1, <1>2

\* What else leaves the call and the pool alone keeps it going.
LEMMA GoingMoves ==
  ASSUME NEW w, NEW s, Going(w, s), NEW v, Moves(w, v, {}), v.call = w.call,
         v.parked = w.parked, v.map \in {0, w.map}
  PROVE  Going(v, s)
  <1>1. Base(v, s)
    BY BaseMoves DEF Going, Unnamed
  <1>2. KeptBut(v, v.call.p)
    BY DEF Going, KeptBut, Moves, ProcMoves
  <1>3. \A p \in Procs : v.os[p].resumed => ~s.piOwned
    BY DEF Going, Moves, OsMoves
  <1> QED BY <1>1, <1>2, <1>3 DEF Going

LEMMA LetGoCore ==
  ASSUME NEW w, NEW s, Going(w, s), NEW v, Moves(w, v, {}), v.call.finished,
         v.call.ended = w.call.ended, v.call.miss = w.call.miss, v.call.saw = w.call.saw,
         v.call.tools = w.call.tools,
         v.map = w.map, v.parked \in {NoProc, w.call.p}, w.call.miss => v.parked = NoProc,
         v.cli[w.call.p].alive /\ ~v.cli[w.call.p].retired => v.parked = w.call.p
  PROVE  Core(v, s)
  <1>1. Base(v, s)
    BY BaseMoves DEF Going, Unnamed
  <1>2. CallMoves(w.call, v.call)
    BY DEF Moves
  <1>3. KeptBut(v, NoProc)
    BY <1>2 DEF Going, KeptBut, Moves, ProcMoves, CallMoves
  <1>4. Free(v)
    BY <1>2 DEF Going, Free, Engaged, Serves, CallMoves
  <1>5. CallSound(v.call)
    <2>1. w.call.p # 0
      BY CliAssumption DEF Going, Procs
    <2> QED BY <1>2, <2>1 DEF Going, CallMoves, CallSound
  <1>6. Missed(v, s)
    <2>1. \A p \in Procs : v.os[p].resumed => ~s.piOwned
      BY DEF Going, Moves, OsMoves
    <2> QED BY <1>2, <2>1 DEF Going, CallMoves, Missed
  <1> QED BY <1>1, <1>3, <1>4, <1>5, <1>6 DEF Core, CoreBut

LEMMA GoingParts ==
  ASSUME NEW w, NEW s, Going(w, s)
  PROVE  /\ w \in Worlds /\ Held(w) /\ Attached(w) /\ w.call.p \in Procs /\ w.call \in PiCall
         /\ w.parked = NoProc
  BY DEF Going, Base, Worlds

LEMMA FinishRetireCore ==
  ASSUME NEW w, NEW s, Going(w, s)
  PROVE  LET v == Finish(Retire(w, w.call.p)) IN
         /\ Core(v, s) /\ Moves(w, v, {}) /\ v.call.finished /\ v.cli[w.call.p].retired
         /\ v.parked = NoProc
         /\ v.call.toolUse = w.call.toolUse /\ v.call.miss = w.call.miss
         /\ v.call.ended = w.call.ended
  <1> DEFINE p == w.call.p
             r == Retire(w, p)
             v == Finish(r)
  <1>1. /\ w \in Worlds /\ Held(w) /\ Attached(w) /\ p \in Procs /\ w.parked = NoProc
        /\ w.call \in PiCall
    BY GoingParts
  <1>2. Retired(w, r, p)
    BY <1>1, RetireMoves
  <1> HIDE DEF r
  <1>3. Moves(w, r, {}) /\ r.call = w.call /\ r.parked = w.parked /\ r.map = w.map
        /\ r.cli[p].retired
    BY <1>2 DEF Retired, Local
  <1>4. Going(r, s)
    BY <1>3, GoingMoves
  <1>5. r \in Worlds /\ Attached(r) /\ r.call.p \in Procs
    BY <1>4, GoingParts
  <1>6. /\ Moves(r, v, {}) /\ v.call.finished /\ v.map = r.map /\ v.parked = r.parked
        /\ v.cli[p].retired
        /\ v.call \in {r.call, [r.call EXCEPT !.finished = TRUE, !.timer = FALSE]}
    BY <1>3, <1>5, FinishIs
  <1> HIDE DEF v
  <1>7. /\ v.call.ended = r.call.ended /\ v.call.miss = r.call.miss
        /\ v.call.saw = r.call.saw /\ v.call.tools = r.call.tools
        /\ v.call.toolUse = r.call.toolUse
    BY ZenonT(40), <1>1, <1>3, <1>6 DEF PiCall
  <1>8. Core(v, s)
    BY <1>1, <1>3, <1>4, <1>6, <1>7, LetGoCore
  <1>9. Moves(w, v, {} \cup {})
    BY <1>1, <1>3, <1>6, MovesTwice
  <1> QED BY <1>1, <1>3, <1>6, <1>7, <1>8, <1>9 DEF v, r

LEMMA FinishReleaseCore ==
  ASSUME NEW w, NEW s, Going(w, s), ~w.call.miss, NEW idle \in {"turn", "handoff"}
  PROVE  LET v == Finish(Release(w, idle)) IN
         /\ Core(v, s) /\ Moves(w, v, {}) /\ v.call.finished
         /\ v.call.tools = w.call.tools /\ v.call.toolUse = w.call.toolUse
         /\ v.call.ended = w.call.ended /\ v.call.miss = w.call.miss
  <1> DEFINE p == w.call.p
             r == Release(w, idle)
             v == Finish(r)
  <1>1. /\ w \in Worlds /\ Attached(w) /\ p \in Procs /\ w.parked = NoProc
        /\ w.call \in PiCall /\ Base(w, s)
    BY GoingParts DEF Going
  <1>2. /\ Moves(w, r, {}) /\ r.call = w.call /\ r.map = w.map
        /\ r.cli[p].retired = w.cli[p].retired
        /\ r.parked \in {w.parked, p}
        /\ w.cli[p].alive /\ ~w.cli[p].retired => r.parked = p
    BY <1>1, ReleaseIs
  <1> HIDE DEF r
  <1>3. r \in Worlds /\ Attached(r) /\ r.call.p = p
    <2>1. Base(r, s)
      BY <1>1, <1>2, BaseMoves DEF Unnamed
    <2> QED BY <1>2, <2>1 DEF Base
  <1>4. /\ Moves(r, v, {}) /\ v.call.finished /\ v.map = r.map /\ v.parked = r.parked
        /\ v.cli[p].retired = r.cli[p].retired
        /\ v.call \in {r.call, [r.call EXCEPT !.finished = TRUE, !.timer = FALSE]}
    BY ZenonT(40), <1>1, <1>3, FinishIs
  <1> HIDE DEF v
  <1>5. /\ v.call.ended = w.call.ended /\ v.call.miss = w.call.miss
        /\ v.call.saw = w.call.saw /\ v.call.tools = w.call.tools
        /\ v.call.toolUse = w.call.toolUse
    <2>1. r.call \in PiCall
      BY <1>1, <1>2
    <2>2. /\ v.call.ended = r.call.ended /\ v.call.miss = r.call.miss
          /\ v.call.saw = r.call.saw /\ v.call.tools = r.call.tools
          /\ v.call.toolUse = r.call.toolUse
      BY <1>4, <2>1 DEF PiCall
    <2> QED BY <1>2, <2>2
  <1>6. Moves(w, v, {} \cup {})
    BY <1>1, <1>2, <1>4, MovesTwice
  <1>7. v.cli[p].alive = w.cli[p].alive
    BY <1>1, <1>6 DEF Moves, ProcMoves
  <1>8. Core(v, s)
    BY <1>1, <1>2, <1>4, <1>5, <1>6, <1>7, LetGoCore
  <1> QED BY <1>4, <1>5, <1>6, <1>8 DEF v, r

LEMMA EndWithErrorCore ==
  ASSUME NEW w, NEW s, Going(w, s), w.call.ended = 0, ~w.call.miss
  PROVE  LET v == EndWithError(w) IN
         /\ Core(v, s) /\ Moves(w, v, {}) /\ v.call.finished /\ v.cli[w.call.p].retired
         /\ v.parked = NoProc /\ v.call.ended = 1 /\ ~v.call.miss
  <1> DEFINE c == [w.call EXCEPT !.ended = @ + 1, !.error = TRUE]
             u == WithCall(w, c)
             v == EndWithError(w)
  <1>1. w \in Worlds /\ w.call \in PiCall /\ ~w.call.finished
        /\ (~w.call.saw => w.call.tools = {})
    BY GoingParts DEF Going
  <1>2. /\ c \in PiCall /\ CallMoves(w.call, c) /\ ~c.finished /\ c.ended = 1 /\ ~c.miss
        /\ c.saw = w.call.saw /\ c.tools = w.call.tools /\ c.p = w.call.p
    <2>1. c = [w.call EXCEPT !.ended = 1, !.error = TRUE]
      BY <1>1 DEF PiCall
    <2>2. c \in PiCall
      <3> HIDE DEF c
      <3>1. [w.call EXCEPT !.ended = 1] \in PiCall
        BY ONLY <1>1 DEF PiCall
      <3> DEFINE d == [w.call EXCEPT !.ended = 1]
      <3>2. c = [d EXCEPT !.error = TRUE]
        BY <2>1
      <3> HIDE DEF d
      <3>3. [d EXCEPT !.error = TRUE] \in PiCall
        BY ZenonT(40), <3>1 DEF PiCall, d
      <3> QED BY <3>2, <3>3
    <2>3. /\ c.ended = 1 /\ c.miss = w.call.miss /\ c.finished = w.call.finished
          /\ c.saw = w.call.saw /\ c.tools = w.call.tools /\ c.p = w.call.p
          /\ c.ph = w.call.ph /\ c.n = w.call.n /\ c.results = w.call.results
          /\ c.mode = w.call.mode /\ c.aborted = w.call.aborted
          /\ c.force = w.call.force /\ c.user = w.call.user
      BY <1>1, <2>1 DEF PiCall
    <2> HIDE DEF c
    <2> QED BY <1>1, <2>2, <2>3 DEF CallMoves
  <1>3. v = Finish(Retire(u, w.call.p))
    <2>1. [w EXCEPT !.call.ended = @ + 1, !.call.error = TRUE] = u
      BY <1>1 DEF WithCall, Worlds, PiCall
    <2>2. ~(w.call.ended > 0 \/ w.call.miss)
      OBVIOUS
    <2> QED BY <2>1, <2>2 DEF EndWithError
  <1> HIDE DEF c
  <1>4. Going(u, s) /\ Moves(w, u, {}) /\ u.call = c
    BY <1>1, <1>2, GoingCall
  <1> HIDE DEF u
  <1>5. /\ Core(v, s) /\ Moves(u, v, {}) /\ v.call.finished /\ v.cli[u.call.p].retired
        /\ v.parked = NoProc /\ v.call.miss = u.call.miss /\ v.call.ended = u.call.ended
    BY <1>2, <1>3, <1>4, FinishRetireCore
  <1> HIDE DEF v
  <1>6. Moves(w, v, {} \cup {})
    BY <1>1, <1>4, <1>5, MovesTwice
  <1> QED BY <1>2, <1>4, <1>5, <1>6 DEF v

-----------------------------------------------------------------------------
(* The sink: a line, or the end of stdout, at an open call.                 *)

\* The call goes on.
LEMMA StayCore ==
  ASSUME NEW w, NEW s, Core(w, s), w.call.ph = "open", ~w.call.finished,
         NEW T, Unnamed(w, T), NEW v, Moves(w, v, T), ~v.call.finished,
         v.call.ended = w.call.ended, v.call.miss = w.call.miss,
         ~v.call.saw => v.call.tools = {}, v.parked = w.parked, v.map = w.map
  PROVE  Core(v, s)
  <1>1. Going(w, s) /\ w.call.ended = 0 /\ ~w.call.miss
    BY CoreGoing
  <1>2. Base(v, s)
    BY <1>1, BaseMoves DEF Going
  <1>3. CallMoves(w.call, v.call)
    BY DEF Moves
  <1>4. KeptBut(v, NoProc)
    BY <1>3 DEF Core, CoreBut, KeptBut, Serves, Moves, ProcMoves, CallMoves
  <1>5. Free(v)
    BY <1>1, <1>3 DEF Going, Free, CallMoves
  <1>6. CallSound(v.call)
    BY <1>3 DEF Core, CoreBut, CallMoves, CallSound
  <1>7. Missed(v, s)
    <2>1. \A p \in Procs : v.os[p].resumed = w.os[p].resumed /\ v.cli[p].session = w.cli[p].session
      BY DEF Moves, OsMoves, ProcMoves
    <2>2. w.call.p \in Procs /\ Missed(w, s)
      BY <1>1 DEF Going, Core, CoreBut
    <2> QED BY <1>1, <1>3, <2>1, <2>2 DEF CallMoves, Missed
  <1> QED BY <1>2, <1>4, <1>5, <1>6, <1>7 DEF Core, CoreBut

\* What the call's process waits on is still accounted for.
LEMMA WholeMoves ==
  ASSUME NEW w, NEW v, NEW T, Moves(w, v, T), w.call.p \in Procs, ~w.call.finished,
         NEW R, Whole(w, R),
         \/ v.call.finished /\ v.cli[w.call.p].retired
         \/ ~v.call.finished /\ v.call.selfInt /\ v.call.saw
         \/ /\ ~w.call.selfInt \/ ~w.call.saw
            /\ w.call.tools \cup T \subseteq v.call.tools
  PROVE  Whole(v, R)
  <1>1. v.call.p = w.call.p /\ ProcMoves(w.cli[w.call.p], v.cli[w.call.p], T)
    BY DEF Moves, CallMoves, New
  <1> QED BY <1>1 DEF Whole, ProcMoves

\* What OnMessage gives for the line l.
Heard(w, v, l, s) ==
    /\ Core(v, s) /\ Moves(w, v, IF l.k = "tool" THEN {l.t} ELSE {})
    /\ l.k = "result" /\ ~v.call.finished =>
           \/ v.cli[w.call.p].turn \/ v.cli[w.call.p].retired \/ ~v.cli[w.call.p].alive
    /\ \A R \in SUBSET Tools :
           Whole(w, R) /\ (l.k = "result" => ~w.call.aborted) => Whole(v, R)

\* A call at which a line has been heard, its timer armed.
Armed(w) == WithCall(w, [w.call EXCEPT !.timer = TRUE])

LEMMA OnStopHeard ==
  ASSUME NEW w, Core(w, conf), w.call.ph = "open", ~w.call.finished, NEW l, l.k = "stop"
  PROVE  Heard(w, OnStop(w), l, conf)
  <1> DEFINE p == w.call.p
             c == [w.call EXCEPT !.toolUse = TRUE]
             d == [w.call EXCEPT !.toolUse = TRUE, !.selfInt = TRUE]
             u == WithCall(w, c)
             x == WithCall(w, d)
             v == OnStop(w)
  <1>0. Going(w, conf) /\ w.call.ended = 0 /\ ~w.call.miss
    BY CoreGoing
  <1>1. /\ w \in Worlds /\ w.call \in PiCall /\ p \in Procs
        /\ (~w.call.saw => w.call.tools = {})
    BY <1>0, GoingParts DEF Going
  <1>2. /\ c \in PiCall /\ c.finished = w.call.finished /\ c.ended = w.call.ended
        /\ c.saw = w.call.saw /\ c.tools = w.call.tools /\ c.miss = w.call.miss
        /\ c.selfInt = w.call.selfInt /\ c.p = w.call.p /\ CallMoves(w.call, c)
    BY <1>1 DEF PiCall, CallMoves
  <1>3. /\ d \in PiCall /\ d.finished = w.call.finished /\ d.ended = w.call.ended
        /\ d.saw = w.call.saw /\ d.tools = w.call.tools /\ d.miss = w.call.miss
        /\ d.selfInt /\ d.p = w.call.p /\ CallMoves(w.call, d)
    BY <1>1 DEF PiCall, CallMoves
  <1>4. [w EXCEPT !.call.toolUse = TRUE] = u
    BY <1>1 DEF WithCall, Worlds, PiCall
  <1>5. [u EXCEPT !.call.selfInt = TRUE] = x
    BY <1>1 DEF WithCall, Worlds, PiCall
  <1> HIDE DEF c, d
  <1>6. CASE ~w.call.saw \/ w.call.selfInt
    <2>1. v = w
      BY <1>6 DEF OnStop
    <2> HIDE DEF v
    <2> QED BY <1>1, <2>1, MovesNothing DEF Heard, v
  <1>7. CASE w.call.saw /\ ~w.call.selfInt /\ conf.allowHandoff
    <2>1. v = Finish(Release(u, "handoff"))
      BY <1>4, <1>7 DEF OnStop
    <2>2. Going(u, conf) /\ Moves(w, u, {}) /\ u.call = c
      BY <1>0, <1>1, <1>2, GoingCall
    <2> HIDE DEF u, v
    <2>3. /\ Core(v, conf) /\ Moves(u, v, {}) /\ v.call.finished
          /\ v.call.tools = u.call.tools
      BY <1>0, <1>2, <2>1, <2>2, FinishReleaseCore
    <2>4. Moves(w, v, {} \cup {})
      BY <1>1, <2>2, <2>3, MovesTwice
    <2>5. Moves(w, v, {})
      BY <2>4
    <2>6. \A R : Whole(w, R) => Whole(v, R)
      BY <1>1, <1>2, <1>7, <2>2, <2>3, <2>5, WholeMoves
    <2> QED BY <2>3, <2>5, <2>6 DEF Heard, v
  <1>8. CASE w.call.saw /\ ~w.call.selfInt /\ ~conf.allowHandoff
    <2>1. v = Interrupt(x, p)
      BY <1>4, <1>5, <1>8 DEF OnStop
    <2>2. Going(x, conf) /\ Moves(w, x, {}) /\ x.call = d /\ x.map = w.map
      BY <1>0, <1>1, <1>3, GoingCall
    <2>3. x \in Worlds /\ x.parked = NoProc
      BY <2>2, GoingParts
    <2> HIDE DEF x, v
    <2>4. Moves(x, v, {}) /\ Local(x, v, p)
      BY <1>1, <2>1, <2>3, InterruptMoves
    <2>5. Moves(w, v, {} \cup {})
      BY <1>1, <2>2, <2>4, MovesTwice
    <2>6. Moves(w, v, {})
      BY <2>5
    <2>7. v.call = d /\ v.parked = w.parked /\ v.map = w.map
      BY <1>0, <2>2, <2>3, <2>4 DEF Local, Going
    <2>8. Core(v, conf)
      BY <1>1, <1>3, <2>6, <2>7, StayCore DEF Unnamed
    <2>9. \A R : Whole(w, R) => Whole(v, R)
      BY <1>1, <1>3, <1>8, <2>6, <2>7, WholeMoves
    <2> QED BY <2>6, <2>8, <2>9 DEF Heard, v
  <1> QED BY <1>6, <1>7, <1>8

LEMMA ResumedMoves ==
  ASSUME NEW w \in Worlds, w.call.p \in Procs
  PROVE  LET v == [w EXCEPT !.cli[w.call.p].turn = TRUE] IN
         /\ Moves(w, v, {}) /\ v.call = w.call /\ v.parked = w.parked /\ v.map = w.map
         /\ v.cli[w.call.p].turn
  <1> DEFINE p == w.call.p
             c == [w.cli[p] EXCEPT !.turn = TRUE]
             v == WithProc(w, p, c)
  <1>1. w.cli[p] \in Process
    BY DEF Worlds
  <1>2. /\ c \in Process /\ ProcMoves(w.cli[p], c, {}) /\ c.turn
        /\ c.pending = w.cli[p].pending /\ c.sink = w.cli[p].sink
    BY <1>1 DEF Process, ProcMoves, Awaited, Ids
  <1>3. [w EXCEPT !.cli[p].turn = TRUE] = v
    BY DEF WithProc, Worlds
  <1> HIDE DEF c
  <1>4. /\ v \in Worlds /\ v.cli[p] = c /\ \A q \in Procs \ {p} : v.cli[q] = w.cli[q]
        /\ v.os = w.os /\ v.tool = w.tool /\ v.call = w.call /\ v.parked = w.parked
        /\ v.map = w.map /\ v.stray = w.stray /\ v.wants = w.wants
    BY <1>2, WithProcIs
  <1> HIDE DEF v
  <1>5. \A q \in Procs : /\ ProcMoves(w.cli[q], v.cli[q], {})
                         /\ q # p => v.cli[q].turn = w.cli[q].turn
                         /\ v.cli[q].pending = w.cli[q].pending
                         /\ v.cli[q].sink = w.cli[q].sink
    <2> SUFFICES ASSUME NEW q \in Procs
                 PROVE  /\ ProcMoves(w.cli[q], v.cli[q], {})
                        /\ q # p => v.cli[q].turn = w.cli[q].turn
                        /\ v.cli[q].pending = w.cli[q].pending
                        /\ v.cli[q].sink = w.cli[q].sink
      OBVIOUS
    <2>1. CASE q = p
      BY <1>2, <1>4, <2>1
    <2>2. CASE q # p
      BY <1>4, <2>2 DEF ProcMoves
    <2> QED BY <2>1, <2>2
  <1>6. Answered(w, v)
    BY <1>4, <1>5, SameTools
  <1>7. Moves(w, v, {})
    BY <1>4, <1>5, <1>6 DEF Moves, OsMoves, CallMoves, New
  <1> QED BY <1>2, <1>3, <1>4, <1>7

\* A result that does not end the turn: the call changes to c, and the turn is
\* taken up again.
LEMMA AnotherCycle ==
  ASSUME NEW w, Core(w, conf), w.call.ph = "open", ~w.call.finished,
         NEW c \in PiCall, CallMoves(w.call, c), ~c.finished, c.ended = w.call.ended,
         c.miss = w.call.miss, c.saw = w.call.saw, c.tools = w.call.tools,
         c.selfInt = w.call.selfInt, NEW l, l.k = "result",
         NEW v, v = IF w.cli[w.call.p].alive /\ ~w.cli[w.call.p].retired
                    THEN [WithCall(w, c) EXCEPT !.cli[w.call.p].turn = TRUE]
                    ELSE WithCall(w, c)
  PROVE  Heard(w, v, l, conf)
  <1> DEFINE p == w.call.p
             u == WithCall(w, c)
  <1>0. Going(w, conf) /\ w.call.ended = 0 /\ ~w.call.miss
    BY CoreGoing
  <1>1. /\ w \in Worlds /\ w.call \in PiCall /\ p \in Procs
        /\ (~w.call.saw => w.call.tools = {})
    BY <1>0, GoingParts DEF Going
  <1>2. Going(u, conf) /\ Moves(w, u, {}) /\ u.call = c /\ u.map = w.map /\ u.cli = w.cli
    BY <1>0, <1>1, GoingCall
  <1>3. u \in Worlds /\ u.parked = NoProc /\ u.call.p = p
    BY <1>2, GoingParts DEF CallMoves
  <1> HIDE DEF u
  <1>4. /\ Moves(u, v, {}) /\ v.call = c /\ v.parked = NoProc /\ v.map = w.map
        /\ v.cli[p].turn \/ v.cli[p].retired \/ ~v.cli[p].alive
    <2>1. CASE w.cli[p].alive /\ ~w.cli[p].retired
      <3>1. v = [u EXCEPT !.cli[u.call.p].turn = TRUE]
        BY <1>3, <2>1 DEF u
      <3> QED BY <1>1, <1>2, <1>3, <3>1, ResumedMoves
    <2>2. CASE ~(w.cli[p].alive /\ ~w.cli[p].retired)
      <3>1. v = u
        BY <2>2 DEF u
      <3> QED BY <1>2, <1>3, <2>2, <3>1, MovesNothing
    <2> QED BY <2>1, <2>2
  <1>5. Moves(w, v, {} \cup {})
    BY <1>1, <1>2, <1>4, MovesTwice
  <1>6. Moves(w, v, {})
    BY <1>5
  <1>7. Core(v, conf)
    BY <1>0, <1>1, <1>4, <1>6, StayCore DEF Unnamed, Going
  <1>8. \/ ~v.call.finished /\ v.call.selfInt /\ v.call.saw
        \/ /\ ~w.call.selfInt \/ ~w.call.saw
           /\ w.call.tools \cup {} \subseteq v.call.tools
    BY <1>4
  <1>9. \A R : Whole(w, R) => Whole(v, R)
    BY <1>1, <1>6, <1>8, WholeMoves
  <1> QED BY <1>4, <1>6, <1>7, <1>9 DEF Heard

LEMMA OnResultHeard ==
  ASSUME NEW w, Core(w, conf), w.call.ph = "open", ~w.call.finished,
         NEW l \in Line, l.k = "result"
  PROVE  Heard(w, OnResult(w, l), l, conf)
  <1> DEFINE p == w.call.p
             frozen == w.call.selfInt \/ w.call.aborted
             error == l.r \in {"error", "miss"}
             agents == /\ ~error /\ ~frozen /\ w.call.cycles < conf.maxAgentCycles
                       /\ w.cli[p].agents > 0
             m == ClearMap(w)
             v == OnResult(w, l)
             c == [w.call EXCEPT !.by = l.n]
             over == WithCall(w, c)
  <1>0. Going(w, conf) /\ w.call.ended = 0 /\ ~w.call.miss
    BY CoreGoing
  <1>1. /\ w \in Worlds /\ w.call \in PiCall /\ p \in Procs
        /\ (~w.call.saw => w.call.tools = {})
    BY <1>0, GoingParts DEF Going
  <1>2. /\ Moves(w, m, {}) /\ m.call = w.call /\ m.cli = w.cli /\ m.os = w.os
        /\ m.parked = w.parked /\ m.map \in {0, w.map} /\ (~conf.piOwned => m.map = 0)
    BY <1>1, ClearMapMoves
  <1>3. Going(m, conf)
    BY <1>0, <1>2, GoingMoves
  <1>4. m \in Worlds /\ Held(m) /\ m.call \in PiCall
    BY <1>3, GoingParts
  <1>5. /\ c \in PiCall /\ CallMoves(w.call, c) /\ ~c.finished /\ c.ended = w.call.ended
        /\ c.miss = w.call.miss /\ c.saw = w.call.saw /\ c.tools = w.call.tools
        /\ c.selfInt = w.call.selfInt /\ c.p = p
    BY <1>1 DEF PiCall, CallMoves, Line
  <1>6. over = [w EXCEPT !.call.by = l.n]
    BY <1>1 DEF WithCall, Worlds
  <1> HIDE DEF c
  <1>7. Going(over, conf) /\ Moves(w, over, {}) /\ over.call = c
    BY <1>0, <1>1, <1>5, GoingCall
  <1> HIDE DEF m, over
  <1>8. CASE error /\ ~frozen /\ l.r = "miss" /\ w.os[p].resumed
    <2> DEFINE d == [m.call EXCEPT !.miss = TRUE]
               u == WithCall(m, d)
    <2>1. /\ d \in PiCall /\ CallMoves(m.call, d) /\ ~d.finished /\ d.ended = w.call.ended
          /\ d.saw = w.call.saw /\ d.tools = w.call.tools /\ d.p = p
      BY <1>1, <1>2 DEF PiCall, CallMoves
    <2>2. u = [m EXCEPT !.call.miss = TRUE]
      BY <1>4 DEF WithCall, Worlds
    <2>3. v = Finish(Retire(u, p))
      BY <1>8, <2>2 DEF OnResult, m
    <2> HIDE DEF d
    <2>4. m.map = 0 /\ ~conf.piOwned
      BY <1>0, <1>1, <1>2, <1>8 DEF Going
    <2>5. Going(u, conf) /\ Moves(m, u, {}) /\ u.call = d
      BY <1>0, <1>1, <1>3, <2>1, <2>4, GoingCall
    <2> HIDE DEF u, v
    <2>6. Core(v, conf) /\ Moves(u, v, {}) /\ v.call.finished /\ v.cli[p].retired
      BY <2>1, <2>3, <2>5, FinishRetireCore
    <2>7. Moves(w, u, {} \cup {})
      BY <1>1, <1>2, <2>5, MovesTwice
    <2>8. Moves(w, v, ({} \cup {}) \cup {})
      BY <1>1, <2>6, <2>7, MovesTwice
    <2>9. Moves(w, v, {})
      BY <2>8
    <2>10. \A R : Whole(w, R) => Whole(v, R)
      BY <1>1, <2>6, <2>9, WholeMoves
    <2> QED BY <2>6, <2>9, <2>10 DEF Heard, v
  <1>9. CASE error /\ ~frozen /\ ~(l.r = "miss" /\ w.os[p].resumed)
    <2> DEFINE u == Retire(m, p)
    <2>1. v = EndWithError(u)
      BY <1>9 DEF OnResult, m
    <2>2. Retired(m, u, p)
      BY <1>1, <1>4, RetireMoves
    <2> HIDE DEF u, v
    <2>3. Moves(m, u, {}) /\ u.call = w.call /\ u.parked = m.parked /\ u.map = m.map
      BY <1>2, <2>2 DEF Retired, Local
    <2>4. Going(u, conf)
      BY <1>2, <1>3, <2>3, GoingMoves
    <2>5. Core(v, conf) /\ Moves(u, v, {}) /\ v.call.finished /\ v.cli[p].retired
      BY <1>0, <2>1, <2>3, <2>4, EndWithErrorCore
    <2>6. Moves(w, u, {} \cup {})
      BY <1>1, <1>2, <2>3, MovesTwice
    <2>7. Moves(w, v, ({} \cup {}) \cup {})
      BY <1>1, <2>5, <2>6, MovesTwice
    <2>8. Moves(w, v, {})
      BY <2>7
    <2>9. \A R : Whole(w, R) => Whole(v, R)
      BY <1>1, <2>5, <2>8, WholeMoves
    <2> QED BY <2>5, <2>8, <2>9 DEF Heard, v
  <1>10. CASE ~(error /\ ~frozen) /\ EmptyCycle(w.call, l.r)
    <2> DEFINE d == [w.call EXCEPT !.empties = @ + 1]
    <2>1. /\ d \in PiCall /\ CallMoves(w.call, d) /\ ~d.finished /\ d.ended = w.call.ended
          /\ d.miss = w.call.miss /\ d.saw = w.call.saw /\ d.tools = w.call.tools
          /\ d.selfInt = w.call.selfInt
      BY <1>1 DEF PiCall, CallMoves
    <2>2. WithCall(w, d) = [w EXCEPT !.call.empties = @ + 1]
      BY <1>1 DEF WithCall, Worlds
    <2>3. v = IF w.cli[p].alive /\ ~w.cli[p].retired
              THEN [WithCall(w, d) EXCEPT !.cli[p].turn = TRUE] ELSE WithCall(w, d)
      BY <1>10, <2>2 DEF OnResult
    <2> HIDE DEF d, v
    <2> QED BY <2>1, <2>3, AnotherCycle DEF v
  <1>11. CASE ~(error /\ ~frozen) /\ ~EmptyCycle(w.call, l.r) /\ agents
    <2> DEFINE d == [w.call EXCEPT !.cycles = @ + 1, !.waiting = TRUE]
    <2>1. /\ d \in PiCall /\ CallMoves(w.call, d) /\ ~d.finished /\ d.ended = w.call.ended
          /\ d.miss = w.call.miss /\ d.saw = w.call.saw /\ d.tools = w.call.tools
          /\ d.selfInt = w.call.selfInt
      <3> DEFINE e == [w.call EXCEPT !.cycles = @ + 1]
      <3>1. /\ e \in PiCall /\ CallMoves(w.call, e) /\ ~e.finished /\ e.ended = w.call.ended
            /\ e.miss = w.call.miss /\ e.saw = w.call.saw /\ e.tools = w.call.tools
            /\ e.selfInt = w.call.selfInt
        BY <1>1 DEF PiCall, CallMoves
      <3>2. d = [e EXCEPT !.waiting = TRUE]
        BY <1>1 DEF PiCall
      <3> HIDE DEF d, e
      <3> QED BY <3>1, <3>2 DEF PiCall, CallMoves
    <2>2. WithCall(w, d) = [w EXCEPT !.call.cycles = @ + 1, !.call.waiting = TRUE]
      BY <1>1 DEF WithCall, Worlds, PiCall
    <2>3. v = IF w.cli[p].alive /\ ~w.cli[p].retired
              THEN [WithCall(w, d) EXCEPT !.cli[p].turn = TRUE] ELSE WithCall(w, d)
      BY <1>11, <2>2 DEF OnResult
    <2> HIDE DEF d, v
    <2> QED BY <2>1, <2>3, AnotherCycle DEF v
  <1>12. CASE ~(error /\ ~frozen) /\ ~EmptyCycle(w.call, l.r) /\ ~agents
    <2>1. CASE w.call.selfInt /\ ~w.call.aborted
      <3>1. v = Finish(Retire(over, p))
        BY <1>6, <1>12, <2>1 DEF OnResult
      <3> HIDE DEF v
      <3>2. Core(v, conf) /\ Moves(over, v, {}) /\ v.call.finished /\ v.cli[p].retired
        BY <1>5, <1>7, <3>1, FinishRetireCore
      <3>3. Moves(w, v, {} \cup {})
        BY <1>1, <1>7, <3>2, MovesTwice
      <3>4. Moves(w, v, {})
        BY <3>3
      <3>5. \A R : Whole(w, R) => Whole(v, R)
        BY <1>1, <3>2, <3>4, WholeMoves
      <3> QED BY <3>2, <3>4, <3>5 DEF Heard, v
    <2>2. CASE ~(w.call.selfInt /\ ~w.call.aborted)
      <3>1. v = Finish(Release(over, "turn"))
        BY <1>6, <1>12, <2>2 DEF OnResult
      <3> HIDE DEF v
      <3>2. Core(v, conf) /\ Moves(over, v, {}) /\ v.call.finished /\ v.call.tools = w.call.tools
        BY <1>0, <1>5, <1>7, <3>1, FinishReleaseCore
      <3>3. Moves(w, v, {} \cup {})
        BY <1>1, <1>7, <3>2, MovesTwice
      <3>4. Moves(w, v, {})
        BY <3>3
      <3>5. \A R : Whole(w, R) /\ ~w.call.aborted => Whole(v, R)
        BY <1>1, <2>2, <3>2, <3>4, WholeMoves
      <3> QED BY <3>2, <3>4, <3>5 DEF Heard, v
    <2> QED BY <2>1, <2>2
  <1> QED BY <1>8, <1>9, <1>10, <1>11, <1>12

\* The call and its process change, the process in what it waits on at most.
LEMMA NotedMoves ==
  ASSUME NEW w \in Worlds, w.call.p \in Procs, NEW c \in PiCall, NEW d \in Process, NEW T,
         CallMoves(w.call, c), c.finished => w.call.finished,
         ProcMoves(w.cli[w.call.p], d, T), d.pending = w.cli[w.call.p].pending,
         d.sink = w.cli[w.call.p].sink
  PROVE  LET v == WithProc(WithCall(w, c), w.call.p, d) IN
         /\ Moves(w, v, T) /\ v.call = c /\ v.os = w.os /\ v.parked = w.parked
         /\ v.map = w.map /\ v.cli[w.call.p] = d
  <1> DEFINE p == w.call.p
             u == WithCall(w, c)
             v == WithProc(u, p, d)
  <1>1. /\ u \in Worlds /\ u.call = c
        /\ u.cli = w.cli /\ u.os = w.os /\ u.tool = w.tool /\ u.parked = w.parked
        /\ u.map = w.map /\ u.stray = w.stray /\ u.wants = w.wants
    BY WithCallIs
  <1> HIDE DEF u
  <1>2. /\ v \in Worlds /\ v.cli[p] = d /\ \A q \in Procs \ {p} : v.cli[q] = w.cli[q]
        /\ v.os = w.os /\ v.tool = w.tool /\ v.call = c /\ v.parked = w.parked
        /\ v.map = w.map /\ v.stray = w.stray /\ v.wants = w.wants
    BY <1>1, WithProcIs
  <1> HIDE DEF v
  <1>3. \A q \in Procs : /\ ProcMoves(w.cli[q], v.cli[q], New(w, T, q))
                         /\ q # p => v.cli[q].turn = w.cli[q].turn
                         /\ v.cli[q].pending = w.cli[q].pending
                         /\ v.cli[q].sink = w.cli[q].sink
    <2> SUFFICES ASSUME NEW q \in Procs
                 PROVE  /\ ProcMoves(w.cli[q], v.cli[q], New(w, T, q))
                        /\ q # p => v.cli[q].turn = w.cli[q].turn
                        /\ v.cli[q].pending = w.cli[q].pending
                        /\ v.cli[q].sink = w.cli[q].sink
      OBVIOUS
    <2>1. CASE q = p
      BY <1>2, <2>1 DEF New
    <2>2. CASE q # p
      BY <1>2, <2>2 DEF ProcMoves, New
    <2> QED BY <2>1, <2>2
  <1>4. Answered(w, v)
    BY <1>2, <1>3, SameTools
  <1>5. \A q \in Procs : v.cli[q].sink /\ v.call.finished => w.call.finished
    BY <1>2
  <1>6. Moves(w, v, T)
    BY <1>2, <1>3, <1>4, <1>5 DEF Moves, OsMoves
  <1> QED BY <1>2, <1>6 DEF u, v

LEMMA OnToolHeard ==
  ASSUME NEW w, Core(w, conf), w.call.ph = "open", ~w.call.finished,
         NEW l \in Line, l.k = "tool", Untold(w, {l.t}),
         NEW v, v = [w EXCEPT !.call.saw = TRUE,
                              !.call.tools = IF w.call.selfInt THEN @ ELSE @ \cup {l.t},
                              !.cli[w.call.p].awaiting = @ \cup {l.t}]
  PROVE  Heard(w, v, l, conf)
  <1> DEFINE p == w.call.p
             tools == IF w.call.selfInt THEN w.call.tools ELSE w.call.tools \cup {l.t}
             b == [w.call EXCEPT !.saw = TRUE]
             c == [b EXCEPT !.tools = tools]
             d == [w.cli[p] EXCEPT !.awaiting = @ \cup {l.t}]
             x == WithProc(WithCall(w, c), p, d)
  <1>0. Going(w, conf) /\ w.call.ended = 0 /\ ~w.call.miss
    BY CoreGoing
  <1>1. /\ w \in Worlds /\ w.call \in PiCall /\ p \in Procs
        /\ (~w.call.saw => w.call.tools = {})
    BY <1>0, GoingParts DEF Going
  <1>2. l.t \in Tools
    BY DEF Untold, Unnamed
  <1>3. /\ b \in PiCall /\ CallMoves(w.call, b) /\ ~b.finished /\ b.ended = w.call.ended
        /\ b.miss = w.call.miss /\ b.saw /\ b.tools = w.call.tools /\ b.selfInt = w.call.selfInt
    BY <1>1 DEF PiCall, CallMoves
  <1>4. tools \in SUBSET Tools
    BY <1>1, <1>2 DEF PiCall
  <1>5. w.cli[p] \in Process
    BY <1>1 DEF Worlds
  <1>6. /\ d \in Process /\ ProcMoves(w.cli[p], d, {l.t}) /\ d.pending = w.cli[p].pending
        /\ d.sink = w.cli[p].sink
    <2>1. l.t \notin Ids(w.cli[p])
      BY DEF Untold
    <2> QED BY <1>2, <1>5, <2>1 DEF Process, ProcMoves, Awaited, Ids
  <1>7. v = x
    BY <1>1, <1>5 DEF WithProc, WithCall, Worlds, PiCall
  <1>8. w.call.selfInt \/ w.call.tools \cup {l.t} \subseteq tools
    OBVIOUS
  <1> HIDE DEF b, tools
  <1>9. /\ c \in PiCall /\ CallMoves(w.call, c) /\ ~c.finished /\ c.ended = w.call.ended
        /\ c.miss = w.call.miss /\ c.saw /\ c.tools = tools /\ c.selfInt = w.call.selfInt
    BY <1>3, <1>4 DEF PiCall, CallMoves
  <1> HIDE DEF c, d
  <1>10. Moves(w, v, {l.t}) /\ v.call = c /\ v.parked = w.parked /\ v.map = w.map
    <2>1. Moves(w, x, {l.t}) /\ x.call = c /\ x.parked = w.parked /\ x.map = w.map
      BY ONLY <1>1, <1>6, <1>9, NotedMoves
    <2> HIDE DEF x
    <2> QED BY ONLY <1>7, <2>1
  <1>11. Core(v, conf)
    BY <1>9, <1>10, StayCore DEF Untold
  <1>12. \/ ~v.call.finished /\ v.call.selfInt /\ v.call.saw
         \/ /\ ~w.call.selfInt \/ ~w.call.saw
            /\ w.call.tools \cup {l.t} \subseteq v.call.tools
    BY <1>8, <1>9, <1>10
  <1>13. \A R : Whole(w, R) => Whole(v, R)
    BY ZenonT(40), <1>1, <1>10, <1>12, WholeMoves
  <1> QED BY <1>10, <1>11, <1>13 DEF Heard

\* A line that only changes what is known of the process's sub-agents.
LEMMA OnOtherHeard ==
  ASSUME NEW w, Core(w, conf), w.call.ph = "open", ~w.call.finished,
         NEW l, l.k \notin {"tool", "result"}, NEW n \in 0 .. 1,
         NEW v, v = [w EXCEPT !.cli[w.call.p].agents = n]
  PROVE  Heard(w, v, l, conf)
  <1> DEFINE p == w.call.p
             d == [w.cli[p] EXCEPT !.agents = n]
             x == WithProc(w, p, d)
  <1>0. Going(w, conf) /\ w.call.ended = 0 /\ ~w.call.miss
    BY CoreGoing
  <1>1. /\ w \in Worlds /\ w.call \in PiCall /\ p \in Procs
        /\ (~w.call.saw => w.call.tools = {})
    BY <1>0, GoingParts DEF Going
  <1>2. w.cli[p] \in Process
    BY <1>1 DEF Worlds
  <1>3. /\ d \in Process /\ ProcMoves(w.cli[p], d, {}) /\ d.pending = w.cli[p].pending
        /\ d.turn = w.cli[p].turn /\ d.sink = w.cli[p].sink
    BY <1>2 DEF Process, ProcMoves, Awaited, Ids
  <1>4. v = x
    BY <1>1, <1>2 DEF WithProc, Worlds
  <1> HIDE DEF d
  <1>5. /\ x \in Worlds /\ x.cli[p] = d /\ \A q \in Procs \ {p} : x.cli[q] = w.cli[q]
        /\ x.os = w.os /\ x.tool = w.tool /\ x.call = w.call /\ x.parked = w.parked
        /\ x.map = w.map /\ x.stray = w.stray /\ x.wants = w.wants
    BY <1>1, <1>3, WithProcIs
  <1> HIDE DEF x
  <1>6. Local(w, x, p)
    BY <1>3, <1>5 DEF Local
  <1>7. Answered(w, x)
    <2>1. \A q \in Procs : x.cli[q].pending = w.cli[q].pending
      BY <1>3, <1>5
    <2> QED BY <1>1, <1>5, <2>1, SameTools
  <1>8. Moves(w, x, {})
    <2>1. OsMoves(w.os[p], x.os[p])
      BY <1>5 DEF OsMoves
    <2> QED BY <1>1, <1>3, <1>5, <1>6, <1>7, <2>1, LocalMoves
  <1>9. Core(x, conf)
    BY <1>0, <1>1, <1>5, <1>8, StayCore DEF Unnamed
  <1>10. \A R : Whole(w, R) => Whole(x, R)
    BY <1>1, <1>5, <1>8, WholeMoves
  <1> QED BY ONLY <1>4, <1>8, <1>9, <1>10, l.k \notin {"tool", "result"} DEF Heard

\* Arming the timer changes nothing else.
LEMMA ArmedCore ==
  ASSUME NEW w, Core(w, conf), w.call.ph = "open"
  PROVE  LET v == Arm(w) IN
         /\ Core(v, conf) /\ Moves(w, v, {}) /\ v = Armed(w)
         /\ v.cli = w.cli /\ v.call = [w.call EXCEPT !.timer = TRUE]
         /\ \A R : Whole(w, R) => Whole(v, R)
  <1> DEFINE c == [w.call EXCEPT !.timer = TRUE]
             v == Armed(w)
  <1>1. w \in Worlds /\ w.call \in PiCall
    BY DEF Core, CoreBut, Base, Worlds
  <1>2. /\ c \in PiCall /\ CallMoves(w.call, c) /\ c.finished = w.call.finished
        /\ c.ended = w.call.ended /\ c.miss = w.call.miss /\ c.saw = w.call.saw
        /\ c.tools = w.call.tools /\ c.selfInt = w.call.selfInt /\ c.toolUse = w.call.toolUse
    BY <1>1 DEF PiCall, CallMoves
  <1>3. Arm(w) = v
    BY <1>1 DEF Arm, Armed, WithCall, Worlds
  <1> HIDE DEF c
  <1>4. /\ Moves(w, v, {}) /\ v.call = c
        /\ v.cli = w.cli /\ v.os = w.os /\ v.parked = w.parked /\ v.map = w.map
    BY <1>1, <1>2, WithCallMoves DEF Armed, c
  <1> HIDE DEF v
  <1>5. Base(v, conf)
    BY <1>4, BaseMoves DEF Core, CoreBut, Unnamed
  <1>6. KeptBut(v, NoProc) /\ Free(v) /\ CallSound(v.call) /\ Missed(v, conf)
    BY <1>2, <1>4 DEF Core, CoreBut, KeptBut, Free, Engaged, Serves, CallSound, Missed, CallMoves
  <1>7. \A R : Whole(w, R) => Whole(v, R)
    BY <1>2, <1>4 DEF Whole, CallMoves
  <1> QED BY <1>3, <1>4, <1>5, <1>6, <1>7 DEF Core, CoreBut, c, v

LEMMA OnMessageHeard ==
  ASSUME NEW w, Core(w, conf), w.call.ph = "open", NEW l \in Line,
         l.k = "tool" => Untold(w, {l.t})
  PROVE  (w.call.finished /\ OnMessage(w, l) = w) \/ Heard(w, OnMessage(w, l), l, conf)
  <1> DEFINE p == w.call.p
             u == [w EXCEPT !.call.timer = TRUE]
             v == OnMessage(w, l)
  <1>1. CASE w.call.finished
    BY <1>1 DEF OnMessage
  <1>2. CASE ~w.call.finished
    <2>0. Going(w, conf) /\ ~w.call.miss
      BY <1>2, CoreGoing
    <2>1. w \in Worlds /\ w.call \in PiCall /\ p \in Procs
      BY <2>0, GoingParts
    <2>2. /\ Core(u, conf) /\ Moves(w, u, {}) /\ u.cli = w.cli
          /\ u.call = [w.call EXCEPT !.timer = TRUE]
          /\ \A R : Whole(w, R) => Whole(u, R)
      <3>1. u = Arm(w)
        BY DEF Arm
      <3> HIDE DEF u
      <3> QED BY <3>1, ArmedCore
    <2>3. /\ u.call.ph = "open" /\ ~u.call.finished /\ u.call.p = p
          /\ u.call.selfInt = w.call.selfInt /\ u.call.aborted = w.call.aborted
      BY <1>2, <2>1, <2>2 DEF PiCall
    <2>4. u \in Worlds /\ u.cli[p] \in Process
      BY <2>1, <2>2 DEF Core, CoreBut, Base, Worlds
    <2>5. l.k \in {"tool", "stop", "ask", "task", "report", "result"}
      BY DEF Line, Kinds
    <2>6. CASE l.k = "tool"
      <3>1. v = [u EXCEPT !.call.saw = TRUE,
                          !.call.tools = IF u.call.selfInt THEN @ ELSE @ \cup {l.t},
                          !.cli[u.call.p].awaiting = @ \cup {l.t}]
        BY <1>2, <2>0, <2>3, <2>6 DEF OnMessage
      <3> HIDE DEF u, v
      <3>2. Untold(u, {l.t})
        BY <2>1, <2>2, <2>3, <2>6 DEF Untold, Unnamed, Moves, ProcMoves, OsMoves, Answered
      <3>3. Heard(u, v, l, conf)
        BY <2>2, <2>3, <2>6, <3>1, <3>2, OnToolHeard
      <3>4. Core(v, conf) /\ Moves(u, v, {l.t})
        BY <2>6, <3>3 DEF Heard
      <3>5. Moves(w, v, {} \cup {l.t})
        BY <2>1, <2>2, <3>4, MovesTwice
      <3>6. Moves(w, v, {l.t})
        BY <3>5
      <3> QED BY <2>2, <2>6, <3>3, <3>4, <3>6 DEF Heard, v
    <2>7. CASE l.k = "stop"
      <3>1. v = OnStop(u)
        BY <1>2, <2>0, <2>7 DEF OnMessage
      <3> HIDE DEF u, v
      <3>2. Heard(u, v, l, conf)
        BY <2>2, <2>3, <2>7, <3>1, OnStopHeard
      <3>3. Core(v, conf) /\ Moves(u, v, {})
        BY <2>7, <3>2 DEF Heard
      <3>4. Moves(w, v, {} \cup {})
        BY <2>1, <2>2, <3>3, MovesTwice
      <3> QED BY <2>2, <2>7, <3>2, <3>3, <3>4 DEF Heard, v
    <2>8. CASE l.k = "result"
      <3>1. v = OnResult(u, l)
        BY <1>2, <2>0, <2>8 DEF OnMessage
      <3> HIDE DEF u, v
      <3>2. Heard(u, v, l, conf)
        BY <2>2, <2>3, <2>8, <3>1, OnResultHeard
      <3>3. Core(v, conf) /\ Moves(u, v, {})
        BY <2>8, <3>2 DEF Heard
      <3>4. Moves(w, v, {} \cup {})
        BY <2>1, <2>2, <3>3, MovesTwice
      <3> QED BY <2>2, <2>3, <2>8, <3>2, <3>3, <3>4 DEF Heard, v
    <2>9. CASE l.k \in {"ask", "task", "report"}
      <3>1. \/ v = [u EXCEPT !.cli[u.call.p].agents = 1]
            \/ v = [u EXCEPT !.cli[u.call.p].agents = 0]
            \/ v = u
        BY <1>2, <2>0, <2>3, <2>9 DEF OnMessage
      <3> HIDE DEF u, v
      <3>2. Heard(u, u, l, conf)
        BY <2>2, <2>4, <2>9, MovesNothing DEF Heard
      <3>3. Heard(u, v, l, conf)
        <4>1. \A n \in 0 .. 1 : Heard(u, [u EXCEPT !.cli[u.call.p].agents = n], l, conf)
          BY <2>2, <2>3, <2>9, OnOtherHeard
        <4>2. 0 \in 0 .. 1 /\ 1 \in 0 .. 1
          OBVIOUS
        <4> QED BY <3>1, <3>2, <4>1, <4>2
      <3>4. Core(v, conf) /\ Moves(u, v, {})
        BY <2>9, <3>3 DEF Heard
      <3>5. Moves(w, v, {} \cup {})
        BY <2>1, <2>2, <3>4, MovesTwice
      <3> QED BY <2>2, <2>9, <3>3, <3>4, <3>5 DEF Heard, v
    <2> HIDE DEF u, v
    <2> QED BY <2>5, <2>6, <2>7, <2>8, <2>9 DEF v
  <1> QED BY <1>1, <1>2

\* The end of stdout ends the call.
LEMMA OnCloseCore ==
  ASSUME NEW w, Core(w, conf), w.call.ph = "open", NEW bad
  PROVE  LET v == OnClose(w, bad) IN
         /\ Core(v, conf) /\ Moves(w, v, {}) /\ v.call.finished
         /\ (w.call.finished /\ v = w) \/ v.cli[w.call.p].retired
         /\ \A R : Whole(w, R) => Whole(v, R)
  <1> DEFINE v == OnClose(w, bad)
  <1>1. CASE w.call.finished
    <2>1. v = w
      BY <1>1 DEF OnClose
    <2>2. Moves(w, w, {})
      BY MovesNothing DEF Core, CoreBut, Base
    <2> HIDE DEF v
    <2> QED BY <1>1, <2>1, <2>2 DEF v
  <1>2. CASE ~w.call.finished
    <2>1. Going(w, conf) /\ w.call.ended = 0 /\ ~w.call.miss
      BY <1>2, CoreGoing
    <2>2. v = EndWithError(w) \/ v = Finish(Retire(w, w.call.p))
      BY <1>2, <2>1 DEF OnClose
    <2> HIDE DEF v
    <2>3. Core(v, conf) /\ Moves(w, v, {}) /\ v.call.finished /\ v.cli[w.call.p].retired
      BY <2>1, <2>2, EndWithErrorCore, FinishRetireCore
    <2>4. v.call.p = w.call.p
      BY <2>3 DEF Moves, CallMoves
    <2> QED BY <2>3, <2>4 DEF Whole, v
  <1> QED BY <1>1, <1>2

-----------------------------------------------------------------------------
(* The replay of a buffer, line by line.                                    *)

\* A set of numbers has a least one: what inductions use here.
LEMMA Least ==
  ASSUME NEW S \in SUBSET Nat, S # {}
  PROVE  \E n \in S : \A m \in S : n <= m
  <1> DEFINE R == StrictSubsetOrdering(Nat)
             T == {1 .. i : i \in S}
  <1>1. IsWellFoundedOn(R, FiniteSubsetsOf(Nat))
    BY FS_StrictSubsetOrderingWellFounded
  <1>2. \A i \in Nat : 1 .. i \in FiniteSubsetsOf(Nat)
    BY FS_Interval DEF FiniteSubsetsOf
  <1>3. T \subseteq FiniteSubsetsOf(Nat) /\ T # {}
    BY <1>2
  <1>4. PICK x \in T : \A y \in T : ~(<<y, x>> \in R)
    <2> HIDE DEF R, T
    <2> QED BY <1>1, <1>3, WFMin
  <1>5. PICK n \in S : x = 1 .. n
    BY <1>4
  <1>6. \A m \in S : ~(<<1 .. m, 1 .. n>> \in R)
    BY <1>4, <1>5
  <1>7. ASSUME NEW m \in S, m < n PROVE FALSE
    <2>1. 1 .. m \subseteq 1 .. n /\ n \in 1 .. n /\ n \notin 1 .. m
      BY <1>7
    <2>2. 1 .. m \in SUBSET Nat /\ 1 .. n \in SUBSET Nat
      OBVIOUS
    <2>3. <<1 .. m, 1 .. n>> \in R
      BY <2>1, <2>2 DEF StrictSubsetOrdering
    <2> QED BY <1>6, <2>3
  <1> QED BY <1>7

\* f is the worlds that the first k of the lines lead to from w.
Feeds(f, k, w, lines) ==
    f = [i \in 0 .. k |-> IF i = 0 THEN w ELSE OnMessage(f[i - 1], lines[i])]

LEMMA FeedExists ==
  ASSUME NEW w, NEW lines, Len(lines) \in Nat
  PROVE  \E f : Feeds(f, Len(lines), w, lines)
  <1> DEFINE n == Len(lines)
             S == {k \in 0 .. n : ~ \E f : Feeds(f, k, w, lines)}
  <1>1. CASE S = {}
    BY <1>1
  <1>2. CASE S # {}
    <2>0. S \in SUBSET Nat
      OBVIOUS
    <2>1. PICK k \in S : \A m \in S : k <= m
      <3> HIDE DEF S
      <3> QED BY <1>2, <2>0, Least
    <2>2. k # 0
      <3>1. Feeds([i \in 0 .. 0 |-> w], 0, w, lines)
        BY DEF Feeds
      <3> QED BY <3>1
    <2>3. PICK g : Feeds(g, k - 1, w, lines)
      BY <2>1, <2>2
    <2> DEFINE f == [i \in 0 .. k |-> IF i = k THEN OnMessage(g[k - 1], lines[k]) ELSE g[i]]
    <2>4. \A i \in 0 .. k - 1 : g[i] = IF i = 0 THEN w ELSE OnMessage(g[i - 1], lines[i])
      <3> HIDE DEF n, S
      <3> QED BY <2>3, <2>1, <2>2 DEF Feeds
    <2>5. \A i \in 0 .. k : f[i] = IF i = 0 THEN w ELSE OnMessage(f[i - 1], lines[i])
      BY <2>4, <2>2
    <2>6. Feeds(f, k, w, lines)
      BY <2>5 DEF Feeds
    <2> QED BY <2>1, <2>6
  <1> QED BY <1>1, <1>2

LEMMA FedHeard ==
  ASSUME NEW w, Core(w, conf), w.call.ph = "open", ~w.call.aborted,
         NEW lines \in Seq(Line), Untold(w, Blocks(lines))
  PROVE  LET v == Fed(w, lines) IN
         /\ Core(v, conf) /\ Moves(w, v, Blocks(lines))
         /\ \A R \in SUBSET Tools : Whole(w, R) => Whole(v, R)
  <1> DEFINE n == Len(lines)
             T == Blocks(lines)
             feed == CHOOSE f : Feeds(f, n, w, lines)
             Fits(v) == /\ Core(v, conf) /\ Moves(w, v, T)
                        /\ \A R \in SUBSET Tools : Whole(w, R) => Whole(v, R)
             S == {k \in 0 .. n : ~ Fits(feed[k])}
  <1>0. n \in Nat
    OBVIOUS
  <1>1. Feeds(feed, n, w, lines)
    <2>1. \E f : Feeds(f, n, w, lines)
      BY <1>0, FeedExists
    <2> QED BY <2>1
  <1>2. Fed(w, lines) = feed[n]
    BY DEF Fed, Feeds
  <1>3. \A i \in 0 .. n : feed[i] = IF i = 0 THEN w ELSE OnMessage(feed[i - 1], lines[i])
    <2> HIDE DEF feed
    <2> QED BY <1>1 DEF Feeds
  <1> HIDE DEF feed
  <1>4. w \in Worlds
    BY DEF Core, CoreBut, Base
  <1>5. Fits(w)
    BY <1>4, MovesNothing, MovesMore
  <1>6. ASSUME NEW v, Fits(v), NEW i \in 1 .. n
        PROVE  Fits(OnMessage(v, lines[i]))
    <2> DEFINE l == lines[i]
               u == OnMessage(v, l)
               N == IF l.k = "tool" THEN {l.t} ELSE {}
    <2>1. l \in Line
      OBVIOUS
    <2>2. N \subseteq T
      BY DEF Blocks
    <2>3. v.call.ph = "open" /\ ~v.call.aborted /\ v.call.p = w.call.p
      BY <1>6 DEF Moves, CallMoves
    <2>4. w.call.p \in Procs
      <3>1. w.call.p # 0 /\ w.call \in PiCall
        BY <1>4 DEF Core, CoreBut, CallSound, Worlds
      <3> QED BY <3>1, CliAssumption DEF PiCall, Procs
    <2>5. Untold(v, N)
      BY <1>6, <2>2, <2>3, <2>4 DEF Untold, Unnamed, Ids, Moves, ProcMoves, OsMoves, Answered
    <2>6. (v.call.finished /\ u = v) \/ Heard(v, u, l, conf)
      BY <1>6, <2>1, <2>3, <2>5, OnMessageHeard
    <2> HIDE DEF u
    <2>7. CASE u = v
      BY <1>6, <2>7 DEF u
    <2>8. CASE Heard(v, u, l, conf)
      <3>1. Core(u, conf) /\ Moves(v, u, N)
        BY <2>8 DEF Heard
      <3>2. Moves(w, u, T \cup N)
        BY <1>4, <1>6, <3>1, MovesTwice
      <3>3. T \cup N = T
        BY <2>2
      <3>4. \A R \in SUBSET Tools : Whole(v, R) => Whole(u, R)
        BY <2>3, <2>8 DEF Heard
      <3> QED BY <1>6, <3>1, <3>2, <3>3, <3>4 DEF u
    <2> QED BY <2>6, <2>7, <2>8
  <1> HIDE DEF Fits
  <1>7. CASE S = {}
    BY <1>0, <1>2, <1>7 DEF Fits
  <1>8. CASE S # {}
    <2>0. S \in SUBSET Nat
      OBVIOUS
    <2>1. PICK k \in S : \A m \in S : k <= m
      <3> HIDE DEF S
      <3> QED BY <1>8, <2>0, Least
    <2>2. k # 0
      BY <1>0, <1>3, <1>5
    <2>3. Fits(feed[k - 1])
      BY <2>1, <2>2
    <2> QED BY <1>3, <1>6, <2>1, <2>2, <2>3
  <1> QED BY <1>7, <1>8

-----------------------------------------------------------------------------
(* The call answers or prompts the CLI.                                     *)

\* Neither is told of by the sink.
LEMMA QuietlyCore ==
  ASSUME NEW w, Core(w, conf), NEW v, NEW T, Moves(w, v, T),
         Unnamed(w, T), v.call = w.call, v.parked = w.parked, v.map = w.map
  PROVE  Core(v, conf)
  <1>1. Base(v, conf)
    BY BaseMoves DEF Core, CoreBut
  <1>2. KeptBut(v, NoProc)
    BY DEF Core, CoreBut, KeptBut, Moves, ProcMoves
  <1>3. Missed(v, conf)
    <2>1. \A p \in Procs : v.os[p].resumed = w.os[p].resumed /\ v.cli[p].session = w.cli[p].session
      BY DEF Moves, OsMoves, ProcMoves
    <2>2. w.call.ph = "open" => w.call.p \in Procs
      <3>1. w.call \in PiCall /\ (w.call.ph = "open" => w.call.p # 0)
        BY DEF Core, CoreBut, Base, CallSound, Worlds
      <3> QED BY <3>1, CliAssumption DEF PiCall, Procs
    <2> QED BY <2>1, <2>2 DEF Core, CoreBut, Missed
  <1> QED BY <1>1, <1>2, <1>3 DEF Core, CoreBut, Free

LEMMA DeliverCore ==
  ASSUME NEW w, Core(w, conf), w.call.ph = "open", w.call.p \in Procs,
         NEW R \in SUBSET Tools, Unnamed(w, R)
  PROVE  LET v == DeliverResults(w, w.call.p, R)
             p == w.call.p
         IN  /\ Core(v, conf) /\ Moves(w, v, R) /\ v.call = w.call /\ v.parked = w.parked
             /\ v.cli[p].turn = w.cli[p].turn /\ v.cli[p].retired = w.cli[p].retired
             /\ v.cli[p].sink = w.cli[p].sink
             /\ Whole(w, R) => Whole(v, {})
  <1> DEFINE p == w.call.p
             C == w.cli[p].pending
             hit == {c \in C : c.id \in R}
             rest == R \ {c.id : c \in hit}
             a == Answer(w, hit, "pi")
             c == [w.cli[p] EXCEPT !.pending = @ \ hit, !.awaiting = @ \ rest,
                                   !.ready = @ \cup rest]
             v == DeliverResults(w, p, R)
             u == WithProc(a, p, c)
  <1>0. w \in Worlds /\ Held(w) /\ Announced(w)
    BY DEF Core, CoreBut, Base
  <1>1. w.cli[p] \in Process /\ hit \in SUBSET Requests /\ hit \in SUBSET C
    BY <1>0 DEF Worlds, Process, Requests
  <1>2. /\ a \in Worlds
        /\ a.cli = w.cli /\ a.os = w.os /\ a.call = w.call /\ a.parked = w.parked
        /\ a.map = w.map /\ a.stray = w.stray /\ a.wants = w.wants
    BY <1>0, <1>1, AnswerIs
  <1>3. rest \subseteq R /\ \A x \in R \ rest : \E d \in C : d.id = x
    OBVIOUS
  <1>4. \A x \in C \ hit : x.id \notin R
    OBVIOUS
  <1>5. v = u
    <2> HIDE DEF a
    <2>1. v = [a EXCEPT !.cli[p].pending = @ \ hit, !.cli[p].awaiting = @ \ rest,
                        !.cli[p].ready = @ \cup rest]
      BY DEF DeliverResults, a
    <2> HIDE DEF v, hit, rest
    <2>2. v = [a EXCEPT !.cli = [a.cli EXCEPT ![p] = [a.cli[p] EXCEPT
                 !.pending = @ \ hit, !.awaiting = @ \ rest, !.ready = @ \cup rest]]]
      BY <1>2, <2>1 DEF Worlds
    <2> QED BY <1>2, <2>2 DEF WithProc
  <1> HIDE DEF v, hit, rest
  <1>6. /\ c.pending = C \ hit /\ c.awaiting = w.cli[p].awaiting \ rest
        /\ c.ready = w.cli[p].ready \cup rest
        /\ c.alive = w.cli[p].alive /\ c.retired = w.cli[p].retired /\ c.eof = w.cli[p].eof
        /\ c.session = w.cli[p].session /\ c.buf = w.cli[p].buf /\ c.turn = w.cli[p].turn
        /\ c.sink = w.cli[p].sink
    BY <1>1 DEF Process
  <1>7. c \in Process
    <2>1. w.cli[p].ready \cup rest \in SUBSET Tools
      BY <1>1, <1>3 DEF Process
    <2>2. C \ hit \in SUBSET [id : Tools, from : Tools] /\ w.cli[p].awaiting \ rest \in SUBSET Tools
      BY <1>1 DEF Process
    <2> QED BY <1>1, <2>1, <2>2 DEF Process
  <1> HIDE DEF c, a
  <1>8. w.cli[p].awaiting \cap Ids(w.cli[p]) = {}
    BY <1>0 DEF Announced
  <1>9. Ids(c) \subseteq Ids(w.cli[p]) \ R
    BY <1>4, <1>6 DEF Ids
  <1>10. c.awaiting \cap R = {}
    BY <1>3, <1>6, <1>8 DEF Ids
  <1>11. Awaited(c) \subseteq Awaited(w.cli[p]) \ R
    BY <1>6, <1>9, <1>10 DEF Awaited
  <1>12. ProcMoves(w.cli[p], c, R)
    BY <1>3, <1>6, <1>8, <1>9, <1>11 DEF ProcMoves
  <1>13. /\ u \in Worlds /\ u.cli[p] = c /\ \A q \in Procs \ {p} : u.cli[q] = w.cli[q]
         /\ u.os = w.os /\ u.tool = a.tool /\ u.call = w.call /\ u.parked = w.parked
         /\ u.map = w.map /\ u.stray = w.stray /\ u.wants = w.wants
    BY <1>2, <1>7, WithProcIs
  <1> HIDE DEF u
  <1>14. Answered(w, u)
    <2>1. \A q \in Procs \ {p} : u.cli[q].pending = w.cli[q].pending
      BY <1>13
    <2>2. u.cli[p].pending = w.cli[p].pending \ hit
      BY <1>6, <1>13
    <2>3. u.tool = Answer(w, hit, "pi").tool
      BY <1>13 DEF a
    <2> QED BY <1>0, <1>1, <2>1, <2>2, <2>3, AnswerPart
  <1>15. \A q \in Procs : /\ ProcMoves(w.cli[q], u.cli[q], New(w, R, q))
                          /\ u.cli[q].turn = w.cli[q].turn /\ u.cli[q].sink = w.cli[q].sink
    <2> SUFFICES ASSUME NEW q \in Procs
                 PROVE  /\ ProcMoves(w.cli[q], u.cli[q], New(w, R, q))
                        /\ u.cli[q].turn = w.cli[q].turn /\ u.cli[q].sink = w.cli[q].sink
      OBVIOUS
    <2>1. CASE q = p
      BY <1>6, <1>12, <1>13, <2>1 DEF New
    <2>2. CASE q # p
      BY <1>13, <2>2 DEF ProcMoves, New
    <2> QED BY <2>1, <2>2
  <1>16. Moves(w, u, R)
    BY <1>13, <1>14, <1>15 DEF Moves, OsMoves, CallMoves
  <1>17. Core(u, conf)
    BY <1>13, <1>16, QuietlyCore
  <1>18. Whole(w, R) => Whole(u, {})
    BY <1>6, <1>11, <1>13 DEF Whole
  <1> QED BY <1>5, <1>6, <1>13, <1>16, <1>17, <1>18 DEF v

\* The prompt is written to the CLI, which is read no more if it has ended.
LEMMA WriteUserIs ==
  ASSUME NEW w \in Worlds, NEW p \in Procs, w.call.n # 0
  PROVE  LET v == WriteUser(w, p)
             c == [w.cli[p] EXCEPT !.turn = TRUE, !.asked = w.call.n]
         IN  /\ v \in Worlds /\ v.cli[p] = c /\ c \in Process
             /\ \A q \in Procs \ {p} : v.cli[q] = w.cli[q] /\ v.os[q] = w.os[q]
             /\ OsMoves(w.os[p], v.os[p])
             /\ v.tool = w.tool /\ v.call = w.call /\ v.parked = w.parked
             /\ v.map = w.map /\ v.stray = w.stray /\ v.wants = w.wants
  <1> DEFINE c == [w.cli[p] EXCEPT !.turn = TRUE, !.asked = w.call.n]
             box == IF w.os[p].run = "up" /\ ~w.os[p].quit
                    THEN Append(w.os[p].inbox, w.call.n) ELSE w.os[p].inbox
             o == [w.os[p] EXCEPT !.inbox = box]
             u == WithProc(w, p, c)
             v == WithProgram(u, p, o)
  <1>1. w.cli[p] \in Process /\ w.os[p] \in Program /\ w.call.n \in 1 .. MaxCalls
    <2>1. w.call.n \in 0 .. MaxCalls
      BY DEF Worlds, PiCall
    <2>2. w.call.n \in 1 .. MaxCalls
      BY <2>1, CliAssumption
    <2> QED BY <2>2 DEF Worlds
  <1>2. c \in Process
    <2>1. w.call.n \in 0 .. MaxCalls
      BY <1>1
    <2> QED BY <1>1, <2>1 DEF Process
  <1>3. box \in Seq(1 .. MaxCalls)
    <2>1. w.os[p].inbox \in Seq(1 .. MaxCalls)
      BY <1>1 DEF Program
    <2> DEFINE S == 1 .. MaxCalls
               b == w.os[p].inbox
               n == w.call.n
    <2>2. b \in Seq(S) /\ n \in S
      BY <1>1, <2>1
    <2> HIDE DEF S, b, n
    <2>3. Append(b, n) \in Seq(S)
      BY <2>2
    <2> USE DEF S, b, n
    <2>4. Append(w.os[p].inbox, w.call.n) \in Seq(1 .. MaxCalls)
      BY <2>3
    <2> QED BY <2>1, <2>4
  <1>4. WriteUser(w, p) = v
    BY DEF WriteUser, WithProc, WithProgram, Worlds
  <1> HIDE DEF box, c
  <1>5. o \in Program /\ OsMoves(w.os[p], o)
    BY <1>1, <1>3 DEF Program, OsMoves
  <1> HIDE DEF o
  <1>6. /\ u \in Worlds /\ u.cli[p] = c /\ \A q \in Procs \ {p} : u.cli[q] = w.cli[q]
        /\ u.os = w.os /\ u.tool = w.tool /\ u.call = w.call /\ u.parked = w.parked
        /\ u.map = w.map /\ u.stray = w.stray /\ u.wants = w.wants
    BY <1>2, WithProcIs
  <1> HIDE DEF u
  <1>7. /\ v \in Worlds /\ v.os[p] = o /\ \A q \in Procs \ {p} : v.os[q] = w.os[q]
        /\ v.cli = u.cli /\ v.tool = w.tool /\ v.call = w.call /\ v.parked = w.parked
        /\ v.map = w.map /\ v.stray = w.stray /\ v.wants = w.wants
    BY <1>5, <1>6, WithProgramIs
  <1> HIDE DEF v
  <1> QED BY <1>2, <1>4, <1>5, <1>6, <1>7 DEF c

LEMMA WriteUserCore ==
  ASSUME NEW w, Core(w, conf), w.call.ph = "open", w.call.p \in Procs
  PROVE  LET v == WriteUser(w, w.call.p)
             p == w.call.p
         IN  /\ Core(v, conf) /\ Moves(w, v, {}) /\ v.call = w.call /\ v.parked = w.parked
             /\ v.cli[p].turn /\ v.cli[p].sink = w.cli[p].sink
             /\ v.cli[p].retired = w.cli[p].retired
             /\ \A R : Whole(w, R) => Whole(v, R)
  <1> DEFINE p == w.call.p
             c == [w.cli[p] EXCEPT !.turn = TRUE, !.asked = w.call.n]
             v == WriteUser(w, p)
  <1>1. w \in Worlds /\ w.call.n # 0 /\ w.cli[p] \in Process
    BY DEF Core, CoreBut, Base, CallSound, Worlds
  <1>2. /\ v \in Worlds /\ v.cli[p] = c /\ c \in Process
        /\ \A q \in Procs \ {p} : v.cli[q] = w.cli[q] /\ v.os[q] = w.os[q]
        /\ OsMoves(w.os[p], v.os[p])
        /\ v.tool = w.tool /\ v.call = w.call /\ v.parked = w.parked
        /\ v.map = w.map /\ v.stray = w.stray /\ v.wants = w.wants
    BY <1>1, WriteUserIs
  <1>3. /\ ProcMoves(w.cli[p], c, {}) /\ c.turn /\ c.pending = w.cli[p].pending
        /\ c.awaiting = w.cli[p].awaiting /\ c.eof = w.cli[p].eof
        /\ c.retired = w.cli[p].retired /\ c.sink = w.cli[p].sink
    BY <1>1 DEF Process, ProcMoves, Awaited, Ids
  <1> HIDE DEF v, c
  <1>4. \A q \in Procs : /\ ProcMoves(w.cli[q], v.cli[q], New(w, {}, q))
                         /\ q # p => v.cli[q].turn = w.cli[q].turn
                         /\ v.cli[q].pending = w.cli[q].pending
                         /\ v.cli[q].sink = w.cli[q].sink
                         /\ OsMoves(w.os[q], v.os[q])
    <2> SUFFICES ASSUME NEW q \in Procs
                 PROVE  /\ ProcMoves(w.cli[q], v.cli[q], New(w, {}, q))
                        /\ q # p => v.cli[q].turn = w.cli[q].turn
                        /\ v.cli[q].pending = w.cli[q].pending
                        /\ v.cli[q].sink = w.cli[q].sink
                        /\ OsMoves(w.os[q], v.os[q])
      OBVIOUS
    <2>1. CASE q = p
      BY <1>2, <1>3, <2>1 DEF New
    <2>2. CASE q # p
      BY <1>2, <2>2 DEF ProcMoves, OsMoves, New
    <2> QED BY <2>1, <2>2
  <1>5. Answered(w, v)
    BY <1>1, <1>2, <1>4, SameTools
  <1>6. Moves(w, v, {})
    BY <1>2, <1>4, <1>5 DEF Moves, CallMoves
  <1>7. Core(v, conf)
    BY <1>2, <1>6, QuietlyCore DEF Unnamed
  <1>8. \A R : Whole(w, R) => Whole(v, R)
    BY <1>2, <1>3 DEF Whole, Awaited, Ids
  <1> QED BY <1>2, <1>3, <1>6, <1>7, <1>8 DEF v

-----------------------------------------------------------------------------
(* The steps of the CLI, and whatever else leaves the calls it holds alone.  *)

SameHold(c, d) ==
    /\ d.alive = c.alive /\ d.retired = c.retired /\ d.sink = c.sink
    /\ d.awaiting = c.awaiting /\ d.pending = c.pending /\ d.ready = c.ready
    /\ d.session = c.session

\* No call is opened or answered by pi.
Untouched(w, v) ==
    \A t \in Tools :
        /\ v.tool[t].at = "open" <=> w.tool[t].at = "open"
        /\ v.tool[t].by = "pi" => w.tool[t].by = "pi" /\ v.tool[t].of = w.tool[t].of
        /\ v.tool[t].at = "new" => v.tool[t] = w.tool[t]
        /\ w.tool[t].at # "new" => v.tool[t].p = w.tool[t].p

\* Lines are written, read and buffered; a new block may be named in one.
Lines(w, v, p) ==
    LET m == v.cli[p].buf
        n == v.os[p].out
    IN  /\ Once(m) /\ Once(n) /\ Blocks(m) \cap Blocks(n) = {}
        /\ \A t \in Blocks(m) \cup Blocks(n) :
               \/ t \in Blocks(w.cli[p].buf) \cup Blocks(w.os[p].out)
               \/ t \in Tools /\ w.tool[t].at = "new" /\ v.tool[t].p = p
        /\ v.os[p].resumed = w.os[p].resumed
        /\ v.os[p].run = "none" => w.os[p].run = "none"

Beside(w, v) ==
    /\ v \in Worlds /\ v.call = w.call /\ v.parked = w.parked /\ v.map = w.map
    /\ \A p \in Procs : SameHold(w.cli[p], v.cli[p]) /\ Lines(w, v, p)
    /\ Untouched(w, v)

LEMMA BesideCore ==
  ASSUME NEW w, NEW s, NEW r, CoreBut(w, s, r), NEW v, Beside(w, v)
  PROVE  CoreBut(v, s, r)
  <1>1. w \in Worlds /\ v \in Worlds
    BY DEF CoreBut, Base, Beside
  <1>2. \A p \in Procs : SameHold(w.cli[p], v.cli[p])
    BY DEF Beside
  <1>3. Held(v)
    <2>1. Held(w) /\ \A t \in Tools : v.tool[t].at = "open" <=> w.tool[t].at = "open"
      BY DEF CoreBut, Base, Beside, Untouched
    <2>2. \A p \in Procs : \A c \in w.cli[p].pending : c.from \in Tools
      BY <1>1 DEF Worlds, Process
    <2> QED BY <1>2, <2>1, <2>2 DEF Held, SameHold
  <1>4. Matched(v, s)
    BY <1>2 DEF CoreBut, Base, Beside, Matched, Untouched, SameHold
  <1>5. Announced(v)
    <2> SUFFICES ASSUME NEW p \in Procs
                 PROVE  /\ Once(v.cli[p].buf) /\ Once(v.os[p].out)
                        /\ Blocks(v.cli[p].buf) \cap Blocks(v.os[p].out) = {}
                        /\ (Blocks(v.cli[p].buf) \cup Blocks(v.os[p].out)) \cap Known(v.cli[p]) = {}
                        /\ v.cli[p].awaiting \cap Ids(v.cli[p]) = {}
                        /\ \A t \in Blocks(v.cli[p].buf) \cup Blocks(v.os[p].out) \cup Known(v.cli[p]) :
                               t \in Tools /\ v.tool[t].p = p
      BY DEF Announced
    <2> DEFINE Told(x) == Blocks(x.cli[p].buf) \cup Blocks(x.os[p].out)
    <2>1. /\ Told(w) \cap Known(w.cli[p]) = {}
          /\ w.cli[p].awaiting \cap Ids(w.cli[p]) = {}
          /\ \A t \in Told(w) \cup Known(w.cli[p]) : t \in Tools /\ w.tool[t].p = p
      BY DEF CoreBut, Base, Announced
    <2>2. /\ Once(v.cli[p].buf) /\ Once(v.os[p].out)
          /\ Blocks(v.cli[p].buf) \cap Blocks(v.os[p].out) = {}
          /\ \A t \in Told(v) : \/ t \in Told(w)
                                \/ t \in Tools /\ w.tool[t].at = "new" /\ v.tool[t].p = p
      BY DEF Beside, Lines
    <2>3. Known(v.cli[p]) = Known(w.cli[p]) /\ Ids(v.cli[p]) = Ids(w.cli[p])
      BY <1>2 DEF SameHold, Known, Awaited, Ids
    <2>4. p # 0
      BY CliAssumption DEF Procs
    <2>5. \A t \in Tools : w.tool[t].at = "new" => w.tool[t].p = 0
      BY DEF CoreBut, Base, Born
    <2>6. \A t \in Tools : w.tool[t].at # "new" => v.tool[t].p = w.tool[t].p
      BY DEF Beside, Untouched
    <2>7. \A t \in Told(w) \cup Known(w.cli[p]) : t \in Tools /\ v.tool[t].p = p
      BY <2>1, <2>4, <2>5, <2>6
    <2>8. Told(v) \cap Known(v.cli[p]) = {}
      BY <2>1, <2>2, <2>3, <2>4, <2>5
    <2> QED BY <1>2, <2>1, <2>2, <2>3, <2>7, <2>8 DEF SameHold
  <1>6. Born(v)
    <2>1. \A t \in Tools : v.tool[t].at = "new" => v.tool[t].p = 0
      BY DEF CoreBut, Base, Born, Beside, Untouched
    <2>2. \A p \in Procs : v.os[p].run = "none" => ~v.cli[p].alive
      BY DEF CoreBut, Base, Born, Beside, Lines, SameHold
    <2> QED BY <2>1, <2>2 DEF Born
  <1>7. Attached(v)
    BY <1>2 DEF CoreBut, Base, Beside, Attached, SameHold
  <1>8. KeptBut(v, r) /\ Free(v) /\ CallSound(v.call)
    BY <1>2 DEF CoreBut, Beside, KeptBut, SameHold, Free
  <1>9. Missed(v, s)
    <2>1. w.call.ph = "open" => w.call.p \in Procs
      <3>1. w.call.ph = "open" => w.call.p # 0
        BY DEF CoreBut, CallSound
      <3>2. w.call.p \in 0 .. MaxProcs
        BY <1>1 DEF Worlds, PiCall
      <3> QED BY <3>1, <3>2, CliAssumption DEF Procs
    <2>2. \A p \in Procs : /\ v.os[p].resumed = w.os[p].resumed
                           /\ v.cli[p].session = w.cli[p].session
      BY DEF Beside, Lines, SameHold
    <2> QED BY <2>1, <2>2 DEF CoreBut, Beside, Missed
  <1> QED BY <1>1, <1>3, <1>4, <1>5, <1>6, <1>7, <1>8, <1>9 DEF CoreBut, Base

\* A turn may end, or stdout, unless an open call is attached.
Turns(w, v) ==
    /\ v.wants = w.wants
    /\ \A p \in Procs :
           /\ v.cli[p].turn => w.cli[p].turn
           /\ w.cli[p].eof => v.cli[p].eof
           /\ Quiet(v.cli[p])
    /\ w.call.ph = "open" => /\ v.cli[w.call.p].turn = w.cli[w.call.p].turn
                             /\ v.cli[w.call.p].eof = w.cli[w.call.p].eof

LEMMA CallOf ==
  ASSUME NEW w \in Worlds, CallSound(w.call), w.call.ph \in {"think", "retire", "open", "lost"}
  PROVE  w.call.p \in Procs
  <1>1. w.call.p # 0 /\ w.call.p \in 0 .. MaxProcs
    BY DEF CallSound, Worlds, PiCall
  <1> QED BY <1>1, CliAssumption DEF Procs

LEMMA BesideGood ==
  ASSUME NEW w, NEW s, Good(w, s), NEW v, Beside(w, v), Turns(w, v)
  PROVE  Good(v, s)
  <1>1. Core(v, s)
    BY BesideCore DEF Good, Core
  <1>2. w \in Worlds /\ CallSound(w.call)
    BY DEF Good, Core, CoreBut, Base
  <1>3. \A p \in Procs : SameHold(w.cli[p], v.cli[p]) /\ Awaited(v.cli[p]) = Awaited(w.cli[p])
    BY DEF Beside, SameHold, Awaited, Ids
  <1>4. Live(v)
    <2>1. CASE w.call.ph = "open"
      <3>1. w.call.p \in Procs
        BY <1>2, <2>1, CallOf
      <3>2. Whole(w, {}) => Whole(v, {})
        BY <1>3, <2>1, <3>1 DEF Whole, Beside, Turns, SameHold
      <3> QED BY <1>3, <2>1, <3>1, <3>2 DEF Good, Live, Beside, Turns, SameHold
    <2>2. CASE w.call.ph = "think"
      <3>1. w.call.p \in Procs
        BY <1>2, <2>2, CallOf
      <3> QED BY <2>2, <3>1 DEF Good, Live, Beside, Turns
    <2> QED BY <2>1, <2>2 DEF Live, Beside
  <1>5. Owed(v)
    <2>1. w.parked # NoProc => w.parked \in Procs
      BY <1>2, CliAssumption DEF Worlds, Procs, NoProc
    <2> QED BY <1>3, <2>1 DEF Good, Owed, Runs, Beside, Turns, SameHold
  <1> QED BY <1>1, <1>4, <1>5 DEF Good, Turns

-----------------------------------------------------------------------------
(* A call that returns.                                                     *)

LEMMA CallOverCore ==
  ASSUME NEW w, NEW s, Core(w, s), w.call.ph = "open", w.call.finished,
         NEW v \in Worlds, v.cli = w.cli, v.os = w.os, v.tool = w.tool,
         v.parked = w.parked, v.map = w.map,
         v.call.ph \in {"none", "start"}, CallSound(v.call),
         v.call.force => ~s.piOwned /\ (v.call.ph = "start" => v.map = 0)
  PROVE  Core(v, s)
  <1>1. Base(v, s)
    BY SMTT(20) DEF Core, CoreBut, Base, Held, Matched, Announced, Born, Attached
  <1>2. KeptBut(v, NoProc) /\ Free(v)
    BY DEF Core, CoreBut, KeptBut, Free, Serves, Engaged
  <1>3. Missed(v, s)
    BY DEF Core, CoreBut, Missed
  <1> QED BY <1>1, <1>2, <1>3 DEF Core, CoreBut

LEMMA NoCallTyped == NoCall \in PiCall
  <1>1. 0 \in 0 .. MaxCalls /\ 0 \in 0 .. MaxProcs /\ 0 \in Nat
    BY CliAssumption
  <1>2. "none" \in Phases /\ "spawn" \in {"spawn", "turn", "handoff"}
    BY DEF Phases
  <1> QED BY <1>1, <1>2 DEF NoCall, PiCall

LEMMA AgainTyped ==
  ASSUME NEW c \in PiCall, NEW d \in PiCall
  PROVE  [d EXCEPT !.ph = "start", !.n = c.n, !.force = TRUE, !.results = c.results,
                   !.user = c.user, !.aborted = c.aborted, !.by = c.n] \in PiCall
  <1>1. /\ c.n \in 0 .. MaxCalls /\ c.results \in SUBSET Tools /\ c.user \in BOOLEAN
        /\ c.aborted \in BOOLEAN
    BY DEF PiCall
  <1>2. "start" \in Phases
    BY DEF Phases
  <1> DEFINE x == c.n
             r == c.results
             y == c.user
             a == c.aborted
  <1> HIDE DEF x, r, y, a
  <1>3. /\ x \in 0 .. MaxCalls /\ r \in SUBSET Tools /\ y \in BOOLEAN /\ a \in BOOLEAN
    BY <1>1 DEF x, r, y, a
  <1>4. [d EXCEPT !.ph = "start", !.n = x, !.force = TRUE, !.results = r,
                  !.user = y, !.aborted = a, !.by = x] \in PiCall
    BY <1>2, <1>3 DEF PiCall
  <1> QED BY <1>4 DEF x, r, y, a

\* pi goes on with the tools that the process of the call waits on, if any.
LEMMA SettleGood ==
  ASSUME NEW w, Core(w, conf), w.call.ph = "open", Whole(w, {}),
         \A p \in Procs : Quiet(w.cli[p]),
         \/ w.call.finished
         \/ /\ w.cli[w.call.p].sink /\ w.cli[w.call.p].alive /\ ~w.cli[w.call.p].eof
            /\ w.cli[w.call.p].turn \/ w.cli[w.call.p].retired
  PROVE  Good(Settle(w), conf)
  <1> DEFINE c == w.call
             again == [NoCall EXCEPT !.ph = "start", !.n = c.n, !.force = TRUE,
                                     !.results = c.results, !.user = c.user,
                                     !.aborted = c.aborted, !.by = c.n]
             over == [c EXCEPT !.ph = "none", !.timer = FALSE, !.ended = EndedBy(@)]
             rest == IF c.timer THEN w.stray \cup {[p |-> c.p, waits |-> c.waiting]}
                     ELSE w.stray
             left == IF c.ended = 0 /\ c.toolUse /\ ~c.aborted THEN c.tools ELSE {}
             v == Settle(w)
  <1>1. w \in Worlds /\ c \in PiCall /\ CallSound(c) /\ Missed(w, conf)
    BY DEF Core, CoreBut, Base, Worlds
  <1>2. c.p \in Procs
    BY <1>1, CallOf
  <1>3. CASE ~c.finished
    <2>1. v = w
      BY <1>3 DEF Settle
    <2> QED BY <1>3, <2>1 DEF Good, Live, Owed
  <1>4. CASE c.finished /\ c.miss
    <2>1. v = WithCall(w, again)
      BY <1>1, <1>4 DEF Settle, WithCall, Worlds
    <2>2. again \in PiCall
      BY <1>1, NoCallTyped, AgainTyped
    <2>3. /\ again.ph = "start" /\ again.n = c.n /\ again.force /\ ~again.finished
          /\ ~again.miss /\ ~again.saw /\ ~again.selfInt /\ ~again.toolUse
          /\ again.tools = {} /\ again.ended = 0
      BY DEF NoCall
    <2> HIDE DEF again
    <2>4. /\ v \in Worlds /\ v.call = again
          /\ v.cli = w.cli /\ v.os = w.os /\ v.tool = w.tool /\ v.parked = w.parked
          /\ v.map = w.map /\ v.stray = w.stray /\ v.wants = w.wants
      BY <1>1, <2>1, <2>2, WithCallIs
    <2> HIDE DEF v
    <2>5. CallSound(again)
      BY <1>1, <2>3 DEF CallSound
    <2>6. w.map = 0 /\ ~conf.piOwned /\ w.parked = NoProc
      BY <1>1, <1>4 DEF Missed
    <2>7. Core(v, conf)
      BY <1>4, <2>3, <2>4, <2>5, <2>6, CallOverCore
    <2>8. Live(v) /\ Owed(v)
      BY <2>3, <2>4, <2>6 DEF Live, Owed
    <2> QED BY <2>4, <2>7, <2>8 DEF Good, v
  <1>5. CASE c.finished /\ ~c.miss
    <2> DEFINE u == WithCall(w, over)
    <2>1. v = [u EXCEPT !.stray = rest, !.wants = left]
      <3>1. v = [w EXCEPT !.call.ph = "none", !.call.timer = FALSE,
                          !.call.ended = EndedBy(@), !.stray = rest, !.wants = left]
        BY <1>5 DEF Settle
      <3> HIDE DEF rest, left
      <3> QED BY <1>1, <3>1 DEF WithCall, Worlds, PiCall
    <2>2. EndedBy(c.ended) = 1
      BY <1>1 DEF CallSound, EndedBy, PiCall
    <2>3. over \in PiCall
      <3>1. [c EXCEPT !.ph = "none", !.timer = FALSE, !.ended = 1] \in PiCall
        BY <1>1 DEF PiCall, Phases
      <3> QED BY <1>1, <2>2, <3>1 DEF PiCall
    <2>4. /\ over.ph = "none" /\ over.n = c.n /\ over.p = c.p /\ over.force = c.force
          /\ over.ended = 1 /\ over.saw = c.saw /\ over.tools = c.tools
      BY <1>1, <2>2 DEF PiCall
    <2>5. rest \in SUBSET [p : Procs, waits : BOOLEAN] /\ left \in SUBSET Tools
      BY <1>1, <1>2 DEF Worlds, PiCall
    <2>6. left # {} => left = c.tools
      OBVIOUS
    <2> HIDE DEF over, rest, left
    <2>7. /\ u \in Worlds /\ u.call = over
          /\ u.cli = w.cli /\ u.os = w.os /\ u.tool = w.tool /\ u.parked = w.parked
          /\ u.map = w.map /\ u.stray = w.stray /\ u.wants = w.wants
      BY <1>1, <2>3, WithCallIs
    <2> HIDE DEF u
    <2>8. /\ v \in Worlds /\ v.call = over
          /\ v.cli = w.cli /\ v.os = w.os /\ v.tool = w.tool /\ v.parked = w.parked
          /\ v.map = w.map /\ v.wants = left
      BY ONLY <2>1, <2>5, <2>7 DEF Worlds
    <2> HIDE DEF v
    <2>9. CallSound(over)
      BY <1>1, <2>4 DEF CallSound
    <2>10. Core(v, conf)
      BY <1>1, <1>5, <2>4, <2>8, <2>9, CallOverCore DEF Missed
    <2>11. Owed(v)
      <3>1. w.parked \in {NoProc, c.p}
        BY DEF Core, CoreBut, Free
      <3>2. \/ w.cli[c.p].eof \/ w.cli[c.p].retired
            \/ Awaited(w.cli[c.p]) \subseteq c.tools
        BY <1>5 DEF Whole
      <3> QED BY <2>4, <2>6, <2>8, <3>1, <3>2 DEF Owed, Runs
    <2>12. Live(v)
      BY <2>4, <2>8 DEF Live
    <2> QED BY <2>8, <2>10, <2>11, <2>12 DEF Good, v
  <1> QED BY <1>3, <1>4, <1>5

\* What is quiet stays so, but for the process of the call.
LEMMA QuietMoves ==
  ASSUME NEW w, NEW v, NEW T, Moves(w, v, T), \A p \in Procs : Quiet(w.cli[p])
  PROVE  \A p \in Procs : p # w.call.p => Quiet(v.cli[p])
  <1> SUFFICES ASSUME NEW p \in Procs, p # w.call.p PROVE Quiet(v.cli[p])
    OBVIOUS
  <1>1. ProcMoves(w.cli[p], v.cli[p], {}) /\ v.cli[p].turn = w.cli[p].turn
    BY DEF Moves, New
  <1>2. Quiet(w.cli[p])
    OBVIOUS
  <1> QED BY <1>1, <1>2 DEF ProcMoves, Quiet

\* An episode that is over for a process that is retired or has ended.
LEMMA OverGood ==
  ASSUME NEW w, Core(w, conf), w.call.ph = "open", w.call.finished,
         w.cli[w.call.p].retired \/ w.cli[w.call.p].eof,
         \A p \in Procs : p # w.call.p => Quiet(w.cli[p])
  PROVE  Good(Settle(w), conf)
  <1>1. Whole(w, {})
    BY DEF Whole
  <1>2. \A p \in Procs : Quiet(w.cli[p])
    BY DEF Quiet
  <1> QED BY <1>1, <1>2, SettleGood

-----------------------------------------------------------------------------
(* A call that is attached.                                                 *)

\* What a call needs of the world in which it attaches to p.
Ready(w, p, mode) ==
    LET c == w.cli[p]
        R == IF mode = "handoff" THEN w.call.results ELSE {}
    IN  /\ Base(w, conf) /\ CallSound(w.call) /\ w.parked = NoProc
        /\ w.call.ph \in {"start", "think", "retire"}
        /\ \A q \in Procs \ {p} : w.cli[q].alive => w.cli[q].retired
        /\ \A q \in Procs : w.os[q].resumed => ~conf.piOwned
        /\ w.call.force => ~conf.piOwned /\ ~w.os[p].resumed /\ w.map = c.session
        /\ mode # "turn" => c.turn
        /\ R \subseteq Awaited(c)
        /\ c.retired \/ c.eof \/ Awaited(c) \subseteq R
        /\ \A q \in Procs : Quiet(w.cli[q])

Taken(w, p, mode) ==
    [w EXCEPT !.cli[p].idle = "off", !.cli[p].sink = TRUE, !.cli[p].buf = <<>>,
              !.call.ph = "open", !.call.p = p, !.call.mode = mode]

Modes == {"spawn", "turn", "handoff"}

TakenProc(c) == [c EXCEPT !.idle = "off", !.sink = TRUE, !.buf = <<>>]
TakenCall(d, p, mode) == [d EXCEPT !.ph = "open", !.p = p, !.mode = mode]

LEMMA TakenIs ==
  ASSUME NEW w \in Worlds, NEW p \in Procs, NEW mode \in Modes
  PROVE  /\ Taken(w, p, mode) \in Worlds
         /\ Taken(w, p, mode).cli[p] = TakenProc(w.cli[p])
         /\ Taken(w, p, mode).call = TakenCall(w.call, p, mode)
         /\ TakenProc(w.cli[p]) \in Process /\ TakenCall(w.call, p, mode) \in PiCall
         /\ \A q \in Procs \ {p} : Taken(w, p, mode).cli[q] = w.cli[q]
         /\ Taken(w, p, mode).os = w.os /\ Taken(w, p, mode).tool = w.tool
         /\ Taken(w, p, mode).parked = w.parked /\ Taken(w, p, mode).map = w.map
         /\ Taken(w, p, mode).stray = w.stray /\ Taken(w, p, mode).wants = w.wants
  <1> DEFINE c == TakenProc(w.cli[p])
             d == TakenCall(w.call, p, mode)
             x == [w EXCEPT !.cli[p].idle = "off", !.cli[p].sink = TRUE, !.cli[p].buf = <<>>]
             u == WithProc(w, p, c)
             v == WithCall(u, d)
  <1>1. w.cli[p] \in Process /\ w.call \in PiCall
    BY DEF Worlds
  <1>2. c \in Process
    <2>1. <<>> \in Seq(Line)
      OBVIOUS
    <2> QED BY <1>1, <2>1 DEF Process, TakenProc
  <1>3. d \in PiCall
    <2>1. p \in 0 .. MaxProcs /\ "open" \in Phases
      BY CliAssumption DEF Procs, Phases
    <2> QED BY <1>1, <2>1 DEF PiCall, Modes, TakenCall
  <1>4. Taken(w, p, mode) = [x EXCEPT !.call.ph = "open", !.call.p = p, !.call.mode = mode]
    BY DEF Taken
  <1>5. x = u
    BY <1>1 DEF WithProc, Worlds, TakenProc
  <1> HIDE DEF x, c
  <1>6. /\ u \in Worlds /\ u.cli[p] = c /\ \A q \in Procs \ {p} : u.cli[q] = w.cli[q]
        /\ u.os = w.os /\ u.tool = w.tool /\ u.call = w.call /\ u.parked = w.parked
        /\ u.map = w.map /\ u.stray = w.stray /\ u.wants = w.wants
    BY <1>2, WithProcIs
  <1> HIDE DEF u
  <1>7. Taken(w, p, mode) = v
    <2>1. v = [u EXCEPT !.call = [u.call EXCEPT !.ph = "open", !.p = p, !.mode = mode]]
      BY <1>6 DEF WithCall, TakenCall
    <2>2. [u EXCEPT !.call.ph = "open", !.call.p = p, !.call.mode = mode]
          = [u EXCEPT !.call = [u.call EXCEPT !.ph = "open", !.p = p, !.mode = mode]]
      BY <1>6 DEF Worlds
    <2> QED BY <1>4, <1>5, <2>1, <2>2
  <1> HIDE DEF d
  <1>8. /\ v \in Worlds /\ v.call = d /\ v.cli = u.cli /\ v.os = w.os /\ v.tool = w.tool
        /\ v.parked = w.parked /\ v.map = w.map /\ v.stray = w.stray /\ v.wants = w.wants
    BY <1>3, <1>6, WithCallIs
  <1> HIDE DEF v
  <1> QED BY ONLY <1>2, <1>3, <1>6, <1>7, <1>8 DEF c, d

LEMMA NoLines == Blocks(<<>>) = {} /\ Once(<<>>)
  BY DEF Blocks, Once

LEMMA TakenCore ==
  ASSUME NEW w, NEW p \in Procs, NEW mode \in Modes, Ready(w, p, mode), ~w.cli[p].retired
  PROVE  LET v == Taken(w, p, mode)
             R == IF mode = "handoff" THEN w.call.results ELSE {}
         IN  /\ Core(v, conf) /\ Untold(v, Blocks(w.cli[p].buf)) /\ Unnamed(v, R)
             /\ Whole(v, R) /\ \A q \in Procs : Quiet(v.cli[q])
  <1> DEFINE v == Taken(w, p, mode)
             R == IF mode = "handoff" THEN w.call.results ELSE {}
             c == TakenProc(w.cli[p])
             d == TakenCall(w.call, p, mode)
  <1>1. w \in Worlds /\ Base(w, conf) /\ w.cli[p] \in Process /\ w.call \in PiCall
    BY DEF Ready, Base, Worlds
  <1>2. /\ v \in Worlds /\ v.cli[p] = c /\ v.call = d
        /\ \A q \in Procs \ {p} : v.cli[q] = w.cli[q]
        /\ v.os = w.os /\ v.tool = w.tool /\ v.parked = w.parked /\ v.map = w.map
    <2>1. p \in Procs /\ mode \in Modes
      OBVIOUS
    <2> QED BY ONLY <1>1, <2>1, TakenIs
  <1>3. /\ c.alive = w.cli[p].alive /\ c.retired = w.cli[p].retired /\ c.turn = w.cli[p].turn
        /\ c.eof = w.cli[p].eof /\ c.buf = <<>> /\ c.awaiting = w.cli[p].awaiting
        /\ c.pending = w.cli[p].pending /\ c.ready = w.cli[p].ready
        /\ c.session = w.cli[p].session
    BY <1>1 DEF Process, TakenProc
  <1>4. /\ d.ph = "open" /\ d.p = p /\ d.n = w.call.n /\ d.finished = w.call.finished
        /\ d.miss = w.call.miss /\ d.saw = w.call.saw /\ d.tools = w.call.tools
        /\ d.ended = w.call.ended /\ d.force = w.call.force
    BY <1>1 DEF PiCall, TakenCall
  <1> HIDE DEF c, d, v
  <1>5. /\ Awaited(c) = Awaited(w.cli[p]) /\ Known(c) = Known(w.cli[p])
        /\ Ids(c) = Ids(w.cli[p])
    BY <1>3 DEF Awaited, Known, Ids
  <1>6. /\ ~w.call.finished /\ ~w.call.miss /\ ~w.call.saw /\ w.call.tools = {}
        /\ w.call.ended = 0 /\ w.call.n # 0 /\ \A q \in Procs : ~w.cli[q].sink
    BY DEF Ready, CallSound, Base, Attached
  <1>7. p # 0
    BY CliAssumption DEF Procs
  <1>8. Held(v)
    <2>1. \A q \in Procs : /\ v.cli[q].pending = w.cli[q].pending
                           /\ v.cli[q].alive = w.cli[q].alive
                           /\ v.cli[q].retired = w.cli[q].retired
      BY <1>2, <1>3
    <2> QED BY <1>1, <1>2, <2>1 DEF Base, Held
  <1>9. Matched(v, conf)
    <2>1. \A q \in Procs : v.cli[q].pending = w.cli[q].pending
      BY <1>2, <1>3
    <2> QED BY <1>1, <1>2, <2>1 DEF Base, Matched
  <1>10. Announced(v)
    <2> SUFFICES ASSUME NEW q \in Procs
                 PROVE  /\ Once(v.cli[q].buf) /\ Once(v.os[q].out)
                        /\ Blocks(v.cli[q].buf) \cap Blocks(v.os[q].out) = {}
                        /\ (Blocks(v.cli[q].buf) \cup Blocks(v.os[q].out)) \cap Known(v.cli[q]) = {}
                        /\ v.cli[q].awaiting \cap Ids(v.cli[q]) = {}
                        /\ \A t \in Blocks(v.cli[q].buf) \cup Blocks(v.os[q].out) \cup Known(v.cli[q]) :
                               t \in Tools /\ v.tool[t].p = q
      BY DEF Announced
    <2>1. /\ Once(w.cli[q].buf) /\ Once(w.os[q].out)
          /\ Blocks(w.cli[q].buf) \cap Blocks(w.os[q].out) = {}
          /\ (Blocks(w.cli[q].buf) \cup Blocks(w.os[q].out)) \cap Known(w.cli[q]) = {}
          /\ w.cli[q].awaiting \cap Ids(w.cli[q]) = {}
          /\ \A t \in Blocks(w.cli[q].buf) \cup Blocks(w.os[q].out) \cup Known(w.cli[q]) :
                t \in Tools /\ w.tool[t].p = q
      BY <1>1 DEF Base, Announced
    <2>2. CASE q = p
      BY <1>2, <1>3, <1>5, <2>1, <2>2, NoLines
    <2>3. CASE q # p
      BY <1>2, <2>1, <2>3
    <2> QED BY <2>2, <2>3
  <1>11. Born(v)
    <2>1. \A q \in Procs : v.cli[q].alive = w.cli[q].alive
      BY <1>2, <1>3
    <2> QED BY <1>1, <1>2, <2>1 DEF Base, Born
  <1>12. Attached(v)
    BY <1>2, <1>4, <1>6 DEF Attached
  <1>13. KeptBut(v, NoProc)
    BY <1>2, <1>4, <1>6 DEF Ready, KeptBut, Serves
  <1>14. Free(v)
    BY <1>2 DEF Ready, Free
  <1>15. CallSound(v.call)
    BY <1>2, <1>4, <1>6, <1>7 DEF CallSound
  <1>16. Missed(v, conf)
    BY <1>2, <1>3, <1>4, <1>6 DEF Ready, Missed
  <1>17. Core(v, conf)
    BY <1>2, <1>8, <1>9, <1>10, <1>11, <1>12, <1>13, <1>14, <1>15, <1>16
       DEF Core, CoreBut, Base
  <1>18. /\ (Blocks(w.cli[p].buf) \cup Blocks(w.os[p].out)) \cap Known(w.cli[p]) = {}
         /\ Blocks(w.cli[p].buf) \cap Blocks(w.os[p].out) = {}
         /\ \A t \in Blocks(w.cli[p].buf) \cup Blocks(w.os[p].out) \cup Known(w.cli[p]) :
                t \in Tools /\ w.tool[t].p = p
    BY <1>1 DEF Base, Announced
  <1>19. Untold(v, Blocks(w.cli[p].buf))
    BY <1>2, <1>3, <1>4, <1>5, <1>18, NoLines DEF Untold, Unnamed, Known, Awaited
  <1>20. Unnamed(v, R)
    <2>1. R \subseteq Known(w.cli[p])
      BY DEF Ready, Known
    <2> HIDE DEF R
    <2> QED BY <1>2, <1>3, <1>4, <1>18, <2>1, NoLines DEF Unnamed
  <1>21. Whole(v, R)
    <2>1. w.cli[p].eof \/ Awaited(w.cli[p]) \subseteq R
      BY DEF Ready
    <2> HIDE DEF R
    <2> QED BY <1>2, <1>3, <1>4, <1>5, <2>1 DEF Whole
  <1>22. \A q \in Procs : Quiet(v.cli[q])
    <2>1. \A q \in Procs : Quiet(w.cli[q])
      BY DEF Ready
    <2>2. Quiet(c)
      BY <1>3, <1>5, <2>1 DEF Quiet
    <2> QED BY <1>2, <2>1, <2>2
  <1> QED BY <1>17, <1>19, <1>20, <1>21, <1>22 DEF v

\* The call that finds its process retired returns at once.
LEMMA RetiredGood ==
  ASSUME NEW w, NEW p \in Procs, NEW mode, Ready(w, p, mode), w.cli[p].retired
  PROVE  Good([w EXCEPT !.call.ended = @ + 1, !.call.ph = "none", !.wants = {}], conf)
  <1> DEFINE d == [w.call EXCEPT !.ended = @ + 1, !.ph = "none"]
             u == WithCall(w, d)
             v == [u EXCEPT !.wants = {}]
  <1>1. w \in Worlds /\ w.call \in PiCall
    BY DEF Ready, Base, Worlds
  <1>2. /\ ~w.call.finished /\ ~w.call.miss /\ ~w.call.saw /\ w.call.tools = {}
        /\ w.call.ended = 0 /\ w.call.n # 0 /\ \A q \in Procs : ~w.cli[q].sink
    BY DEF Ready, CallSound, Base, Attached
  <1>3. d \in PiCall
    <2>1. [w.call EXCEPT !.ended = 1, !.ph = "none"] \in PiCall
      BY <1>1 DEF PiCall, Phases
    <2>2. w.call.ended + 1 = 1
      BY <1>2
    <2> QED BY <2>1, <2>2
  <1>4. d.ph = "none" /\ d.ended = 1 /\ d.tools = {} /\ d.n # 0 /\ d.force = w.call.force
    BY <1>1, <1>2 DEF PiCall
  <1>5. [w EXCEPT !.call.ended = @ + 1, !.call.ph = "none", !.wants = {}] = v
    BY <1>1 DEF WithCall, Worlds
  <1> HIDE DEF d
  <1>6. /\ u \in Worlds /\ u.call = d
        /\ u.cli = w.cli /\ u.os = w.os /\ u.tool = w.tool /\ u.parked = w.parked
        /\ u.map = w.map /\ u.stray = w.stray /\ u.wants = w.wants
    BY <1>1, <1>3, WithCallIs
  <1> HIDE DEF u
  <1>7. /\ v \in Worlds /\ v.call = d /\ v.cli = w.cli /\ v.os = w.os /\ v.tool = w.tool
        /\ v.parked = w.parked /\ v.map = w.map
    BY <1>6 DEF Worlds
  <1> HIDE DEF v
  <1>8. Base(v, conf)
    <2>1. Base(w, conf)
      BY DEF Ready
    <2>2. Held(v) /\ Matched(v, conf)
      BY <1>7, <2>1 DEF Base, Held, Matched
    <2>3. Announced(v) /\ Born(v)
      BY <1>7, <2>1 DEF Base, Announced, Born
    <2>4. Attached(v)
      BY <1>2, <1>7 DEF Attached
    <2> QED BY <1>7, <2>2, <2>3, <2>4 DEF Base
  <1>9. KeptBut(v, NoProc) /\ Free(v)
    BY <1>4, <1>7 DEF Ready, KeptBut, Free, Serves, Engaged
  <1>10. CallSound(v.call)
    BY <1>4, <1>7 DEF CallSound
  <1>11. Missed(v, conf)
    BY <1>4, <1>7 DEF Ready, Missed
  <1>12. Live(v) /\ Owed(v)
    BY <1>4, <1>7 DEF Ready, Live, Owed
  <1> QED BY <1>5, <1>7, <1>8, <1>9, <1>10, <1>11, <1>12 DEF Ready, Good, Core, CoreBut

\* What is said to the CLI of a call just attached leaves all in order.
LEMMA SaidGood ==
  ASSUME NEW w, Core(w, conf), w.call.ph = "open", w.call.p \in Procs, NEW mode \in Modes,
         mode = "handoff" => Unnamed(w, w.call.results),
         Whole(w, IF mode = "handoff" THEN w.call.results ELSE {}),
         \A q \in Procs : q # w.call.p => Quiet(w.cli[q]),
         \/ w.call.finished /\ (w.cli[w.call.p].retired \/ w.cli[w.call.p].eof
                                \/ mode = "turn" \/ w.cli[w.call.p].turn)
         \/ /\ w.cli[w.call.p].sink /\ w.cli[w.call.p].alive /\ ~w.cli[w.call.p].eof
            /\ mode = "turn" \/ w.cli[w.call.p].turn,
         NEW v, v = CASE mode = "handoff" -> DeliverResults(w, w.call.p, w.call.results)
                      [] mode = "turn"    -> WriteUser(w, w.call.p)
                      [] mode = "spawn"   -> w
  PROVE  Good(Settle(v), conf)
  <1> DEFINE p == w.call.p
             R == IF mode = "handoff" THEN w.call.results ELSE {}
  <1>1. w \in Worlds /\ w.call.results \in SUBSET Tools
    BY DEF Core, CoreBut, Base, Worlds, PiCall
  <1>2. /\ Core(v, conf) /\ Moves(w, v, R) /\ v.call = w.call /\ Whole(v, {})
        /\ v.cli[p].turn \/ (mode # "turn" /\ v.cli[p].turn = w.cli[p].turn)
        /\ v.cli[p].sink = w.cli[p].sink /\ v.cli[p].retired = w.cli[p].retired
    <2>1. CASE mode = "handoff"
      <3>1. v = DeliverResults(w, p, w.call.results)
        BY <2>1
      <3> QED BY <1>1, <2>1, <3>1, DeliverCore
    <2>2. CASE mode = "turn"
      <3>1. v = WriteUser(w, p)
        BY <2>2
      <3> QED BY <2>2, <3>1, WriteUserCore
    <2>3. CASE mode = "spawn"
      <3>1. v = w
        BY <2>3
      <3> QED BY <1>1, <2>3, <3>1, MovesNothing
    <2> QED BY <2>1, <2>2, <2>3 DEF Modes
  <1>3. v.cli[p].alive = w.cli[p].alive /\ v.cli[p].eof = w.cli[p].eof
    BY <1>2 DEF Moves, ProcMoves
  <1>4. \A q \in Procs : q # p => Quiet(v.cli[q])
    <2> SUFFICES ASSUME NEW q \in Procs, q # p PROVE Quiet(v.cli[q])
      OBVIOUS
    <2>1. ProcMoves(w.cli[q], v.cli[q], {}) /\ v.cli[q].turn = w.cli[q].turn
      BY <1>2 DEF Moves, New
    <2>2. Quiet(w.cli[q])
      OBVIOUS
    <2> QED BY <2>1, <2>2 DEF ProcMoves, Quiet
  <1>5. Quiet(v.cli[p])
    BY <1>2, <1>3 DEF Quiet
  <1>6. \A q \in Procs : Quiet(v.cli[q])
    BY <1>4, <1>5
  <1> QED BY <1>2, <1>3, <1>6, SettleGood

LEMMA AttachGood ==
  ASSUME NEW w, NEW p \in Procs, NEW mode \in Modes, Ready(w, p, mode), ~w.call.aborted
  PROVE  Good(Attach(w, p, mode), conf)
  <1>1. CASE w.cli[p].retired
    <2>1. Attach(w, p, mode)
          = [w EXCEPT !.call.ended = @ + 1, !.call.ph = "none", !.wants = {}]
      BY <1>1 DEF Attach
    <2> QED BY <1>1, <2>1, RetiredGood
  <1>2. CASE ~w.cli[p].retired
    <2> DEFINE c == w.cli[p]
               R == IF mode = "handoff" THEN w.call.results ELSE {}
               on == Taken(w, p, mode)
               fed == Fed(on, c.buf)
               over == ~c.alive \/ c.eof
               eof == IF over THEN OnClose(fed, ~c.alive /\ w.os[p].run = "crashed") ELSE fed
               armed == Arm(eof)
               said == CASE mode = "handoff" -> DeliverResults(armed, p, w.call.results)
                         [] mode = "turn"    -> WriteUser(armed, p)
                         [] mode = "spawn"   -> armed
    <2>1. Attach(w, p, mode) = Settle(said)
      BY <1>2 DEF Attach, Taken
    <2>2. /\ Core(on, conf) /\ Untold(on, Blocks(c.buf)) /\ Unnamed(on, R)
          /\ Whole(on, R) /\ \A q \in Procs : Quiet(on.cli[q])
      BY <1>2, TakenCore
    <2>3. w \in Worlds /\ c \in Process /\ w.call \in PiCall
      BY DEF Ready, Base, Worlds
    <2>4. /\ on.call.ph = "open" /\ on.call.p = p /\ on.call.results = w.call.results
          /\ on.call.aborted = w.call.aborted
          /\ on.cli[p].sink /\ on.cli[p].alive = c.alive /\ on.cli[p].eof = c.eof
          /\ on.cli[p].turn = c.turn
      <3>1. on.cli[p] = TakenProc(c) /\ on.call = TakenCall(w.call, p, mode)
        BY <2>3, TakenIs
      <3>2. /\ TakenProc(c).sink /\ TakenProc(c).alive = c.alive
            /\ TakenProc(c).eof = c.eof /\ TakenProc(c).turn = c.turn
        BY <2>3 DEF TakenProc, Process
      <3> DEFINE d == TakenCall(w.call, p, mode)
      <3>3. /\ d.ph = "open" /\ d.p = p /\ d.results = w.call.results
            /\ d.aborted = w.call.aborted
        BY <2>3 DEF TakenCall, PiCall
      <3> HIDE DEF on, c
      <3> QED BY <3>1, <3>2, <3>3
    <2>5. c.buf \in Seq(Line) /\ R \in SUBSET Tools /\ on \in Worlds
      BY <2>2, <2>3 DEF Process, PiCall, Core, CoreBut, Base
    <2>6. mode = "turn" \/ c.turn
      BY DEF Ready
    <2> HIDE DEF on, c
    <2>7. Core(fed, conf) /\ Moves(on, fed, Blocks(c.buf)) /\ Whole(fed, R)
      BY <2>2, <2>4, <2>5, FedHeard
    <2>8. fed.call.ph = "open" /\ fed.call.p = p
      BY <2>4, <2>7 DEF Moves, CallMoves
    <2> HIDE DEF fed
    <2>9. /\ Core(eof, conf) /\ Moves(fed, eof, {}) /\ Whole(eof, R)
          /\ over => eof.call.finished
      <3>1. CASE over
        BY <2>5, <2>7, <2>8, <3>1, OnCloseCore
      <3>2. CASE ~over
        <4>1. fed \in Worlds
          BY <2>7 DEF Core, CoreBut, Base
        <4> QED BY <2>7, <3>2, <4>1, MovesNothing
      <3> QED BY <3>1, <3>2
    <2> HIDE DEF eof
    <2>10. eof.call.ph = "open" /\ eof.call.p = p
      BY <2>8, <2>9 DEF Moves, CallMoves
    <2>11. Core(armed, conf) /\ Moves(eof, armed, {}) /\ Whole(armed, R)
           /\ armed.call = [eof.call EXCEPT !.timer = TRUE]
      BY <2>9, <2>10, ArmedCore
    <2> HIDE DEF armed
    <2>12. Moves(on, armed, Blocks(c.buf))
      <3>1. Moves(on, eof, Blocks(c.buf) \cup {})
        BY <2>5, <2>7, <2>9, MovesTwice
      <3>2. Moves(on, armed, (Blocks(c.buf) \cup {}) \cup {})
        BY <2>5, <2>11, <3>1, MovesTwice
      <3> QED BY <3>2
    <2>13. /\ armed.call.ph = "open" /\ armed.call.p = p
           /\ armed.call.results = w.call.results
           /\ armed.cli[p].alive = c.alive /\ armed.cli[p].eof = c.eof
           /\ c.turn => armed.cli[p].turn
           /\ ~armed.call.finished => armed.cli[p].sink
      BY <2>4, <2>12 DEF Moves, CallMoves, ProcMoves
    <2>14. over => armed.call.finished
      <3>1. eof.call \in PiCall
        BY <2>9 DEF Core, CoreBut, Base, Worlds
      <3> QED BY <2>9, <2>11, <3>1 DEF PiCall
    <2>15. mode = "handoff" => Unnamed(armed, armed.call.results)
      <3> SUFFICES ASSUME mode = "handoff" PROVE Unnamed(armed, armed.call.results)
        OBVIOUS
      <3>1. Unnamed(on, w.call.results)
        BY <2>2
      <3> QED BY <2>4, <2>12, <2>13, <3>1 DEF Unnamed, Moves, ProcMoves, OsMoves, Answered
    <2>16. \A q \in Procs : q # p => Quiet(armed.cli[q])
      BY <2>2, <2>4, <2>12, QuietMoves
    <2>17. Whole(armed, IF mode = "handoff" THEN armed.call.results ELSE {})
      BY <2>11, <2>13
    <2>18. \/ armed.call.finished /\ (armed.cli[p].retired \/ armed.cli[p].eof
                                     \/ mode = "turn" \/ armed.cli[p].turn)
           \/ /\ armed.cli[p].sink /\ armed.cli[p].alive /\ ~armed.cli[p].eof
              /\ mode = "turn" \/ armed.cli[p].turn
      BY <2>6, <2>13, <2>14
    <2>19. said = CASE mode = "handoff" -> DeliverResults(armed, armed.call.p, armed.call.results)
                    [] mode = "turn"    -> WriteUser(armed, armed.call.p)
                    [] mode = "spawn"   -> armed
      BY <2>13
    <2> HIDE DEF said
    <2>20. Good(Settle(said), conf)
      BY ONLY <2>11, <2>13, <2>15, <2>16, <2>17, <2>18, <2>19, SaidGood, mode \in Modes, p \in Procs
    <2> QED BY <2>1, <2>20
  <1> QED BY <1>1, <1>2

\* The processes and their calls do not depend on which call is made.
LEMMA BaseCall ==
  ASSUME NEW w, NEW s, Base(w, s), NEW v \in Worlds, v.cli = w.cli, v.tool = w.tool,
         \A q \in Procs : OsMoves(w.os[q], v.os[q]), Attached(v)
  PROVE  Base(v, s)
  <1>1. Held(v) /\ Matched(v, s)
    BY DEF Base, Held, Matched
  <1>2. \A q \in Procs : v.os[q].out = w.os[q].out /\ (v.os[q].run = "none" <=> w.os[q].run = "none")
    BY DEF OsMoves
  <1>3. Announced(v) /\ Born(v)
    BY <1>2 DEF Base, Announced, Born
  <1> QED BY <1>1, <1>3 DEF Base

\* The call takes p without attaching to it.
MineCall(c, p, ph) == [c EXCEPT !.p = p, !.ph = ph]

LEMMA MineIs ==
  ASSUME NEW w \in Worlds, NEW p \in Procs
  PROVE  LET v == [w EXCEPT !.call.p = p, !.call.ph = "open", !.wants = {}]
             d == MineCall(w.call, p, "open")
         IN  /\ v \in Worlds /\ v.call = d /\ d \in PiCall /\ d.p = p /\ d.ph = "open"
             /\ v.cli = w.cli /\ v.os = w.os /\ v.tool = w.tool /\ v.parked = w.parked
             /\ v.map = w.map /\ v.stray = w.stray
             /\ d.n = w.call.n /\ d.finished = w.call.finished /\ d.miss = w.call.miss
             /\ d.saw = w.call.saw /\ d.tools = w.call.tools /\ d.ended = w.call.ended
             /\ d.force = w.call.force
  <1> DEFINE d == MineCall(w.call, p, "open")
             u == WithCall(w, d)
             v == [u EXCEPT !.wants = {}]
  <1>1. w.call \in PiCall /\ p \in 0 .. MaxProcs /\ "open" \in Phases
    BY CliAssumption DEF Worlds, Procs, Phases
  <1>2. d \in PiCall
    BY <1>1 DEF PiCall, MineCall
  <1>3. /\ d.p = p /\ d.ph = "open"
        /\ d.n = w.call.n /\ d.finished = w.call.finished /\ d.miss = w.call.miss
        /\ d.saw = w.call.saw /\ d.tools = w.call.tools /\ d.ended = w.call.ended
        /\ d.force = w.call.force
    BY <1>1 DEF PiCall, MineCall
  <1>4. [w EXCEPT !.call.p = p, !.call.ph = "open", !.wants = {}] = v
    BY <1>1 DEF WithCall, Worlds, MineCall
  <1> HIDE DEF d
  <1>5. /\ u \in Worlds /\ u.call = d
        /\ u.cli = w.cli /\ u.os = w.os /\ u.tool = w.tool /\ u.parked = w.parked
        /\ u.map = w.map /\ u.stray = w.stray /\ u.wants = w.wants
    BY <1>2, WithCallIs
  <1> HIDE DEF u
  <1>6. /\ v \in Worlds /\ v.call = d /\ v.cli = w.cli /\ v.os = w.os /\ v.tool = w.tool
        /\ v.parked = w.parked /\ v.map = w.map /\ v.stray = w.stray
    BY <1>5 DEF Worlds
  <1> HIDE DEF v
  <1> QED BY <1>2, <1>3, <1>4, <1>6 DEF d

LEMMA OpenGood ==
  ASSUME NEW w, NEW p \in Procs, NEW mode \in Modes, Ready(w, p, mode)
  PROVE  Good(Open(w, p, mode), conf)
  <1>1. CASE ~w.call.aborted
    <2>1. Open(w, p, mode) = Attach(w, p, mode)
      BY <1>1 DEF Open
    <2> QED BY <1>1, <2>1, AttachGood
  <1>2. CASE w.call.aborted
    <2> DEFINE mine == [w EXCEPT !.call.p = p, !.call.ph = "open", !.wants = {}]
               d == MineCall(w.call, p, "open")
    <2>1. w \in Worlds /\ Base(w, conf)
      BY DEF Ready, Base
    <2>2. /\ mine \in Worlds /\ mine.call = d /\ d \in PiCall /\ d.p = p /\ d.ph = "open"
          /\ mine.cli = w.cli /\ mine.os = w.os /\ mine.tool = w.tool
          /\ mine.parked = w.parked /\ mine.map = w.map /\ mine.stray = w.stray
          /\ d.n = w.call.n /\ d.finished = w.call.finished /\ d.miss = w.call.miss
          /\ d.saw = w.call.saw /\ d.tools = w.call.tools /\ d.ended = w.call.ended
          /\ d.force = w.call.force
      BY <2>1, MineIs
    <2>3. /\ ~w.call.finished /\ ~w.call.miss /\ ~w.call.saw /\ w.call.tools = {}
          /\ w.call.ended = 0 /\ w.call.n # 0 /\ \A q \in Procs : ~w.cli[q].sink
      BY <2>1 DEF Ready, CallSound, Base, Attached
    <2>4. IF conf.piOwned THEN Open(w, p, mode) = Settle(EndWithError(mine))
          ELSE Open(w, p, mode) = [Interrupt(mine, p) EXCEPT !.call.ph = "lost",
                                                             !.os[p].backstop = TRUE]
      BY <1>2 DEF Open
    <2> HIDE DEF mine, d
    <2>5. Base(mine, conf)
      <3>1. \A q \in Procs : OsMoves(w.os[q], mine.os[q])
        BY <2>2 DEF OsMoves
      <3>2. Attached(mine)
        BY <2>2, <2>3 DEF Attached
      <3> QED BY <2>1, <2>2, <3>1, <3>2, BaseCall
    <2>6. \A q \in Procs \ {p} : mine.cli[q].alive => mine.cli[q].retired
      BY <2>2 DEF Ready
    <2>7. \A q \in Procs : Quiet(mine.cli[q])
      BY <2>2 DEF Ready
    <2>8. CASE conf.piOwned
      <3> DEFINE v == EndWithError(mine)
      <3>1. Going(mine, conf)
        BY <2>2, <2>3, <2>5, <2>6 DEF Ready, Going, KeptBut
      <3>2. /\ Core(v, conf) /\ Moves(mine, v, {}) /\ v.call.finished
            /\ v.cli[mine.call.p].retired
        BY <2>2, <2>3, <3>1, EndWithErrorCore
      <3> HIDE DEF v
      <3>3. v.call.ph = "open" /\ v.call.p = p /\ v.cli[p].retired
        BY <2>2, <3>2 DEF Moves, CallMoves
      <3>4. \A q \in Procs : q # p => Quiet(v.cli[q])
        BY <2>2, <2>7, <3>2, QuietMoves
      <3>5. Good(Settle(v), conf)
        BY <3>2, <3>3, <3>4, OverGood
      <3> QED BY <2>4, <2>8, <3>5 DEF v
    <2>9. CASE ~conf.piOwned
      <3> DEFINE x == Interrupt(mine, p)
                 e == [x.call EXCEPT !.ph = "lost"]
                 o == [x.os[p] EXCEPT !.backstop = TRUE]
                 u == WithCall(x, e)
                 v == WithProgram(u, p, o)
      <3>1. /\ Moves(mine, x, {}) /\ Local(mine, x, p) /\ x.cli = mine.cli
            /\ x.tool = mine.tool
        BY <2>2, InterruptMoves
      <3>2. Open(w, p, mode) = [x EXCEPT !.call.ph = "lost", !.os[p].backstop = TRUE]
        BY <2>4, <2>9
      <3> HIDE DEF x
      <3>3. /\ x \in Worlds /\ x.call = mine.call /\ x.parked = w.parked /\ x.map = w.map
            /\ x.os[p] \in Program /\ x.call \in PiCall
            /\ \A q \in Procs : OsMoves(w.os[q], x.os[q])
        BY <2>2, <3>1 DEF Moves, Local, Worlds
      <3>4. e \in PiCall /\ o \in Program /\ OsMoves(x.os[p], o)
        BY <3>3 DEF PiCall, Phases, Program, OsMoves
      <3>5. /\ e.ph = "lost" /\ e.p = p /\ e.n # 0 /\ e.ended = 0 /\ ~e.saw /\ e.tools = {}
            /\ e.force = w.call.force
        BY <2>2, <2>3, <3>3 DEF PiCall
      <3>6. Open(w, p, mode) = v
        BY <3>2, <3>3 DEF WithProgram, WithCall, Worlds, PiCall
      <3> HIDE DEF e, o
      <3>7. /\ u \in Worlds /\ u.call = e
            /\ u.cli = x.cli /\ u.os = x.os /\ u.tool = x.tool /\ u.parked = x.parked
            /\ u.map = x.map
        BY <3>3, <3>4, WithCallIs
      <3> HIDE DEF u
      <3>8. /\ v \in Worlds /\ v.os[p] = o /\ \A q \in Procs \ {p} : v.os[q] = u.os[q]
            /\ v.cli = u.cli /\ v.tool = u.tool /\ v.call = u.call /\ v.parked = u.parked
            /\ v.map = u.map
        BY <3>4, <3>7, WithProgramIs
      <3> HIDE DEF v
      <3>9. v.cli = w.cli /\ v.tool = w.tool /\ v.call = e /\ v.parked = w.parked
        BY <2>2, <3>1, <3>3, <3>7, <3>8
      <3>10. \A q \in Procs : OsMoves(w.os[q], v.os[q])
        BY <3>3, <3>4, <3>7, <3>8 DEF OsMoves
      <3>11. Base(v, conf)
        <4>1. Attached(v)
          BY <2>3, <3>9 DEF Attached
        <4> QED BY <2>1, <3>8, <3>9, <3>10, <4>1, BaseCall
      <3>12. KeptBut(v, NoProc) /\ Free(v)
        BY <2>2, <2>6, <3>5, <3>9 DEF Ready, KeptBut, Free, Serves, NoProc
      <3>13. CallSound(v.call)
        <4>1. p # 0
          BY CliAssumption DEF Procs
        <4> QED BY <3>5, <3>9, <4>1 DEF CallSound
      <3>14. Missed(v, conf)
        BY <3>5, <3>9, <3>10 DEF Ready, Missed, OsMoves
      <3>15. Live(v) /\ Owed(v)
        BY <3>5, <3>9 DEF Ready, Live, Owed
      <3>16. \A q \in Procs : Quiet(v.cli[q])
        BY <3>9 DEF Ready
      <3> QED BY <3>6, <3>11, <3>12, <3>13, <3>14, <3>15, <3>16 DEF Good, Core, CoreBut
    <2> QED BY <2>8, <2>9
  <1> QED BY <1>1, <1>2

-----------------------------------------------------------------------------
(* A process that is spawned.                                               *)

\* No process serves but perhaps p, and none has a call attached.
Alone(w, p) ==
    /\ Base(w, conf) /\ CallSound(w.call) /\ w.parked = NoProc
    /\ w.call.ph \in {"start", "think", "retire"}
    /\ \A q \in Procs \ {p} : w.cli[q].alive => w.cli[q].retired
    /\ \A q \in Procs : w.os[q].resumed => ~conf.piOwned
    /\ w.call.force => ~conf.piOwned
    /\ \A q \in Procs : Quiet(w.cli[q])

LEMMA FreshIs ==
  ASSUME conf \in Scenarios, Fresh # {}
  PROVE  LET p == CHOOSE q \in Fresh : \A r \in Fresh : q <= r
         IN  p \in Procs /\ os[p].run = "none"
  <1>1. Fresh \subseteq Procs
    <2>1. conf.procs \in 1 .. MaxProcs
      BY CliAssumption DEF Scenario, Procs
    <2> QED BY <2>1, CliAssumption DEF Fresh, Procs
  <1>2. Fresh \in SUBSET Nat
    BY <1>1, CliAssumption DEF Procs
  <1>3. \E q \in Fresh : \A r \in Fresh : q <= r
    BY <1>2, Least
  <1> DEFINE p == CHOOSE q \in Fresh : \A r \in Fresh : q <= r
  <1>4. p \in Fresh
    BY <1>3
  <1> QED BY <1>1, <1>4 DEF Fresh

BornProc(s) == [Unborn EXCEPT !.alive = TRUE, !.session = s]
BornProgram(r) == [NoProgram EXCEPT !.run = "up", !.resumed = r]

LEMMA BornTyped ==
  ASSUME NEW s \in 0 .. MaxProcs, NEW r \in BOOLEAN
  PROVE  /\ BornProc(s) \in Process /\ BornProgram(r) \in Program
         /\ LET c == BornProc(s)
                o == BornProgram(r)
            IN  /\ c.alive /\ ~c.retired /\ ~c.eof /\ ~c.sink /\ c.buf = <<>>
                /\ c.awaiting = {} /\ c.pending = {} /\ c.ready = {} /\ c.session = s
                /\ o.run = "up" /\ o.resumed = r /\ o.out = <<>>
  <1>1. <<>> \in Seq(Line) /\ <<>> \in Seq(1 .. MaxCalls)
    OBVIOUS
  <1>2. 0 \in 0 .. 1 /\ 0 \in 0 .. MaxCalls /\ 0 \in 0 .. MaxProcs
    BY CliAssumption
  <1>3. BornProc(s) \in Process
    BY <1>1, <1>2 DEF BornProc, Unborn, Process
  <1>4. BornProgram(r) \in Program
    BY <1>1, <1>2 DEF BornProgram, NoProgram, Program, Running
  <1> QED BY <1>3, <1>4 DEF BornProc, BornProgram, Unborn, NoProgram

LEMMA SpawnGood ==
  ASSUME NEW w, NEW stale \in BOOLEAN, conf \in Scenarios, Fresh # {}, Alone(w, NoProc),
         w.os = os
  PROVE  Good(Spawn(w, stale), conf)
  <1> DEFINE p == CHOOSE q \in Fresh : \A r \in Fresh : q <= r
             resumed == ~conf.piOwned /\ ~w.call.force /\ ~stale /\ w.map # 0
             session == IF resumed THEN w.map ELSE p
             m == IF ~conf.piOwned /\ ~resumed THEN p ELSE w.map
             c == BornProc(session)
             o == BornProgram(resumed)
             x == WithProc(w, p, c)
             u == WithProgram(x, p, o)
             born == [u EXCEPT !.map = m]
             v == WriteUser(born, p)
  <1>1. p \in Procs /\ w.os[p].run = "none"
    BY FreshIs
  <1>2. w \in Worlds /\ Base(w, conf) /\ w.map \in 0 .. MaxProcs
    BY DEF Alone, Base, Worlds
  <1>3. Spawn(w, stale) = Open(v, p, "spawn")
    <2>1. [w EXCEPT
            !.cli[p] = [Unborn EXCEPT !.alive = TRUE, !.session = session],
            !.os[p] = [NoProgram EXCEPT !.run = "up", !.resumed = resumed],
            !.map = IF ~conf.piOwned /\ ~resumed THEN p ELSE @] = born
      <3> HIDE DEF p, resumed, session
      <3> QED BY <1>2 DEF WithProc, WithProgram, Worlds, BornProc, BornProgram
    <2> QED BY <2>1 DEF Spawn
  <1> HIDE DEF p
  <1>4. p \in 0 .. MaxProcs /\ p # 0
    BY <1>1, CliAssumption DEF Procs
  <1>5. resumed \in BOOLEAN /\ session \in 0 .. MaxProcs /\ m \in 0 .. MaxProcs
    BY <1>2, <1>4
  <1>6. /\ resumed => ~conf.piOwned
        /\ w.call.force => ~conf.piOwned /\ ~resumed /\ m = session
    BY DEF Alone
  <1> HIDE DEF resumed, session, m
  <1>7. /\ c \in Process /\ o \in Program
        /\ c.alive /\ ~c.retired /\ ~c.eof /\ ~c.sink /\ c.buf = <<>>
        /\ c.awaiting = {} /\ c.pending = {} /\ c.ready = {} /\ c.session = session
        /\ o.run = "up" /\ o.resumed = resumed /\ o.out = <<>>
    BY <1>5, BornTyped
  <1> HIDE DEF c, o
  <1>8. /\ x \in Worlds /\ x.cli[p] = c /\ \A q \in Procs \ {p} : x.cli[q] = w.cli[q]
        /\ x.os = w.os /\ x.tool = w.tool /\ x.call = w.call /\ x.parked = w.parked
    BY <1>1, <1>2, <1>7, WithProcIs
  <1> HIDE DEF x
  <1>9. /\ u \in Worlds /\ u.os[p] = o /\ \A q \in Procs \ {p} : u.os[q] = x.os[q]
        /\ u.cli = x.cli /\ u.tool = x.tool /\ u.call = x.call /\ u.parked = x.parked
    BY <1>1, <1>7, <1>8, WithProgramIs
  <1> HIDE DEF u
  <1>10. /\ born \in Worlds /\ born.map = m /\ born.os = u.os /\ born.cli = u.cli
         /\ born.tool = u.tool /\ born.call = u.call /\ born.parked = u.parked
    BY <1>5, <1>9 DEF Worlds
  <1> HIDE DEF born
  <1>11. born.call.n # 0 /\ born.call = w.call
    BY <1>8, <1>9, <1>10 DEF Alone, CallSound
  <1>12. /\ v \in Worlds /\ v.cli[p] = [born.cli[p] EXCEPT !.turn = TRUE, !.asked = born.call.n]
         /\ \A q \in Procs \ {p} : v.cli[q] = born.cli[q] /\ v.os[q] = born.os[q]
         /\ OsMoves(born.os[p], v.os[p])
         /\ v.tool = born.tool /\ v.call = born.call /\ v.parked = born.parked
         /\ v.map = born.map
    BY <1>1, <1>10, <1>11, WriteUserIs
  <1> HIDE DEF v
  <1> DEFINE d == v.cli[p]
  <1>13. /\ d.alive /\ ~d.retired /\ ~d.sink /\ d.buf = <<>> /\ d.turn
         /\ d.awaiting = {} /\ d.pending = {} /\ d.ready = {} /\ d.session = session
    BY <1>7, <1>8, <1>9, <1>10, <1>12 DEF Process
  <1>14. v.os[p].run # "none" /\ v.os[p].resumed = resumed /\ v.os[p].out = <<>>
    BY <1>7, <1>9, <1>10, <1>12 DEF OsMoves
  <1> HIDE DEF d
  <1>15. \A q \in Procs \ {p} : v.cli[q] = w.cli[q] /\ v.os[q] = w.os[q]
    BY <1>8, <1>9, <1>10, <1>12
  <1>16. /\ v.tool = w.tool /\ v.call = w.call /\ v.parked = w.parked /\ v.map = m
    BY <1>8, <1>9, <1>10, <1>12
  <1>17. w.cli[p].pending = {} /\ ~w.cli[p].alive
    BY <1>1, <1>2 DEF Base, Held, Born
  <1>18. Ids(d) = {} /\ Awaited(d) = {} /\ Known(d) = {}
    BY <1>13 DEF Ids, Awaited, Known
  <1>19. Base(v, conf)
    <2>1. \A q \in Procs : v.cli[q].pending = w.cli[q].pending
      BY <1>13, <1>15, <1>17 DEF d
    <2>2. Held(v)
      <3>1. Held(w)
        BY <1>2 DEF Base
      <3>2. \A q \in Procs : v.cli[q].pending # {} => v.cli[q].alive /\ ~v.cli[q].retired
        BY <1>13, <1>15, <3>1 DEF Held, d
      <3> QED BY <1>16, <2>1, <3>1, <3>2 DEF Held
    <2>3. Matched(v, conf)
      BY <1>2, <1>16, <2>1 DEF Base, Matched
    <2>4. Announced(v)
      <3> SUFFICES ASSUME NEW q \in Procs
                   PROVE  /\ Once(v.cli[q].buf) /\ Once(v.os[q].out)
                          /\ Blocks(v.cli[q].buf) \cap Blocks(v.os[q].out) = {}
                          /\ (Blocks(v.cli[q].buf) \cup Blocks(v.os[q].out)) \cap Known(v.cli[q]) = {}
                          /\ v.cli[q].awaiting \cap Ids(v.cli[q]) = {}
                          /\ \A t \in Blocks(v.cli[q].buf) \cup Blocks(v.os[q].out) \cup Known(v.cli[q]) :
                                 t \in Tools /\ v.tool[t].p = q
        BY DEF Announced
      <3>1. CASE q = p
        BY <1>13, <1>14, <1>18, <3>1, NoLines DEF d
      <3>2. CASE q # p
        BY <1>2, <1>15, <1>16, <3>2 DEF Base, Announced
      <3> QED BY <3>1, <3>2
    <2>5. Born(v)
      BY <1>2, <1>14, <1>15, <1>16 DEF Base, Born
    <2>6. Attached(v)
      BY <1>2, <1>13, <1>15, <1>16 DEF Base, Attached, d
    <2> QED BY <1>12, <2>2, <2>3, <2>4, <2>5, <2>6 DEF Base
  <1>20. \A q \in Procs \ {p} : v.cli[q].alive => v.cli[q].retired
    BY <1>4, <1>15 DEF Alone, NoProc, Procs
  <1>21. \A q \in Procs : v.os[q].resumed => ~conf.piOwned
    BY <1>6, <1>14, <1>15 DEF Alone
  <1>22. \A q \in Procs : Quiet(v.cli[q])
    <2>1. Quiet(d)
      BY <1>13 DEF Quiet
    <2> QED BY <1>15, <2>1 DEF Alone, d
  <1>23. Ready(v, p, "spawn")
    <2>1. v.call.force => ~conf.piOwned /\ ~v.os[p].resumed /\ v.map = v.cli[p].session
      BY <1>6, <1>13, <1>14, <1>16 DEF d
    <2>2. v.cli[p].turn /\ Awaited(v.cli[p]) = {}
      BY <1>13, <1>18 DEF d
    <2>3. /\ CallSound(v.call) /\ v.parked = NoProc
          /\ v.call.ph \in {"start", "think", "retire"}
      BY <1>16 DEF Alone
    <2> QED BY <1>19, <1>20, <1>21, <1>22, <2>1, <2>2, <2>3 DEF Ready
  <1>24. Good(Open(v, p, "spawn"), conf)
    BY <1>1, <1>23, OpenGood DEF Modes
  <1> QED BY <1>3, <1>24 DEF v, born, u, x, c, o, m, session, resumed, p

-----------------------------------------------------------------------------
(* The steps of pi and of its call.                                         *)

\* The world after a step is the one the step names.
LEMMA NextWorld ==
  ASSUME conf \in Scenarios, NEW v, Good(v, conf), conf' = conf, cli' = v.cli, os' = v.os,
         tool' = v.tool, call' = v.call, parked' = v.parked, map' = v.map,
         stray' = v.stray, wants' = v.wants
  PROVE  CliInv'
  <1>1. v \in Worlds
    BY DEF Good, Core, CoreBut, Base
  <1>2. v = [cli |-> v.cli, os |-> v.os, tool |-> v.tool, call |-> v.call,
             parked |-> v.parked, map |-> v.map, stray |-> v.stray, wants |-> v.wants]
    BY <1>1 DEF Worlds
  <1>3. World' = v
    BY <1>2 DEF World
  <1>4. Good(World', conf')
    BY <1>3
  <1> QED BY <1>4 DEF CliInv

LEMMA BecomesGood ==
  ASSUME conf \in Scenarios, NEW v, Good(v, conf), Becomes(v)
  PROVE  CliInv'
  <1>1. /\ conf' = conf /\ cli' = v.cli /\ os' = v.os /\ tool' = v.tool /\ call' = v.call
        /\ parked' = v.parked /\ map' = v.map /\ stray' = v.stray /\ wants' = v.wants
    BY DEF Becomes
  <1> QED BY <1>1, NextWorld

LEMMA WorldIs ==
  /\ World.cli = cli /\ World.os = os /\ World.tool = tool /\ World.call = call
  /\ World.parked = parked /\ World.map = map /\ World.stray = stray /\ World.wants = wants
  BY DEF World

LEMMA CliParts ==
  ASSUME CliInv
  PROVE  /\ conf \in Scenarios /\ conf \in Scenario /\ Good(World, conf) /\ Core(World, conf)
         /\ World \in Worlds /\ Base(World, conf) /\ KeptBut(World, NoProc) /\ Free(World)
         /\ CallSound(call) /\ Missed(World, conf) /\ Live(World) /\ Owed(World)
         /\ \A p \in Procs : Quiet(cli[p])
         /\ cli \in [Procs -> Process] /\ os \in [Procs -> Program]
         /\ tool \in [Tools -> Block] /\ call \in PiCall
         /\ parked \in 0 .. MaxProcs /\ (parked # NoProc => parked \in Procs)
         /\ map \in 0 .. MaxProcs
  <1>1. /\ conf \in Scenarios /\ Good(World, conf) /\ Core(World, conf)
        /\ World \in Worlds /\ Base(World, conf) /\ KeptBut(World, NoProc) /\ Free(World)
        /\ CallSound(World.call) /\ Missed(World, conf) /\ Live(World) /\ Owed(World)
        /\ \A p \in Procs : Quiet(World.cli[p])
    BY DEF CliInv, Good, Core, CoreBut, Base
  <1>2. conf \in Scenario
    BY <1>1, CliAssumption
  <1>3. /\ World.cli \in [Procs -> Process] /\ World.os \in [Procs -> Program]
        /\ World.tool \in [Tools -> Block] /\ World.call \in PiCall
        /\ World.parked \in 0 .. MaxProcs /\ World.map \in 0 .. MaxProcs
    BY <1>1, WorldParts
  <1>4. parked \in 0 .. MaxProcs => (parked # NoProc => parked \in Procs)
    BY CliAssumption DEF NoProc, Procs
  <1> QED BY <1>1, <1>2, <1>3, <1>4, WorldIs

\* pi calls.
LEMMA PiCallsStep ==
  ASSUME CliInv, NEW user \in BOOLEAN, PiCalls(user)
  PROVE  CliInv'
  <1> DEFINE d == [NoCall EXCEPT !.ph = "start", !.n = call.n + 1, !.results = wants,
                                 !.user = user, !.by = call.n + 1]
             v == WithCall(World, d)
  <1>1. /\ conf \in Scenarios /\ conf \in Scenario /\ World \in Worlds /\ Base(World, conf)
        /\ KeptBut(World, NoProc) /\ Owed(World) /\ Missed(World, conf)
        /\ \A p \in Procs : Quiet(cli[p])
        /\ call \in PiCall
    BY CliParts
  <1>2. call.ph = "none" /\ call.n < conf.calls /\ wants \in SUBSET Tools
    BY <1>1, WorldIs, WorldParts DEF PiCalls, Called
  <1>3. d \in PiCall
    <2>1. call.n \in 0 .. MaxCalls /\ conf.calls \in 1 .. MaxCalls
      BY <1>1 DEF PiCall, Scenario
    <2>2. call.n + 1 \in 0 .. MaxCalls
      BY <1>2, <2>1, CliAssumption
    <2> DEFINE n == call.n + 1
    <2> HIDE DEF n
    <2>3. n \in 0 .. MaxCalls
      BY <2>2 DEF n
    <2>4. [NoCall EXCEPT !.ph = "start", !.n = n, !.results = wants, !.user = user,
                         !.by = n] \in PiCall
      BY <1>2, <2>3, NoCallTyped DEF PiCall, Phases
    <2> QED BY <2>4 DEF n
  <1>4. /\ d.ph = "start" /\ d.n # 0 /\ ~d.force /\ d.results = wants
        /\ ~d.finished /\ ~d.miss /\ ~d.saw /\ ~d.selfInt /\ ~d.toolUse
        /\ d.tools = {} /\ d.ended = 0
    <2>1. call.n \in Nat
      BY <1>1, CliAssumption DEF PiCall
    <2> QED BY <2>1 DEF NoCall
  <1>5. /\ conf' = conf /\ cli' = cli /\ os' = os /\ tool' = tool /\ call' = d
        /\ parked' = parked /\ map' = map /\ stray' = stray /\ wants' = wants
    BY DEF PiCalls
  <1> HIDE DEF d
  <1>6. /\ v \in Worlds /\ v.call = d /\ v.cli = cli /\ v.os = os /\ v.tool = tool
        /\ v.parked = parked /\ v.map = map /\ v.stray = stray /\ v.wants = wants
    BY <1>1, <1>3, WithCallIs, WorldIs
  <1> HIDE DEF v
  <1>7. \A p \in Procs : ~cli[p].sink
    BY <1>1, <1>2, WorldIs DEF Base, Attached
  <1>8. Base(v, conf)
    <2>1. Attached(v) /\ \A q \in Procs : OsMoves(World.os[q], v.os[q])
      BY <1>6, <1>7, WorldIs DEF Attached, OsMoves
    <2> QED BY <1>1, <1>6, <2>1, WorldIs, BaseCall
  <1>9. KeptBut(v, NoProc) /\ Free(v)
    BY <1>1, <1>2, <1>4, <1>6, WorldIs DEF KeptBut, Free, Serves, Engaged
  <1>10. CallSound(v.call) /\ Missed(v, conf)
    BY <1>1, <1>4, <1>6, WorldIs DEF CallSound, Missed
  <1>11. Live(v) /\ Owed(v)
    BY <1>1, <1>2, <1>4, <1>6, WorldIs DEF Live, Owed, Runs
  <1>12. Good(v, conf)
    BY <1>1, <1>6, <1>8, <1>9, <1>10, <1>11 DEF Good, Core, CoreBut
  <1> QED BY <1>1, <1>5, <1>6, <1>12, NextWorld

\* Nothing serves but the process at hand.
LEMMA AloneAt ==
  ASSUME CliInv, NEW p, call.ph \in {"start", "think", "retire"},
         parked = NoProc,
         call.ph = "think" => p = call.p
  PROVE  Alone(World, p)
  <1>1. \A q \in Procs \ {p} : cli[q].alive => cli[q].retired
    BY CliParts, WorldIs, CliAssumption DEF KeptBut, Serves, Procs, NoProc
  <1> QED BY <1>1, CliParts, WorldIs DEF Alone, Missed

\* The process taken is retired, and the call waits for its end.
LEMMA RetiringGood ==
  ASSUME NEW w, NEW p \in Procs, Alone(w, p), conf \in Scenarios,
         w.call.ph \in {"start", "think"}, w.call.force => w.map = 0,
         NEW v, v = [Retire(w, p) EXCEPT !.call.ph = "retire", !.call.p = p]
  PROVE  Good(v, conf)
  <1> DEFINE x == Retire(w, p)
             d == [x.call EXCEPT !.ph = "retire", !.p = p]
  <1>1. w \in Worlds /\ Base(w, conf) /\ Held(w)
    BY DEF Alone, Base
  <1>2. Retired(w, x, p)
    BY <1>1, RetireMoves
  <1> HIDE DEF x
  <1>3. /\ x \in Worlds /\ Moves(w, x, {}) /\ x.cli[p].retired
        /\ x.call = w.call /\ x.parked = w.parked /\ x.map = w.map
        /\ x.cli[p].turn = w.cli[p].turn
        /\ \A q \in Procs \ {p} : x.cli[q] = w.cli[q]
    BY <1>2 DEF Retired, Moves, Local
  <1>4. Base(x, conf)
    <2>1. Unnamed(w, {})
      BY DEF Unnamed
    <2> QED BY <1>1, <1>3, <2>1, BaseMoves
  <1>5. x.call \in PiCall /\ w.call \in PiCall /\ p \in 0 .. MaxProcs /\ p # 0
    BY <1>1, <1>3, CliAssumption DEF Worlds, Procs
  <1>6. d \in PiCall
    BY <1>5 DEF PiCall, Phases
  <1>7. /\ d.ph = "retire" /\ d.p = p /\ d.n = x.call.n /\ d.finished = x.call.finished
        /\ d.miss = x.call.miss /\ d.saw = x.call.saw /\ d.selfInt = x.call.selfInt
        /\ d.toolUse = x.call.toolUse /\ d.tools = x.call.tools /\ d.ended = x.call.ended
        /\ d.force = x.call.force
    BY <1>5 DEF PiCall
  <1>8. v = WithCall(x, d)
    BY <1>3, <1>5 DEF WithCall, Worlds, PiCall, x
  <1> HIDE DEF d
  <1>9. /\ v \in Worlds /\ v.call = d /\ v.cli = x.cli /\ v.os = x.os /\ v.tool = x.tool
        /\ v.parked = w.parked /\ v.map = w.map
    BY ONLY <1>3, <1>6, <1>8, WithCallIs
  <1>10. \A q \in Procs : ~x.cli[q].sink
    <2>1. \A q \in Procs : ~w.cli[q].sink
      BY <1>1 DEF Alone, Base, Attached
    <2> QED BY <1>3, <2>1 DEF Moves, ProcMoves
  <1>11. Base(v, conf)
    <2>1. Attached(v) /\ \A q \in Procs : OsMoves(x.os[q], v.os[q])
      BY <1>9, <1>10 DEF Attached, OsMoves
    <2> QED BY <1>4, <1>9, <2>1, BaseCall
  <1>12. KeptBut(v, NoProc) /\ Free(v)
    BY <1>3, <1>7, <1>9 DEF Alone, KeptBut, Free
  <1>13. CallSound(v.call)
    BY <1>3, <1>5, <1>7, <1>9 DEF Alone, CallSound
  <1>14. Missed(v, conf)
    BY <1>3, <1>7, <1>9 DEF Alone, Missed, Moves, OsMoves
  <1>15. Live(v) /\ Owed(v)
    BY <1>7, <1>9 DEF Live, Owed
  <1>16. \A q \in Procs : Quiet(v.cli[q])
    BY <1>3, <1>9 DEF Alone, Quiet
  <1> QED BY <1>9, <1>11, <1>12, <1>13, <1>14, <1>15, <1>16 DEF Good, Core, CoreBut

\* A step that only changes what processes and programs do not share.
LEMMA AsideIs ==
  ASSUME NEW w \in Worlds, Announced(w), NEW p \in Procs, NEW c \in Process,
         SameHold(w.cli[p], c), c.buf = w.cli[p].buf
  PROVE  Beside(w, WithProc(w, p, c))
  <1> DEFINE v == WithProc(w, p, c)
  <1>1. /\ v \in Worlds /\ v.cli[p] = c /\ \A q \in Procs \ {p} : v.cli[q] = w.cli[q]
        /\ v.os = w.os /\ v.tool = w.tool /\ v.call = w.call /\ v.parked = w.parked
        /\ v.map = w.map
    BY WithProcIs
  <1> HIDE DEF v
  <1>2. \A q \in Procs : SameHold(w.cli[q], v.cli[q]) /\ v.cli[q].buf = w.cli[q].buf
    BY <1>1 DEF SameHold
  <1>3. \A q \in Procs : Lines(w, v, q)
    BY <1>1, <1>2 DEF Announced, Lines
  <1>4. Untouched(w, v)
    BY <1>1 DEF Untouched
  <1> QED BY <1>1, <1>2, <1>3, <1>4 DEF Beside, v

\* The parked process is taken out of the pool.
LEMMA TakeParkedIs ==
  ASSUME CliInv, call.ph = "start", parked # NoProc
  PROVE  LET w == TakeParked(World)
             p == parked
         IN  /\ Alone(w, p) /\ p \in Procs
             /\ w.call = call /\ w.os = os /\ w.map = map
             /\ w.cli[p].alive = cli[p].alive /\ w.cli[p].retired = cli[p].retired
             /\ w.cli[p].turn = cli[p].turn /\ w.cli[p].eof = cli[p].eof
             /\ w.cli[p].awaiting = cli[p].awaiting /\ w.cli[p].pending = cli[p].pending
  <1> DEFINE p == parked
             c == [cli[p] EXCEPT !.idle = "off"]
             u == WithProc(World, p, c)
             w == TakeParked(World)
  <1>1. /\ World \in Worlds /\ Core(World, conf) /\ KeptBut(World, NoProc)
        /\ CallSound(call) /\ Missed(World, conf) /\ p \in Procs
        /\ \A q \in Procs : Quiet(cli[q])
    BY CliParts
  <1>2. cli[p] \in Process
    BY <1>1, CliParts
  <1>3. /\ c \in Process /\ SameHold(cli[p], c) /\ c.buf = cli[p].buf
        /\ c.turn = cli[p].turn /\ c.eof = cli[p].eof
    BY <1>2 DEF Process, SameHold
  <1>4. w = [u EXCEPT !.parked = NoProc]
    <2>1. w = [World EXCEPT !.parked = NoProc, !.cli[p].idle = "off"]
      BY WorldIs DEF TakeParked
    <2> QED BY <1>1, <2>1, WorldIs DEF WithProc, Worlds
  <1> HIDE DEF c, w
  <1>5. Beside(World, u)
    BY <1>1, <1>3, WorldIs, AsideIs DEF Core, CoreBut, Base
  <1>6. CoreBut(u, conf, NoProc)
    BY <1>1, <1>5, BesideCore DEF Core
  <1>7. /\ u \in Worlds /\ u.cli[p] = c /\ \A q \in Procs \ {p} : u.cli[q] = cli[q]
        /\ u.os = os /\ u.call = call /\ u.map = map
    BY <1>1, <1>3, WithProcIs, WorldIs
  <1> HIDE DEF u
  <1>8. /\ w \in Worlds /\ w.cli = u.cli /\ w.os = u.os /\ w.tool = u.tool
        /\ w.call = u.call /\ w.map = u.map /\ w.parked = NoProc
    BY <1>4, <1>7, CliAssumption DEF Worlds, NoProc
  <1>9. Base(w, conf)
    <2>1. Attached(w) /\ \A q \in Procs : OsMoves(u.os[q], w.os[q])
      BY <1>6, <1>8 DEF CoreBut, Base, Attached, OsMoves
    <2> QED BY <1>6, <1>8, <2>1, BaseCall DEF CoreBut
  <1>10. \A q \in Procs \ {p} : w.cli[q].alive => w.cli[q].retired
    BY <1>1, <1>7, <1>8, WorldIs, CliAssumption DEF KeptBut, Serves, Procs, NoProc
  <1>11. \A q \in Procs : Quiet(w.cli[q])
    BY <1>1, <1>3, <1>7, <1>8 DEF Quiet, SameHold, Awaited, Ids
  <1>12. Alone(w, p)
    BY <1>1, <1>7, <1>8, <1>9, <1>10, <1>11, WorldIs DEF Alone, Missed
  <1> QED BY <1>1, <1>3, <1>7, <1>8, <1>12 DEF SameHold, w

\* A process is spawned where none serves.
LEMMA SpawnsStep ==
  ASSUME conf \in Scenarios, NEW w, NEW stale \in BOOLEAN, Alone(w, NoProc), w.os = os,
         Spawns(w, stale)
  PROVE  CliInv'
  <1>1. Good(Spawn(w, stale), conf)
    BY SpawnGood DEF Spawns
  <1> QED BY <1>1, BecomesGood DEF Spawns

LEMMA ChooseStep ==
  ASSUME CliInv, NEW fits \in BOOLEAN, NEW control \in BOOLEAN, NEW stale \in BOOLEAN,
         Choose(fits, control, stale)
  PROVE  CliInv'
  <1> DEFINE p == parked
             w == TakeParked(World)
             m == IF fits /\ ~call.force /\ ~stale THEN ModeFor(cli[p]) ELSE "spawn"
             retiring == [Retire(w, p) EXCEPT !.call.ph = "retire", !.call.p = p]
  <1>1. call.ph = "start" /\ conf \in Scenarios
    BY CliParts DEF Choose, Called
  <1>2. CASE p = NoProc
    <2>1. w = World
      BY <1>2, WorldIs DEF TakeParked
    <2>2. Alone(World, NoProc)
      BY <1>1, <1>2, AloneAt
    <2>3. Spawns(World, stale)
      BY <1>2, <2>1 DEF Choose
    <2> QED BY <1>1, <2>2, <2>3, SpawnsStep, WorldIs
  <1>3. CASE p # NoProc
    <2>1. /\ Alone(w, p) /\ p \in Procs
          /\ w.call = call /\ w.os = os /\ w.map = map
          /\ w.cli[p].alive = cli[p].alive /\ w.cli[p].retired = cli[p].retired
          /\ w.cli[p].turn = cli[p].turn /\ w.cli[p].eof = cli[p].eof
          /\ w.cli[p].awaiting = cli[p].awaiting /\ w.cli[p].pending = cli[p].pending
      BY <1>1, <1>3, TakeParkedIs
    <2>2. /\ call.force => map = 0
          /\ CallSound(call) /\ call \in PiCall /\ Owed(World)
          /\ \A q \in Procs : Quiet(cli[q])
      BY <1>1, CliParts, WorldIs DEF Missed
    <2>3. CASE ~cli[p].alive \/ cli[p].retired
      <3>1. Spawns(w, stale)
        BY <1>3, <2>3 DEF Choose
      <3>2. Alone(w, NoProc)
        BY <2>1, <2>3 DEF Alone
      <3> HIDE DEF w
      <3> QED BY <1>1, <2>1, <3>1, <3>2, SpawnsStep
    <2>4. CASE cli[p].alive /\ ~cli[p].retired
      <3> DEFINE think == [w EXCEPT !.call.ph = "think", !.call.p = p]
      <3>1. \/ Becomes(retiring)
            \/ m = "turn" /\ Becomes(think)
            \/ m # "spawn" /\ Becomes(Open(w, p, m))
        BY <1>3, <2>4 DEF Choose
      <3>2. m # "spawn" =>
               /\ ~call.force
               /\ \/ /\ m = "handoff" /\ cli[p].turn /\ CanContinue(cli[p], call.results)
                  \/ m = "turn" /\ ~cli[p].turn /\ call.results = {}
        BY DEF ModeFor
      <3>3. m \in Modes
        BY DEF ModeFor, Modes
      <3> HIDE DEF w, m
      <3>4. CASE Becomes(retiring)
        <4>1. Good(retiring, conf)
          BY <1>1, <2>1, <2>2, RetiringGood
        <4> HIDE DEF retiring
        <4> QED BY <1>1, <3>4, <4>1, BecomesGood
      <3>5. CASE m = "turn" /\ Becomes(think)
        <4> DEFINE d == [w.call EXCEPT !.ph = "think", !.p = p]
        <4>1. w \in Worlds /\ w.call \in PiCall /\ p \in 0 .. MaxProcs /\ p # 0
          BY <2>1, <2>2, CliAssumption DEF Alone, Base, Procs
        <4>2. d \in PiCall
          BY <4>1 DEF PiCall, Phases
        <4>3. /\ d.ph = "think" /\ d.p = p /\ d.n = call.n /\ d.finished = call.finished
              /\ d.miss = call.miss /\ d.saw = call.saw /\ d.selfInt = call.selfInt
              /\ d.toolUse = call.toolUse /\ d.tools = call.tools /\ d.ended = call.ended
              /\ d.force = call.force
          BY <2>1, <2>2 DEF PiCall
        <4>4. think = WithCall(w, d)
          BY <4>1 DEF WithCall, Worlds, PiCall
        <4> HIDE DEF think, d
        <4>5. /\ think \in Worlds /\ think.call = d /\ think.cli = w.cli /\ think.os = w.os
              /\ think.tool = w.tool /\ think.parked = w.parked /\ think.map = w.map
          BY <4>1, <4>2, <4>4, WithCallIs
        <4>6. Base(think, conf)
          <5>1. \A q \in Procs : ~w.cli[q].sink
            BY <1>1, <2>1 DEF Alone, Base, Attached
          <5>2. Attached(think) /\ \A q \in Procs : OsMoves(w.os[q], think.os[q])
            BY <4>5, <5>1 DEF Attached, OsMoves
          <5> QED BY <2>1, <4>5, <5>2, BaseCall DEF Alone
        <4>7. KeptBut(think, NoProc) /\ Free(think)
          BY <2>1, <4>3, <4>5 DEF Alone, KeptBut, Free, Serves
        <4>8. CallSound(think.call)
          BY <1>1, <2>2, <4>1, <4>3, <4>5 DEF CallSound
        <4>9. Missed(think, conf)
          BY <2>1, <3>2, <3>5, <4>3, <4>5 DEF Alone, Missed
        <4>10. Live(think) /\ Owed(think) /\ \A q \in Procs : Quiet(think.cli[q])
          BY <2>1, <3>2, <3>5, <4>3, <4>5 DEF Alone, Live, Owed
        <4>11. Good(think, conf)
          BY <4>5, <4>6, <4>7, <4>8, <4>9, <4>10 DEF Good, Core, CoreBut
        <4> QED BY <1>1, <3>5, <4>11, BecomesGood
      <3>6. CASE m # "spawn" /\ Becomes(Open(w, p, m))
        <4> DEFINE R == IF m = "handoff" THEN w.call.results ELSE {}
        <4>1. Awaited(w.cli[p]) = Awaited(cli[p])
          BY <2>1 DEF Awaited, Ids
        <4>2. CASE m = "handoff"
          <5>1. /\ cli[p].turn /\ call.results # {} /\ call.results \subseteq Awaited(cli[p])
            BY <3>2, <4>2 DEF CanContinue, Awaited, Ids
          <5>2. cli[p].eof \/ Awaited(cli[p]) \subseteq call.results
            BY <1>1, <1>3, <2>2, <2>4, <5>1, WorldIs DEF Owed, Runs
          <5>3. Ready(w, p, m)
            BY <2>1, <3>2, <4>1, <4>2, <5>1, <5>2 DEF Ready, Alone
          <5> QED BY <1>1, <2>1, <3>3, <3>6, <5>3, OpenGood, BecomesGood
        <4>3. CASE m = "turn"
          <5>1. cli[p].eof \/ Awaited(cli[p]) = {}
            BY <2>1, <2>2, <2>4, <3>2, <4>3 DEF Quiet
          <5>2. Ready(w, p, m)
            BY <2>1, <3>2, <4>1, <4>3, <5>1 DEF Ready, Alone
          <5> QED BY <1>1, <2>1, <3>3, <3>6, <5>2, OpenGood, BecomesGood
        <4> QED BY <3>3, <3>6, <4>2, <4>3 DEF Modes
      <3> QED BY <3>1, <3>4, <3>5, <3>6
    <2> QED BY <2>3, <2>4
  <1> QED BY <1>2, <1>3

LEMMA ThinkingAppliedStep ==
  ASSUME CliInv, ThinkingApplied
  PROVE  CliInv'
  <1>1. /\ call.ph = "think" /\ cli[call.p].alive /\ ~cli[call.p].eof
        /\ Becomes(Open(World, call.p, "turn"))
    BY DEF ThinkingApplied, Called
  <1>2. call.p \in Procs /\ conf \in Scenarios
    BY <1>1, CliParts, CallOf, WorldIs
  <1>3. parked = NoProc
    BY <1>1, CliParts, WorldIs DEF Free, Engaged, Serves
  <1>4. Alone(World, call.p)
    BY <1>1, <1>3, AloneAt
  <1>5. ~cli[call.p].turn /\ ~call.force
    BY <1>1, CliParts, WorldIs DEF Live, Missed
  <1>6. cli[call.p].retired \/ Awaited(cli[call.p]) = {}
    BY <1>1, <1>2, <1>5, CliParts DEF Quiet
  <1>7. Ready(World, call.p, "turn")
    BY <1>4, <1>5, <1>6, WorldIs DEF Ready, Alone
  <1>8. Good(Open(World, call.p, "turn"), conf)
    BY <1>2, <1>7, OpenGood DEF Modes
  <1> QED BY <1>1, <1>2, <1>8, BecomesGood

LEMMA ThinkingRefusedStep ==
  ASSUME CliInv, ThinkingRefused
  PROVE  CliInv'
  <1> DEFINE p == call.p
             v == [Retire(World, p) EXCEPT !.call.ph = "retire"]
             u == [Retire(World, p) EXCEPT !.call.ph = "retire", !.call.p = p]
  <1>1. call.ph = "think" /\ Becomes(v)
    BY DEF ThinkingRefused, Called
  <1>2. p \in Procs /\ conf \in Scenarios /\ World \in Worlds /\ Held(World)
    BY <1>1, CliParts, CallOf, WorldIs DEF Base
  <1>3. parked = NoProc
    BY <1>1, CliParts, WorldIs DEF Free, Engaged, Serves
  <1>4. Alone(World, p) /\ ~call.force
    BY <1>1, <1>3, AloneAt, CliParts, WorldIs DEF Missed
  <1>5. Good(u, conf)
    BY <1>1, <1>2, <1>4, RetiringGood, WorldIs
  <1>6. u = v
    <2> DEFINE x == Retire(World, p)
    <2>1. x \in Worlds /\ x.call = World.call
      BY <1>2, RetireMoves DEF Retired, Moves, Local
    <2>2. x.call.p = p /\ x.call \in PiCall
      BY <2>1, WorldIs DEF Worlds
    <2> DEFINE c == [x.call EXCEPT !.ph = "retire"]
               d == [x.call EXCEPT !.ph = "retire", !.p = p]
    <2>3. v = WithCall(x, c) /\ u = WithCall(x, d)
      <3> HIDE DEF x
      <3> QED BY <2>1, <2>2 DEF WithCall, Worlds, x
    <2>4. c = d
      <3> DEFINE y == x.call
                 q == call.p
      <3>1. y \in PiCall /\ y.p = q
        BY <2>2
      <3> HIDE DEF y, q
      <3>2. [y EXCEPT !.ph = "retire", !.p = q] = [y EXCEPT !.ph = "retire"]
        BY <3>1 DEF PiCall
      <3> QED BY <3>2 DEF y, q
    <2> HIDE DEF c, d, x, u, v
    <2> QED BY <2>3, <2>4
  <1> HIDE DEF u, v
  <1> QED BY <1>1, <1>2, <1>5, <1>6, BecomesGood

LEMMA SpawnAfterRetireStep ==
  ASSUME CliInv, NEW stale \in BOOLEAN, SpawnAfterRetire(stale)
  PROVE  CliInv'
  <1>1. call.ph = "retire" /\ Spawns(World, stale)
    BY DEF SpawnAfterRetire, Called
  <1>2. parked = NoProc
    BY <1>1, CliParts, WorldIs DEF Free, Engaged
  <1>3. Alone(World, NoProc)
    BY <1>1, <1>2, AloneAt
  <1> QED BY <1>1, <1>3, CliParts, SpawnsStep, WorldIs

-----------------------------------------------------------------------------
(* Timers, and the end of a call by one.                                    *)

\* What a callback does beside the call and the turns leaves all in order.
LEMMA StillGood ==
  ASSUME NEW w, Good(w, conf), NEW v, Moves(w, v, {}), v.call = w.call,
         v.parked = w.parked, v.map = w.map,
         \A q \in Procs : v.cli[q].sink = w.cli[q].sink /\ v.cli[q].turn = w.cli[q].turn
  PROVE  Good(v, conf)
  <1>1. Core(w, conf) /\ w \in Worlds /\ CallSound(w.call) /\ Live(w) /\ Owed(w)
    BY DEF Good, Core, CoreBut, Base
  <1>2. Core(v, conf)
    BY <1>1, QuietlyCore DEF Unnamed
  <1>3. \A q \in Procs : ProcMoves(w.cli[q], v.cli[q], {})
    BY DEF Moves, New
  <1>4. Live(v)
    <2>1. CASE w.call.ph \in {"open", "think"}
      <3>1. w.call.p \in Procs
        BY <1>1, <2>1, CallOf
      <3>2. Whole(w, {}) => Whole(v, {})
        BY <1>1, <1>3, <2>1, <3>1 DEF Whole, ProcMoves
      <3> QED BY <1>1, <1>3, <2>1, <3>1, <3>2 DEF Live, ProcMoves
    <2>2. CASE w.call.ph \notin {"open", "think"}
      BY <2>2 DEF Live
    <2> QED BY <2>1, <2>2
  <1>5. Owed(v)
    <2>1. w.parked # NoProc => w.parked \in Procs
      BY <1>1, CliAssumption DEF Worlds, Procs, NoProc
    <2>2. v.wants = w.wants
      BY DEF Moves
    <2> QED BY <1>1, <1>3, <2>1, <2>2 DEF Owed, Runs, ProcMoves
  <1>6. \A q \in Procs : Quiet(v.cli[q])
    BY <1>3 DEF Good, Quiet, ProcMoves
  <1> QED BY <1>2, <1>4, <1>5, <1>6 DEF Good

LEMMA GoodParts ==
  ASSUME NEW w, Good(w, conf)
  PROVE  /\ w \in Worlds /\ Held(w) /\ Announced(w) /\ Attached(w) /\ Core(w, conf)
         /\ Base(w, conf) /\ CallSound(w.call) /\ Live(w)
         /\ w.call.ph = "open" => w.call.p \in Procs /\ ~w.call.finished /\ Going(w, conf)
                                  /\ w.call.ended = 0 /\ ~w.call.miss
  <1>1. /\ w \in Worlds /\ Held(w) /\ Announced(w) /\ Attached(w) /\ Core(w, conf)
        /\ Base(w, conf) /\ CallSound(w.call) /\ Live(w)
    BY DEF Good, Core, CoreBut, Base
  <1>2. w.call.ph = "open" => w.call.p \in Procs /\ ~w.call.finished
    BY <1>1, CallOf DEF Live
  <1> QED BY <1>1, <1>2, CoreGoing

LEMMA RetireGood ==
  ASSUME NEW w, Good(w, conf), NEW p \in Procs
  PROVE  Good(Retire(w, p), conf)
  <1> DEFINE v == Retire(w, p)
  <1>1. w \in Worlds /\ Held(w)
    BY GoodParts
  <1>2. Retired(w, v, p)
    BY <1>1, RetireMoves
  <1> HIDE DEF v
  <1>3. /\ Moves(w, v, {}) /\ v.call = w.call /\ v.parked = w.parked /\ v.map = w.map
        /\ \A q \in Procs : v.cli[q].sink = w.cli[q].sink /\ v.cli[q].turn = w.cli[q].turn
    BY <1>2 DEF Retired, Local
  <1>4. Good(v, conf)
    BY <1>3, StillGood
  <1> QED BY <1>4 DEF v

LEMMA ForceKillGood ==
  ASSUME NEW w, Good(w, conf), NEW p \in Procs
  PROVE  /\ Good(ForceKill(w, p), conf) /\ ForceKill(w, p).call = w.call
         /\ ForceKill(w, p).cli = w.cli
  <1> DEFINE v == ForceKill(w, p)
  <1>1. w \in Worlds
    BY GoodParts
  <1>2. Moves(w, v, {}) /\ Local(w, v, p) /\ v.cli = w.cli
    BY <1>1, ForceKillMoves
  <1> HIDE DEF v
  <1>3. v.call = w.call /\ v.parked = w.parked /\ v.map = w.map
    BY <1>2 DEF Local
  <1>4. Good(v, conf)
    BY <1>2, <1>3, StillGood
  <1> QED BY <1>2, <1>3, <1>4 DEF v

LEMMA InterruptGood ==
  ASSUME NEW w, Good(w, conf), NEW p \in Procs
  PROVE  Good(Interrupt(w, p), conf) /\ Interrupt(w, p).call = w.call
  <1> DEFINE v == Interrupt(w, p)
  <1>1. w \in Worlds
    BY GoodParts
  <1>2. Moves(w, v, {}) /\ Local(w, v, p) /\ v.cli = w.cli
    BY <1>1, InterruptMoves
  <1> HIDE DEF v
  <1>3. v.call = w.call /\ v.parked = w.parked /\ v.map = w.map
    BY <1>2 DEF Local
  <1>4. Good(v, conf)
    BY <1>2, <1>3, StillGood
  <1> QED BY <1>3, <1>4 DEF v

LEMMA ProgramGood ==
  ASSUME NEW w, Good(w, conf), NEW p \in Procs, NEW o \in Program, OsMoves(w.os[p], o)
  PROVE  Good(WithProgram(w, p, o), conf)
  <1> DEFINE v == WithProgram(w, p, o)
  <1>1. w \in Worlds
    BY GoodParts
  <1>2. Moves(w, v, {}) /\ Local(w, v, p) /\ v.cli = w.cli
    BY <1>1, ProgramMoves
  <1> HIDE DEF v
  <1>3. v.call = w.call /\ v.parked = w.parked /\ v.map = w.map
    BY <1>2 DEF Local
  <1>4. Good(v, conf)
    BY <1>2, <1>3, StillGood
  <1> QED BY <1>4 DEF v

LEMMA ProcGood ==
  ASSUME NEW w, Good(w, conf), NEW p \in Procs, NEW c \in Process, SameHold(w.cli[p], c),
         c.buf = w.cli[p].buf, c.turn = w.cli[p].turn, c.eof = w.cli[p].eof
  PROVE  Good(WithProc(w, p, c), conf)
  <1> DEFINE v == WithProc(w, p, c)
  <1>1. w \in Worlds /\ Announced(w) /\ CallSound(w.call)
    BY GoodParts
  <1>2. Beside(w, v)
    BY <1>1, AsideIs
  <1>3. /\ v.cli[p] = c /\ \A q \in Procs \ {p} : v.cli[q] = w.cli[q]
        /\ v.call = w.call /\ v.wants = w.wants
    BY <1>1, WithProcIs
  <1> HIDE DEF v
  <1>4. \A q \in Procs : /\ v.cli[q].turn = w.cli[q].turn /\ v.cli[q].eof = w.cli[q].eof
                         /\ Quiet(v.cli[q])
    <2>1. Quiet(c)
      BY DEF Good, Quiet, SameHold, Awaited, Ids
    <2> QED BY <1>3, <2>1 DEF Good
  <1>5. w.call.ph = "open" => w.call.p \in Procs
    BY <1>1, CallOf
  <1>6. Turns(w, v)
    BY <1>3, <1>4, <1>5 DEF Turns
  <1>7. Good(v, conf)
    BY <1>2, <1>6, BesideGood
  <1> QED BY <1>7 DEF v

LEMMA CallGood ==
  ASSUME NEW w, Good(w, conf), NEW c \in PiCall, c.ph = w.call.ph, c.p = w.call.p,
         c.n = w.call.n, c.results = w.call.results, c.force = w.call.force,
         c.finished = w.call.finished, c.miss = w.call.miss, c.saw = w.call.saw,
         c.tools = w.call.tools, c.ended = w.call.ended, c.toolUse = w.call.toolUse,
         w.call.selfInt => c.selfInt, c.selfInt => w.call.selfInt \/ w.call.ph = "open"
  PROVE  Good(WithCall(w, c), conf)
  <1> DEFINE v == WithCall(w, c)
  <1>1. w \in Worlds /\ Base(w, conf) /\ CallSound(w.call) /\ Core(w, conf) /\ Live(w)
    BY GoodParts
  <1>2. /\ v \in Worlds /\ v.call = c
        /\ v.cli = w.cli /\ v.os = w.os /\ v.tool = w.tool /\ v.parked = w.parked
        /\ v.map = w.map /\ v.stray = w.stray /\ v.wants = w.wants
    BY <1>1, WithCallIs
  <1>3. /\ c.ph = w.call.ph /\ c.p = w.call.p /\ c.n = w.call.n
        /\ c.results = w.call.results /\ c.force = w.call.force
    OBVIOUS
  <1> HIDE DEF v
  <1>4. Base(v, conf)
    <2>1. Attached(v) /\ \A q \in Procs : OsMoves(w.os[q], v.os[q])
      BY <1>1, <1>2, <1>3 DEF Base, Attached, OsMoves
    <2> QED BY <1>1, <1>2, <2>1, BaseCall
  <1>5. KeptBut(v, NoProc) /\ Free(v)
    BY <1>1, <1>2, <1>3 DEF Core, CoreBut, KeptBut, Free, Serves, Engaged
  <1>6. CallSound(c)
    BY <1>1, <1>3 DEF CallSound
  <1>7. Missed(v, conf)
    BY <1>1, <1>2, <1>3 DEF Core, CoreBut, Missed
  <1>8. Live(v)
    <2>1. Whole(w, {}) => Whole(v, {})
      BY <1>2, <1>3 DEF Whole
    <2> QED BY <1>1, <1>2, <1>3, <2>1 DEF Live
  <1>9. Owed(v)
    BY <1>2, <1>3 DEF Good, Owed, Runs
  <1>10. Good(v, conf)
    BY <1>2, <1>4, <1>5, <1>6, <1>7, <1>8, <1>9 DEF Good, Core, CoreBut
  <1> QED BY <1>10 DEF v

\* An open call is ended with an error.
LEMMA EndedGood ==
  ASSUME NEW w, Good(w, conf), w.call.ph = "open"
  PROVE  Good(Settle(EndWithError(w)), conf)
  <1> DEFINE v == EndWithError(w)
  <1>1. Going(w, conf) /\ w.call.ended = 0 /\ ~w.call.miss /\ w \in Worlds
    BY GoodParts
  <1>2. Core(v, conf) /\ Moves(w, v, {}) /\ v.call.finished /\ v.cli[w.call.p].retired
    BY <1>1, EndWithErrorCore
  <1> HIDE DEF v
  <1>3. v.call.ph = "open" /\ v.call.p = w.call.p
    BY <1>2 DEF Moves, CallMoves
  <1>4. \A q \in Procs : q # w.call.p => Quiet(v.cli[q])
    BY <1>2, QuietMoves DEF Good
  <1>5. Good(Settle(v), conf)
    BY <1>2, <1>3, <1>4, OverGood
  <1> QED BY <1>5 DEF v

LEMMA RetiredAndOver ==
  ASSUME NEW w, Good(w, conf), w.call.ph = "open"
  PROVE  Good(Settle(Finish(Retire(w, w.call.p))), conf)
  <1> DEFINE v == Finish(Retire(w, w.call.p))
  <1>1. Going(w, conf)
    BY GoodParts
  <1>2. Core(v, conf) /\ Moves(w, v, {}) /\ v.call.finished /\ v.cli[w.call.p].retired
    BY <1>1, FinishRetireCore
  <1> HIDE DEF v
  <1>3. v.call.ph = "open" /\ v.call.p = w.call.p
    BY <1>2 DEF Moves, CallMoves
  <1>4. \A q \in Procs : q # w.call.p => Quiet(v.cli[q])
    BY <1>2, QuietMoves DEF Good
  <1>5. Good(Settle(v), conf)
    BY <1>2, <1>3, <1>4, OverGood
  <1> QED BY <1>5 DEF v

\* The process in the pool is retired and leaves it.
LEMMA RetireParkedGood ==
  ASSUME NEW w, Good(w, conf), w.parked # NoProc
  PROVE  Good(Retire([w EXCEPT !.parked = NoProc], w.parked), conf)
  <1> DEFINE p == w.parked
             u == [w EXCEPT !.parked = NoProc]
             v == Retire(u, p)
  <1>1. w \in Worlds /\ Base(w, conf) /\ Core(w, conf) /\ Live(w)
    BY GoodParts
  <1>2. p \in Procs
    BY <1>1, CliAssumption DEF Worlds, Procs, NoProc
  <1>3. /\ u \in Worlds /\ u.parked = NoProc /\ u.cli = w.cli /\ u.os = w.os
        /\ u.tool = w.tool /\ u.call = w.call /\ u.map = w.map
    BY <1>1, CliAssumption DEF Worlds, NoProc
  <1> HIDE DEF p, u
  <1>4. w.call.ph \notin {"think", "lost", "open", "retire"}
    BY <1>1, <1>2 DEF Core, CoreBut, Free, Live, Engaged, Serves
  <1>5. Base(u, conf) /\ Held(u)
    <2>1. Attached(u) /\ \A q \in Procs : OsMoves(w.os[q], u.os[q])
      BY <1>1, <1>3 DEF Base, Attached, OsMoves
    <2>2. Base(u, conf)
      BY <1>1, <1>3, <2>1, BaseCall
    <2> QED BY <2>2 DEF Base
  <1>6. Retired(u, v, p)
    BY <1>2, <1>3, <1>5, RetireMoves
  <1> HIDE DEF v
  <1>7. /\ v \in Worlds /\ Moves(u, v, {}) /\ v.cli[p].retired
        /\ v.call = w.call /\ v.parked = NoProc /\ v.map = w.map
        /\ \A q \in Procs : v.cli[q].turn = w.cli[q].turn
    BY <1>3, <1>6 DEF Retired, Moves, Local
  <1>8. Base(v, conf)
    BY <1>3, <1>5, <1>7, BaseMoves DEF Unnamed
  <1>9. \A q \in Procs : ProcMoves(w.cli[q], v.cli[q], {}) /\ OsMoves(w.os[q], v.os[q])
    BY <1>3, <1>7 DEF Moves, New
  <1>10. KeptBut(v, NoProc) /\ Free(v)
    BY <1>1, <1>4, <1>7, <1>9 DEF Core, CoreBut, KeptBut, Free, Serves, ProcMoves, p
  <1>11. CallSound(v.call) /\ Missed(v, conf)
    BY <1>1, <1>4, <1>7, <1>9 DEF Core, CoreBut, Missed, OsMoves
  <1>12. Live(v) /\ Owed(v)
    BY <1>4, <1>7 DEF Live, Owed
  <1>13. \A q \in Procs : Quiet(v.cli[q])
    BY <1>7, <1>9 DEF Good, Quiet, ProcMoves
  <1>14. Good(v, conf)
    BY <1>7, <1>8, <1>10, <1>11, <1>12, <1>13 DEF Good, Core, CoreBut
  <1> QED BY <1>14 DEF v, u, p

LEMMA AbortStep ==
  ASSUME CliInv, Abort
  PROVE  CliInv'
  <1> DEFINE p == call.p
             c == [call EXCEPT !.aborted = TRUE]
             w == WithCall(World, c)
  <1>1. /\ conf \in Scenarios /\ Good(World, conf) /\ call \in PiCall /\ World \in Worlds
    BY CliParts
  <1>2. [World EXCEPT !.call.aborted = TRUE] = w
    BY <1>1, WorldIs DEF WithCall, Worlds
  <1>3. /\ c \in PiCall /\ c.ph = call.ph /\ c.p = call.p /\ c.n = call.n
        /\ c.results = call.results /\ c.force = call.force /\ c.finished = call.finished
        /\ c.miss = call.miss /\ c.saw = call.saw /\ c.tools = call.tools
        /\ c.ended = call.ended /\ c.toolUse = call.toolUse /\ c.selfInt = call.selfInt
    BY <1>1 DEF PiCall
  <1> HIDE DEF c
  <1>4. Good(w, conf) /\ w.call = c
    BY <1>1, <1>3, CallGood, WithCallIs, WorldIs
  <1> HIDE DEF w
  <1>5. CASE call.ph # "open"
    <2>1. Becomes(w)
      BY <1>2, <1>5 DEF Abort, Called
    <2> QED BY <1>1, <1>4, <2>1, BecomesGood
  <1>6. CASE call.ph = "open" /\ conf.piOwned
    <2>1. Becomes(Settle(EndWithError(w)))
      BY <1>2, <1>6 DEF Abort, Called
    <2>2. Good(Settle(EndWithError(w)), conf)
      BY <1>3, <1>4, <1>6, EndedGood
    <2> QED BY <1>1, <2>1, <2>2, BecomesGood
  <1>7. CASE call.ph = "open" /\ ~conf.piOwned
    <2> DEFINE x == Interrupt(w, p)
               d == [x.call EXCEPT !.selfInt = TRUE]
               y == WithCall(x, d)
               o == [y.os[p] EXCEPT !.backstop = TRUE]
    <2>1. Becomes([x EXCEPT !.call.selfInt = TRUE, !.os[p].backstop = TRUE])
      BY <1>2, <1>7 DEF Abort, Called
    <2>2. p \in Procs
      BY <1>1, <1>7, GoodParts, WorldIs
    <2>3. Good(x, conf) /\ x.call = c
      BY <1>4, <2>2, InterruptGood
    <2> HIDE DEF x
    <2>4. x \in Worlds
      BY <2>3, GoodParts
    <2>5. /\ d \in PiCall /\ d.ph = c.ph /\ d.p = c.p /\ d.n = c.n
          /\ d.results = c.results /\ d.force = c.force /\ d.finished = c.finished
          /\ d.miss = c.miss /\ d.saw = c.saw /\ d.tools = c.tools
          /\ d.ended = c.ended /\ d.toolUse = c.toolUse /\ d.selfInt
      BY <1>3, <2>3 DEF PiCall
    <2>6. [x EXCEPT !.call.selfInt = TRUE, !.os[p].backstop = TRUE]
          = [y EXCEPT !.os[p].backstop = TRUE]
      BY <2>4 DEF WithCall, Worlds
    <2> HIDE DEF d
    <2>7. Good(y, conf)
      BY <1>3, <1>7, <2>3, <2>5, CallGood
    <2> HIDE DEF y
    <2>8. y \in Worlds /\ y.os[p] \in Program
      BY <2>2, <2>7, GoodParts DEF Worlds
    <2>9. [y EXCEPT !.os[p].backstop = TRUE] = WithProgram(y, p, o)
      BY <2>2, <2>8 DEF WithProgram, Worlds
    <2>10. o \in Program /\ OsMoves(y.os[p], o)
      BY <2>8 DEF Program, OsMoves
    <2> HIDE DEF o
    <2>11. Good(WithProgram(y, p, o), conf)
      BY <2>2, <2>7, <2>10, ProgramGood
    <2> QED BY <1>1, <2>1, <2>6, <2>9, <2>11, BecomesGood
  <1> QED BY <1>5, <1>6, <1>7

LEMMA RetireAllStep ==
  ASSUME CliInv, RetireAll
  PROVE  CliInv'
  <1>1. /\ conf \in Scenarios /\ Good(World, conf) /\ World.parked # NoProc
        /\ Becomes(Retire([World EXCEPT !.parked = NoProc], World.parked))
    BY CliParts, WorldIs DEF RetireAll
  <1>2. Good(Retire([World EXCEPT !.parked = NoProc], World.parked), conf)
    BY <1>1, RetireParkedGood
  <1> QED BY <1>1, <1>2, BecomesGood

LEMMA IdleExpiresStep ==
  ASSUME CliInv, NEW p \in Procs, IdleExpires(p)
  PROVE  CliInv'
  <1>1. /\ conf \in Scenarios /\ Good(World, conf) /\ World \in Worlds
        /\ Becomes(Retire([World EXCEPT !.parked = IF @ = p THEN NoProc ELSE @], p))
    BY CliParts DEF IdleExpires
  <1>2. CASE parked = p
    <2>1. [World EXCEPT !.parked = IF @ = p THEN NoProc ELSE @]
          = [World EXCEPT !.parked = NoProc]
      BY <1>2, WorldIs
    <2>2. p # NoProc
      BY CliAssumption DEF Procs, NoProc
    <2>3. Good(Retire([World EXCEPT !.parked = NoProc], World.parked), conf)
      BY <1>1, <1>2, <2>2, RetireParkedGood, WorldIs
    <2> QED BY <1>1, <1>2, <2>1, <2>3, BecomesGood, WorldIs
  <1>3. CASE parked # p
    <2>1. [World EXCEPT !.parked = IF @ = p THEN NoProc ELSE @] = World
      BY <1>1, <1>3, WorldIs DEF Worlds
    <2>2. Good(Retire(World, p), conf)
      BY <1>1, RetireGood
    <2> QED BY <1>1, <2>1, <2>2, BecomesGood
  <1> QED BY <1>2, <1>3

LEMMA GraceExpiresStep ==
  ASSUME CliInv, NEW p \in Procs, GraceExpires(p)
  PROVE  CliInv'
  <1> DEFINE c == [cli[p] EXCEPT !.end = "kill"]
             o == [os[p] EXCEPT !.quit = TRUE]
             w == WithProc(World, p, c)
  <1>1. /\ conf \in Scenarios /\ Good(World, conf) /\ World \in Worlds
        /\ cli[p] \in Process /\ os[p] \in Program
    BY CliParts
  <1>2. Becomes([World EXCEPT !.cli[p].end = "kill", !.os[p].quit = TRUE])
    BY DEF GraceExpires
  <1>3. [World EXCEPT !.cli[p].end = "kill", !.os[p].quit = TRUE] = WithProgram(w, p, o)
    BY <1>1, WorldIs DEF WithProc, WithProgram, Worlds
  <1>4. /\ c \in Process /\ SameHold(cli[p], c) /\ c.buf = cli[p].buf
        /\ c.turn = cli[p].turn /\ c.eof = cli[p].eof
    BY <1>1 DEF Process, SameHold
  <1>5. o \in Program /\ OsMoves(os[p], o)
    BY <1>1 DEF Program, OsMoves
  <1> HIDE DEF c, o
  <1>6. Good(w, conf) /\ w.os = os
    BY <1>1, <1>4, ProcGood, WithProcIs, WorldIs
  <1> HIDE DEF w
  <1>7. Good(WithProgram(w, p, o), conf)
    BY <1>5, <1>6, ProgramGood
  <1> QED BY <1>1, <1>2, <1>3, <1>7, BecomesGood

LEMMA KillExpiresStep ==
  ASSUME CliInv, NEW p \in Procs, KillExpires(p)
  PROVE  CliInv'
  <1> DEFINE w == ForceKill(World, p)
             c == [cli[p] EXCEPT !.end = "done"]
  <1>1. conf \in Scenarios /\ Good(World, conf) /\ cli[p] \in Process
    BY CliParts
  <1>2. Becomes([w EXCEPT !.cli[p].end = "done"])
    BY DEF KillExpires
  <1>3. Good(w, conf) /\ w.cli = cli
    BY <1>1, ForceKillGood, WorldIs
  <1> HIDE DEF w
  <1>4. w \in Worlds
    BY <1>3, GoodParts
  <1>5. [w EXCEPT !.cli[p].end = "done"] = WithProc(w, p, c)
    BY <1>1, <1>3, <1>4 DEF WithProc, Worlds
  <1>6. /\ c \in Process /\ SameHold(cli[p], c) /\ c.buf = cli[p].buf
        /\ c.turn = cli[p].turn /\ c.eof = cli[p].eof
    BY <1>1 DEF Process, SameHold
  <1> HIDE DEF c
  <1>7. Good(WithProc(w, p, c), conf)
    BY <1>3, <1>6, ProcGood
  <1> QED BY <1>1, <1>2, <1>5, <1>7, BecomesGood

LEMMA BackstopStep ==
  ASSUME CliInv, NEW p \in Procs, Backstop(p)
  PROVE  CliInv'
  <1> DEFINE w == ForceKill(World, p)
             o == [w.os[p] EXCEPT !.backstop = FALSE]
  <1>1. conf \in Scenarios /\ Good(World, conf)
    BY CliParts
  <1>2. Becomes([w EXCEPT !.os[p].backstop = FALSE])
    BY DEF Backstop
  <1>3. Good(w, conf)
    BY <1>1, ForceKillGood
  <1> HIDE DEF w
  <1>4. w \in Worlds /\ w.os[p] \in Program
    BY <1>3, GoodParts DEF Worlds
  <1>5. [w EXCEPT !.os[p].backstop = FALSE] = WithProgram(w, p, o)
    BY <1>4 DEF WithProgram, Worlds
  <1>6. o \in Program /\ OsMoves(w.os[p], o)
    BY <1>4 DEF Program, OsMoves
  <1> HIDE DEF o
  <1>7. Good(WithProgram(w, p, o), conf)
    BY <1>3, <1>6, ProgramGood
  <1> QED BY <1>1, <1>2, <1>5, <1>7, BecomesGood

LEMMA InactiveStep ==
  ASSUME CliInv, Inactive
  PROVE  CliInv'
  <1> DEFINE p == call.p
             w == ForceKill(World, p)
  <1>1. /\ conf \in Scenarios /\ Good(World, conf) /\ call.ph = "open"
        /\ Becomes(Settle(EndWithError(w)))
    BY CliParts DEF Inactive, Called
  <1>2. p \in Procs
    BY <1>1, GoodParts, WorldIs
  <1>3. Good(w, conf) /\ w.call = call
    BY <1>1, <1>2, ForceKillGood, WorldIs
  <1> HIDE DEF w
  <1>4. Good(Settle(EndWithError(w)), conf)
    BY <1>1, <1>3, EndedGood
  <1> QED BY <1>1, <1>4, BecomesGood

LEMMA AgentsWaitedOutStep ==
  ASSUME CliInv, AgentsWaitedOut
  PROVE  CliInv'
  <1>1. /\ conf \in Scenarios /\ Good(World, conf) /\ World.call.ph = "open"
        /\ Becomes(Settle(Finish(Retire(World, World.call.p))))
    BY CliParts, WorldIs DEF AgentsWaitedOut, Called
  <1>2. Good(Settle(Finish(Retire(World, World.call.p))), conf)
    BY <1>1, RetiredAndOver
  <1> QED BY <1>1, <1>2, BecomesGood

LEMMA StrayTimerStep ==
  ASSUME CliInv, NEW x \in stray, StrayTimer(x)
  PROVE  CliInv'
  <1> DEFINE w == [World EXCEPT !.stray = @ \ {x}]
  <1>1. conf \in Scenarios /\ Good(World, conf) /\ World \in Worlds
    BY CliParts
  <1>2. x \in [p : Procs, waits : BOOLEAN]
    BY <1>1, WorldParts, WorldIs
  <1>3. /\ w \in Worlds /\ w.cli = cli /\ w.os = os /\ w.tool = tool /\ w.call = call
        /\ w.parked = parked /\ w.map = map /\ w.wants = wants
    BY <1>1, WorldIs DEF Worlds
  <1>4. Becomes(IF x.waits THEN Retire(w, x.p) ELSE ForceKill(w, x.p))
    BY DEF StrayTimer
  <1> HIDE DEF w
  <1>5. Beside(World, w) /\ Turns(World, w)
    <2>1. \A q \in Procs : SameHold(cli[q], w.cli[q]) /\ Quiet(w.cli[q])
      BY <1>3, CliParts DEF SameHold
    <2>2. Announced(World) /\ (call.ph = "open" => call.p \in Procs)
      BY <1>1, GoodParts, WorldIs
    <2>3. \A q \in Procs : Lines(World, w, q)
      BY <1>3, <2>2, WorldIs DEF Announced, Lines
    <2> QED BY <1>3, <2>1, <2>2, <2>3, WorldIs DEF Beside, Turns, Untouched
  <1>6. Good(w, conf)
    BY <1>1, <1>5, BesideGood
  <1>7. Good(Retire(w, x.p), conf) /\ Good(ForceKill(w, x.p), conf)
    BY <1>2, <1>6, RetireGood, ForceKillGood
  <1> QED BY <1>1, <1>4, <1>7, BecomesGood

-----------------------------------------------------------------------------
(* The end of stdout and of a process.                                      *)

LEMMA StdoutCloseStep ==
  ASSUME CliInv, NEW p \in Procs, StdoutClose(p)
  PROVE  CliInv'
  <1> DEFINE c == [cli[p] EXCEPT !.eof = TRUE, !.turn = FALSE]
             w == WithProc(World, p, c)
  <1>1. /\ conf \in Scenarios /\ Good(World, conf) /\ World \in Worlds
        /\ Core(World, conf) /\ cli[p] \in Process
        /\ \A q \in Procs : Quiet(cli[q])
    BY CliParts
  <1>2. /\ Announced(World) /\ Attached(World) /\ Live(World)
        /\ call.ph = "open" => call.p \in Procs
    BY <1>1, GoodParts, WorldIs
  <1>3. [World EXCEPT !.cli[p].eof = TRUE, !.cli[p].turn = FALSE] = w
    BY <1>1, WorldIs DEF WithProc, Worlds
  <1>4. /\ c \in Process /\ SameHold(cli[p], c) /\ c.buf = cli[p].buf
        /\ c.eof /\ ~c.turn
    BY <1>1 DEF Process, SameHold
  <1>5. IF cli[p].alive /\ cli[p].sink THEN Becomes(Settle(OnClose(w, FALSE)))
        ELSE Becomes(w)
    BY <1>3 DEF StdoutClose
  <1> HIDE DEF c
  <1>6. Beside(World, w)
    BY <1>1, <1>2, <1>4, AsideIs, WorldIs
  <1>7. /\ w \in Worlds /\ w.cli[p] = c /\ \A q \in Procs \ {p} : w.cli[q] = cli[q]
        /\ w.call = call /\ w.wants = wants
    BY <1>1, <1>4, WithProcIs, WorldIs
  <1> HIDE DEF w
  <1>8. Core(w, conf)
    BY <1>1, <1>6, BesideCore DEF Core
  <1>9. \A q \in Procs : Quiet(w.cli[q])
    BY <1>1, <1>4, <1>7 DEF Quiet
  <1>10. CASE cli[p].alive /\ cli[p].sink
    <2> DEFINE v == OnClose(w, FALSE)
    <2>1. p = call.p /\ call.ph = "open"
      BY <1>2, <1>10, WorldIs DEF Attached
    <2>2. Core(v, conf) /\ Moves(w, v, {}) /\ v.call.finished
      BY <1>7, <1>8, <2>1, OnCloseCore
    <2>3. Becomes(Settle(v))
      BY <1>5, <1>10
    <2> HIDE DEF v
    <2>4. v.call.ph = "open" /\ v.call.p = p /\ v.cli[p].eof
      BY <1>4, <1>7, <2>1, <2>2 DEF Moves, CallMoves, ProcMoves
    <2>5. \A q \in Procs : q # v.call.p => Quiet(v.cli[q])
      BY <1>7, <1>9, <2>1, <2>2, <2>4, QuietMoves
    <2>6. Good(Settle(v), conf)
      BY <2>2, <2>4, <2>5, OverGood
    <2> QED BY <1>1, <2>3, <2>6, BecomesGood
  <1>11. CASE ~(cli[p].alive /\ cli[p].sink)
    <2>1. call.ph = "open" => call.p # p
      BY <1>2, <1>11, WorldIs DEF Live
    <2>2. Turns(World, w)
      BY <1>2, <1>4, <1>7, <1>9, <2>1, WorldIs DEF Turns
    <2>3. Good(w, conf)
      BY <1>1, <1>6, <2>2, BesideGood
    <2> QED BY <1>1, <1>5, <1>11, <2>3, BecomesGood
  <1> QED BY <1>10, <1>11

ClosedProc(c) == [c EXCEPT !.alive = FALSE, !.turn = FALSE, !.idle = "off",
                           !.end = IF @ = "no" THEN @ ELSE "done"]

\* The process p is dead, holds no call, and is in no pool.
LEMMA ClosedCore ==
  ASSUME CliInv, NEW p \in Procs
  PROVE  LET w == Closed(World, p) IN
         /\ Core(w, conf) /\ w.call = call /\ w.wants = wants
         /\ ~w.cli[p].alive /\ w.cli[p].sink = cli[p].sink /\ ~w.cli[p].turn
         /\ w.parked = IF parked = p THEN NoProc ELSE parked
         /\ \A q \in Procs \ {p} : w.cli[q] = cli[q]
         /\ \A q \in Procs : Quiet(w.cli[q])
  <1> DEFINE x == FailPending(World, p)
             c == ClosedProc(x.cli[p])
             o == [os[p] EXCEPT !.backstop = FALSE]
             y == WithProc(x, p, c)
             z == WithProgram(y, p, o)
             k == IF parked = p THEN NoProc ELSE parked
             w == Closed(World, p)
  <1>1. /\ World \in Worlds /\ Good(World, conf) /\ Core(World, conf) /\ os[p] \in Program
        /\ parked \in 0 .. MaxProcs /\ p # NoProc
    BY CliParts, CliAssumption DEF Procs, NoProc
  <1>2. /\ Moves(World, x, {}) /\ Local(World, x, p) /\ x.os = os
        /\ x.cli[p].pending = {} /\ Awaited(x.cli[p]) = {} /\ x.cli[p].ready = {}
    BY <1>1, GoodParts, FailPendingMoves, WorldIs
  <1>3. w = [z EXCEPT !.parked = k]
    <2>1. x \in Worlds /\ x.parked = parked
      BY <1>2, WorldIs DEF Moves, Local
    <2>2. w = [x EXCEPT
          !.cli[p].alive = FALSE, !.cli[p].turn = FALSE, !.cli[p].idle = "off",
          !.cli[p].end = IF @ = "no" THEN @ ELSE "done",
          !.os[p].backstop = FALSE,
          !.parked = IF @ = p THEN NoProc ELSE @]
      BY DEF Closed
    <2> HIDE DEF w, x
    <2>3. x.cli \in [Procs -> Process] /\ x.cli[p] \in Process
      BY <2>1, WorldParts
    <2>4. [x EXCEPT !.cli[p].alive = FALSE, !.cli[p].turn = FALSE, !.cli[p].idle = "off",
                    !.cli[p].end = IF @ = "no" THEN @ ELSE "done"] = y
      <3> DEFINE e == IF x.cli[p].end = "no" THEN x.cli[p].end ELSE "done"
                 d == [x.cli[p] EXCEPT !.alive = FALSE, !.turn = FALSE, !.idle = "off"]
                 v == [x EXCEPT !.cli[p].alive = FALSE, !.cli[p].turn = FALSE,
                                !.cli[p].idle = "off"]
                 u == WithProc(x, p, d)
      <3>1. [x EXCEPT !.cli[p].alive = FALSE, !.cli[p].turn = FALSE, !.cli[p].idle = "off",
                      !.cli[p].end = e] = [v EXCEPT !.cli[p].end = e]
        OBVIOUS
      <3>2. v = u
        BY <2>1, <2>3 DEF WithProc, Worlds, Process
      <3>3. d \in Process
        BY <2>3 DEF Process
      <3>4. c = [d EXCEPT !.end = e]
        BY <2>3 DEF ClosedProc, Process
      <3> HIDE DEF d, v, e
      <3>5. u \in Worlds /\ u.cli[p] = d
        BY <2>1, <3>3, WithProcIs
      <3>6. WithProc(u, p, c) = y
        BY <2>1, <2>3 DEF WithProc, Worlds
      <3>7. [u EXCEPT !.cli[p].end = e] = WithProc(u, p, c)
        <4> HIDE DEF c, u
        <4> QED BY <3>3, <3>4, <3>5 DEF WithProc, Worlds, Process
      <3> QED BY <3>1, <3>2, <3>6, <3>7 DEF e
    <2>5. w = [y EXCEPT !.os[p].backstop = FALSE, !.parked = IF @ = p THEN NoProc ELSE @]
      BY <2>2, <2>4
    <2> QED BY <1>2, <2>1, <2>5 DEF WithProc, WithProgram, Worlds
  <1> HIDE DEF x, w
  <1>4. /\ x \in Worlds /\ x.call = call /\ x.parked = parked /\ x.map = map
        /\ x.wants = wants /\ x.cli[p].sink = cli[p].sink
        /\ \A q \in Procs \ {p} : x.cli[q] = cli[q]
    BY <1>2, WorldIs DEF Moves, Local
  <1>5. x.cli[p] \in Process
    BY <1>4, WorldParts
  <1>6. /\ c \in Process /\ ~c.alive /\ ~c.turn /\ c.sink = x.cli[p].sink
        /\ c.buf = x.cli[p].buf /\ c.session = x.cli[p].session
        /\ c.awaiting = x.cli[p].awaiting /\ c.pending = x.cli[p].pending
        /\ c.ready = x.cli[p].ready
    <2>1. (IF x.cli[p].end = "no" THEN x.cli[p].end ELSE "done") \in {"no", "grace", "kill", "done"}
      OBVIOUS
    <2> QED BY ZenonT(40), <1>5, <2>1 DEF Process, ClosedProc
  <1>7. o \in Program /\ OsMoves(os[p], o)
    BY <1>1 DEF Program, OsMoves
  <1> HIDE DEF c, o
  <1>8. /\ y \in Worlds /\ y.cli[p] = c /\ \A q \in Procs \ {p} : y.cli[q] = x.cli[q]
        /\ y.os = os /\ y.tool = x.tool /\ y.call = call /\ y.parked = parked
        /\ y.map = map /\ y.wants = wants
    BY <1>2, <1>4, <1>6, WithProcIs
  <1> HIDE DEF y
  <1>9. /\ z \in Worlds /\ z.os[p] = o /\ \A q \in Procs \ {p} : z.os[q] = os[q]
        /\ z.cli = y.cli /\ z.tool = x.tool /\ z.call = call /\ z.map = map
        /\ z.wants = wants
    BY <1>7, <1>8, WithProgramIs
  <1> HIDE DEF z
  <1>10. k \in 0 .. MaxProcs
    BY <1>1, CliAssumption DEF NoProc
  <1>11. /\ w \in Worlds /\ w.cli = y.cli /\ w.os = z.os /\ w.tool = x.tool /\ w.call = call
         /\ w.map = map /\ w.wants = wants /\ w.parked = k
    BY <1>3, <1>9, <1>10 DEF Worlds
  <1>12. \A q \in Procs : OsMoves(os[q], w.os[q])
    BY <1>7, <1>9, <1>11 DEF OsMoves
  <1>13. Good(x, conf)
    BY <1>1, <1>2, <1>4, StillGood, WorldIs DEF Local
  <1>14. Base(x, conf) /\ Core(x, conf)
    BY <1>13, GoodParts
  <1>15. Base(w, conf)
    <2>1. Held(w)
      BY <1>2, <1>6, <1>8, <1>11, <1>14 DEF Base, Held
    <2>2. Matched(w, conf)
      BY <1>2, <1>6, <1>8, <1>11, <1>14 DEF Base, Matched
    <2>3. \A q \in Procs : /\ Known(w.cli[q]) = Known(x.cli[q]) /\ Ids(w.cli[q]) = Ids(x.cli[q])
                           /\ w.cli[q].buf = x.cli[q].buf /\ w.os[q].out = x.os[q].out
                           /\ w.cli[q].awaiting = x.cli[q].awaiting
      BY <1>2, <1>6, <1>8, <1>11, <1>12 DEF Known, Awaited, Ids, OsMoves
    <2>4. Announced(w)
      BY <1>11, <1>14, <2>3 DEF Base, Announced
    <2>5. Born(w)
      BY <1>2, <1>6, <1>8, <1>11, <1>12, <1>14 DEF Base, Born, OsMoves
    <2>6. Attached(w)
      BY <1>4, <1>6, <1>8, <1>11, <1>14 DEF Base, Attached
    <2> QED BY <1>11, <2>1, <2>2, <2>4, <2>5, <2>6 DEF Base
  <1>16. KeptBut(w, NoProc)
    <2> SUFFICES ASSUME NEW q \in Procs, w.cli[q].alive, ~w.cli[q].retired
                 PROVE  q = w.parked \/ (q = w.call.p /\ Serves(w.call))
      BY DEF KeptBut
    <2>1. q # p
      BY <1>6, <1>8, <1>11
    <2>2. q # NoProc
      BY CliAssumption DEF Procs, NoProc
    <2> QED BY <1>4, <1>8, <1>11, <1>14, <2>1, <2>2 DEF Core, CoreBut, KeptBut
  <1>17. Free(w) /\ CallSound(w.call)
    BY <1>4, <1>11, <1>14 DEF Core, CoreBut, Free
  <1>18. Missed(w, conf)
    <2>1. \A q \in Procs : w.os[q].resumed = os[q].resumed
      BY <1>12 DEF OsMoves
    <2>2. \A q \in Procs : w.cli[q].session = x.cli[q].session
      BY <1>6, <1>8, <1>11
    <2>3. call.ph = "open" => call.p \in Procs
      BY <1>1, GoodParts, WorldIs
    <2> QED BY <1>1, <1>2, <1>4, <1>11, <1>14, <2>1, <2>2, <2>3 DEF Core, CoreBut, Missed
  <1>19. \A q \in Procs : Quiet(w.cli[q])
    BY <1>6, <1>8, <1>11, <1>13 DEF Good, Quiet
  <1>20. Core(w, conf)
    BY <1>15, <1>16, <1>17, <1>18 DEF Core, CoreBut
  <1> QED BY <1>4, <1>6, <1>8, <1>11, <1>19, <1>20 DEF w

LEMMA ProcCloseStep ==
  ASSUME CliInv, NEW p \in Procs, ProcClose(p)
  PROVE  CliInv'
  <1> DEFINE w == Closed(World, p)
  <1>1. /\ conf \in Scenarios /\ Good(World, conf) /\ Live(World) /\ Owed(World)
        /\ p # NoProc
    BY CliParts, CliAssumption DEF Procs, NoProc
  <1>2. Attached(World) /\ (call.ph = "open" => call.p \in Procs /\ ~call.finished)
    BY <1>1, GoodParts, WorldIs
  <1>3. /\ Core(w, conf) /\ w.call = call /\ w.wants = wants
        /\ ~w.cli[p].alive /\ w.cli[p].sink = cli[p].sink /\ ~w.cli[p].turn
        /\ w.parked = IF parked = p THEN NoProc ELSE parked
        /\ \A q \in Procs \ {p} : w.cli[q] = cli[q]
        /\ \A q \in Procs : Quiet(w.cli[q])
    BY ClosedCore
  <1>4. CASE cli[p].sink /\ ~cli[p].eof
    <2> DEFINE v == OnClose(w, os[p].run = "crashed")
               c == [v.cli[p] EXCEPT !.eof = TRUE]
               h == WithProc(v, p, c)
    <2>1. p = call.p /\ call.ph = "open"
      BY <1>2, <1>4, WorldIs DEF Attached
    <2>2. Core(v, conf) /\ Moves(w, v, {}) /\ v.call.finished
      BY <1>3, <2>1, OnCloseCore
    <2>3. Becomes(Settle([v EXCEPT !.cli[p].eof = TRUE]))
      BY <1>4 DEF ProcClose
    <2> HIDE DEF v
    <2>4. v \in Worlds /\ Announced(v)
      BY <2>2 DEF Core, CoreBut, Base
    <2>5. v.cli[p] \in Process
      BY <2>4, WorldParts
    <2>6. [v EXCEPT !.cli[p].eof = TRUE] = h
      BY <2>4 DEF WithProc, Worlds
    <2>7. c \in Process /\ SameHold(v.cli[p], c) /\ c.buf = v.cli[p].buf /\ c.eof
      BY <2>5 DEF Process, SameHold
    <2> HIDE DEF c
    <2>8. Beside(v, h)
      BY <2>4, <2>7, AsideIs
    <2>9. h.cli[p] = c /\ h.call = v.call /\ \A q \in Procs \ {p} : h.cli[q] = v.cli[q]
      BY <2>4, <2>7, WithProcIs
    <2> HIDE DEF h
    <2>10. Core(h, conf)
      BY <2>2, <2>8, BesideCore DEF Core
    <2>11. v.call.ph = "open" /\ v.call.p = p
      BY <1>3, <2>1, <2>2 DEF Moves, CallMoves
    <2>12. \A q \in Procs : q # p => Quiet(h.cli[q])
      BY <1>3, <2>1, <2>2, <2>9, QuietMoves
    <2>13. Good(Settle(h), conf)
      BY <2>2, <2>7, <2>9, <2>10, <2>11, <2>12, OverGood
    <2> QED BY <1>1, <2>3, <2>6, <2>13, BecomesGood
  <1>5. CASE ~(cli[p].sink /\ ~cli[p].eof)
    <2> DEFINE c == [w.cli[p] EXCEPT !.eof = TRUE]
               h == WithProc(w, p, c)
    <2>1. Becomes(Settle([w EXCEPT !.cli[p].eof = TRUE]))
      BY <1>5 DEF ProcClose
    <2> HIDE DEF w
    <2>2. w \in Worlds /\ Announced(w)
      BY <1>3 DEF Core, CoreBut, Base
    <2>3. w.cli[p] \in Process
      BY <2>2, WorldParts
    <2>4. [w EXCEPT !.cli[p].eof = TRUE] = h
      BY <2>2 DEF WithProc, Worlds
    <2>5. /\ c \in Process /\ SameHold(w.cli[p], c) /\ c.buf = w.cli[p].buf /\ c.eof
          /\ ~c.alive /\ ~c.turn
      BY <1>3, <2>3 DEF Process, SameHold
    <2> HIDE DEF c
    <2>6. Beside(w, h)
      BY <2>2, <2>5, AsideIs
    <2>7. /\ h.cli[p] = c /\ h.call = call /\ \A q \in Procs \ {p} : h.cli[q] = cli[q]
          /\ h.parked = w.parked /\ h.wants = wants
      BY <1>3, <2>2, <2>5, WithProcIs
    <2> HIDE DEF h
    <2>8. Core(h, conf)
      BY <1>3, <2>6, BesideCore DEF Core
    <2>9. call.ph = "open" => call.p # p
      BY <1>1, <1>5, WorldIs DEF Live
    <2>10. Settle(h) = h
      BY <1>2, <2>7 DEF Settle
    <2>11. Live(h)
      <3>1. CASE call.ph = "open"
        <4>1. h.cli[call.p] = cli[call.p]
          BY <1>2, <2>7, <2>9, <3>1
        <4>2. Whole(World, {}) => Whole(h, {})
          BY <2>7, <4>1, WorldIs DEF Whole
        <4> QED BY <1>1, <2>7, <3>1, <4>1, <4>2, WorldIs DEF Live
      <3>2. CASE call.ph = "think"
        <4>1. call.p \in Procs
          BY <3>2, CliParts, CallOf, WorldIs
        <4> QED BY <1>1, <2>5, <2>7, <3>2, <4>1, WorldIs DEF Live
      <3> QED BY <2>7, <3>1, <3>2 DEF Live
    <2>12. Owed(h)
      BY <1>1, <1>3, <2>7, WorldIs, CliParts DEF Owed, Runs
    <2>13. \A q \in Procs : Quiet(h.cli[q])
      BY <2>5, <2>7, CliParts DEF Quiet
    <2>14. Good(h, conf)
      BY <2>8, <2>11, <2>12, <2>13 DEF Good
    <2> QED BY <1>1, <2>1, <2>4, <2>10, <2>14, BecomesGood
  <1> QED BY <1>4, <1>5
-----------------------------------------------------------------------------
(* A line of stdout.                                                        *)

LEMMA TailLines ==
  ASSUME NEW m \in Seq(Line), m # <<>>
  PROVE  /\ Tail(m) \in Seq(Line) /\ Head(m) \in Line
         /\ Blocks(Tail(m)) \subseteq Blocks(m)
         /\ Once(m) => Once(Tail(m))
         /\ Head(m).k = "tool" => Head(m).t \in Blocks(m)
         /\ Once(m) /\ Head(m).k = "tool" => Head(m).t \notin Blocks(Tail(m))
  <1>1. /\ Tail(m) \in Seq(Line) /\ Len(m) \in Nat \ {0} /\ Head(m) = m[1]
        /\ Len(Tail(m)) = Len(m) - 1 /\ \A i \in 1 .. Len(m) - 1 : Tail(m)[i] = m[i + 1]
        /\ DOMAIN m = 1 .. Len(m) /\ DOMAIN Tail(m) = 1 .. Len(m) - 1
    OBVIOUS
  <1>2. \A i \in DOMAIN Tail(m) : i \in Nat /\ i + 1 \in DOMAIN m /\ Tail(m)[i] = m[i + 1]
    BY <1>1
  <1>3. 1 \in DOMAIN m /\ \A i \in DOMAIN Tail(m) : i + 1 # 1
    BY <1>1
  <1>4. Blocks(Tail(m)) \subseteq Blocks(m)
    BY <1>2 DEF Blocks
  <1>5. ASSUME Once(m) PROVE Once(Tail(m))
    <2> SUFFICES ASSUME NEW i \in DOMAIN Tail(m), NEW j \in DOMAIN Tail(m),
                        Tail(m)[i].k = "tool", Tail(m)[j].k = "tool",
                        Tail(m)[i].t = Tail(m)[j].t
                 PROVE  i = j
      BY DEF Once
    <2>1. i + 1 = j + 1
      BY <1>2, <1>5 DEF Once
    <2> QED BY <1>2, <2>1
  <1>6. Head(m) \in Line
    BY <1>1
  <1>7. ASSUME Head(m).k = "tool" PROVE Head(m).t \in Blocks(m)
    BY <1>1, <1>3, <1>7 DEF Blocks
  <1>8. ASSUME Once(m), Head(m).k = "tool", Head(m).t \in Blocks(Tail(m)) PROVE FALSE
    <2>1. PICK i \in DOMAIN Tail(m) : Tail(m)[i].k = "tool" /\ Tail(m)[i].t = Head(m).t
      BY <1>8 DEF Blocks
    <2>2. m[i + 1].k = "tool" /\ m[i + 1].t = m[1].t /\ m[1].k = "tool"
      BY <1>1, <1>2, <1>8, <2>1
    <2>3. i + 1 = 1
      BY <1>2, <1>3, <1>8, <2>1, <2>2 DEF Once
    <2> QED BY <1>3, <2>1, <2>3
  <1> QED BY <1>1, <1>4, <1>5, <1>6, <1>7, <1>8

LEMMA AppendLines ==
  ASSUME NEW m \in Seq(Line), NEW l \in Line, Once(m), l.k = "tool" => l.t \notin Blocks(m)
  PROVE  /\ Append(m, l) \in Seq(Line) /\ Once(Append(m, l))
         /\ \A t \in Blocks(Append(m, l)) : t \in Blocks(m) \/ (l.k = "tool" /\ t = l.t)
  <1> DEFINE n == Append(m, l)
             k == Len(m) + 1
  <1>1. /\ n \in Seq(Line) /\ Len(m) \in Nat /\ DOMAIN m = 1 .. Len(m)
        /\ DOMAIN n = 1 .. Len(m) + 1 /\ n[k] = l /\ \A i \in DOMAIN m : n[i] = m[i]
    OBVIOUS
  <1>2. \A i \in DOMAIN n : i \in DOMAIN m \/ i = k
    BY <1>1
  <1> HIDE DEF n, k
  <1>3. \A t \in Blocks(n) : t \in Blocks(m) \/ (l.k = "tool" /\ t = l.t)
    BY <1>1, <1>2 DEF Blocks
  <1>4. Once(n)
    <2> SUFFICES ASSUME NEW i \in DOMAIN n, NEW j \in DOMAIN n, n[i].k = "tool",
                        n[j].k = "tool", n[i].t = n[j].t
                 PROVE  i = j
      BY DEF Once
    <2>1. CASE i = k /\ j = k
      BY <2>1
    <2>2. CASE i \in DOMAIN m /\ j \in DOMAIN m
      BY <1>1, <2>2 DEF Once
    <2>3. CASE i = k /\ j \in DOMAIN m
      <3>1. l.t \in Blocks(m)
        BY <1>1, <2>3 DEF Blocks
      <3> QED BY <1>1, <2>3, <3>1
    <2>4. CASE i \in DOMAIN m /\ j = k
      <3>1. l.t \in Blocks(m)
        BY <1>1, <2>4 DEF Blocks
      <3> QED BY <1>1, <2>4, <3>1
    <2> QED BY <1>2, <2>1, <2>2, <2>3, <2>4
  <1> QED BY <1>1, <1>3, <1>4 DEF n

\* A line is read, and is perhaps buffered.
Buffered(m, l, n) ==
    n = m \/ n = Append(m, l) \/ (m # <<>> /\ n = Append(Tail(m), l))

LEMMA ReadBeside ==
  ASSUME NEW w \in Worlds, Announced(w), Born(w), NEW p \in Procs, w.os[p].out # <<>>,
         NEW v \in Worlds, v.call = w.call, v.parked = w.parked, v.map = w.map,
         \A q \in Procs : SameHold(w.cli[q], v.cli[q]),
         \A q \in Procs \ {p} : v.cli[q].buf = w.cli[q].buf /\ v.os[q] = w.os[q],
         v.os[p].out = Tail(w.os[p].out), v.os[p].resumed = w.os[p].resumed,
         v.os[p].run = w.os[p].run, Untouched(w, v),
         Buffered(w.cli[p].buf, Head(w.os[p].out), v.cli[p].buf)
  PROVE  /\ Beside(w, v)
         /\ Head(w.os[p].out).k = "tool" =>
               /\ Head(w.os[p].out).t \in Tools
               /\ v.tool[Head(w.os[p].out).t].p = p
               /\ Head(w.os[p].out).t \notin Ids(v.cli[p])
               /\ Head(w.os[p].out).t \notin Blocks(v.os[p].out)
               /\ v.cli[p].buf = w.cli[p].buf => Head(w.os[p].out).t \notin Blocks(v.cli[p].buf)
  <1> DEFINE m == w.cli[p].buf
             o == w.os[p].out
             l == Head(o)
             n == v.cli[p].buf
  <1>1. m \in Seq(Line) /\ o \in Seq(Line)
    BY DEF Worlds, Process, Program
  <1>2. /\ Tail(o) \in Seq(Line) /\ l \in Line /\ Blocks(Tail(o)) \subseteq Blocks(o)
        /\ Once(o) => Once(Tail(o))
        /\ l.k = "tool" => l.t \in Blocks(o)
        /\ Once(o) /\ l.k = "tool" => l.t \notin Blocks(Tail(o))
    BY <1>1, TailLines
  <1>3. /\ Once(m) /\ Once(o) /\ Blocks(m) \cap Blocks(o) = {}
        /\ (Blocks(m) \cup Blocks(o)) \cap Known(w.cli[p]) = {}
        /\ \A t \in Blocks(m) \cup Blocks(o) : t \in Tools /\ w.tool[t].p = p
    BY DEF Announced
  <1>4. Buffered(m, l, n) /\ v.os[p].out = Tail(o)
    OBVIOUS
  <1>5. l.k = "tool" => l.t \notin Blocks(m)
    BY <1>2, <1>3
  <1> HIDE DEF m, o, l, n
  <1>6. Once(n) /\ \A t \in Blocks(n) : t \in Blocks(m) \/ (l.k = "tool" /\ t = l.t)
    <2>1. CASE n = m
      BY <1>3, <2>1
    <2>2. CASE n = Append(m, l)
      BY <1>1, <1>2, <1>3, <1>5, <2>2, AppendLines
    <2>3. CASE m # <<>> /\ n = Append(Tail(m), l)
      <3>1. /\ Tail(m) \in Seq(Line) /\ Blocks(Tail(m)) \subseteq Blocks(m) /\ Once(Tail(m))
        BY <1>1, <1>3, <2>3, TailLines
      <3> QED BY <1>2, <1>5, <2>3, <3>1, AppendLines
    <2> QED BY <1>4, <2>1, <2>2, <2>3 DEF Buffered
  <1>7. Lines(w, v, p)
    <2>1. Blocks(n) \cap Blocks(Tail(o)) = {}
      BY <1>2, <1>3, <1>6
    <2>2. \A t \in Blocks(n) \cup Blocks(Tail(o)) : t \in Blocks(m) \cup Blocks(o)
      BY <1>2, <1>6
    <2> QED BY <1>2, <1>3, <1>4, <1>6, <2>1, <2>2 DEF Lines, m, n, o
  <1>8. \A q \in Procs : Lines(w, v, q)
    <2> TAKE q \in Procs
    <2>1. CASE q # p
      BY <2>1 DEF Announced, Lines
    <2> QED BY <1>7, <2>1
  <1>9. ASSUME l.k = "tool"
        PROVE  /\ l.t \in Tools /\ v.tool[l.t].p = p /\ l.t \notin Ids(v.cli[p])
               /\ l.t \notin Blocks(v.os[p].out)
               /\ n = m => l.t \notin Blocks(n)
    <2>1. l.t \in Blocks(o) /\ l.t \in Tools /\ w.tool[l.t].p = p /\ l.t \notin Known(w.cli[p])
      BY <1>2, <1>3, <1>9
    <2>2. Ids(v.cli[p]) = Ids(w.cli[p])
      BY DEF SameHold, Ids
    <2>3. v.tool[l.t].p = p
      <3>1. p # 0
        BY CliAssumption DEF Procs
      <3> QED BY <2>1, <3>1 DEF Born, Untouched
    <2> QED BY <1>2, <1>3, <1>4, <1>5, <1>9, <2>1, <2>2, <2>3 DEF Known, Awaited
  <1> QED BY <1>8, <1>9 DEF Beside, m, n, o, l

LEMMA PermitIs ==
  ASSUME NEW w \in Worlds, NEW t
  PROVE  LET v == Permit(w, t) IN
         /\ v \in Worlds /\ Untouched(w, v)
         /\ v.cli = w.cli /\ v.os = w.os /\ v.call = w.call /\ v.parked = w.parked
         /\ v.map = w.map /\ v.stray = w.stray /\ v.wants = w.wants
  <1> DEFINE v == Permit(w, t)
             may == [w.tool EXCEPT ![t] = [w.tool[t] EXCEPT !.at = "may"]]
             denied == [w.tool EXCEPT ![t] = [w.tool[t] EXCEPT !.at = "done", !.by = "denied"]]
             With(f) == [w EXCEPT !.tool = f]
  <1>1. w.tool \in [Tools -> Block]
    BY WorldParts
  <1>2. \/ v = w
        \/ w.tool[t].at = "asked" /\ v = With(may)
        \/ w.tool[t].at = "asked" /\ v = With(denied)
    <2>1. \/ v = w
          \/ /\ w.tool[t].at = "asked"
             /\ \/ v = [w EXCEPT !.tool[t].at = "may"]
                \/ v = [w EXCEPT !.tool[t].at = "done", !.tool[t].by = "denied"]
      BY DEF Permit
    <2>2. [w EXCEPT !.tool[t].at = "may"] = With(may)
      BY DEF Worlds
    <2>3. [w EXCEPT !.tool[t].at = "done", !.tool[t].by = "denied"] = With(denied)
      BY <1>1 DEF Worlds, Block
    <2> QED BY <2>1, <2>2, <2>3
  <1>3. ASSUME w.tool[t].at = "asked", NEW f \in {may, denied}
        PROVE  /\ f \in [Tools -> Block]
               /\ \A x \in Tools : /\ f[x].at = "open" <=> w.tool[x].at = "open"
                                   /\ f[x].by = "pi" => w.tool[x].by = "pi" /\ f[x].of = w.tool[x].of
                                   /\ f[x].at = "new" => f[x] = w.tool[x]
                                   /\ f[x].p = w.tool[x].p
    <2>1. CASE t \notin Tools
      <3>1. f = w.tool
        BY <1>1, <2>1
      <3> QED BY <1>1, <3>1
    <2>2. CASE t \in Tools
      <3>1. w.tool[t] \in Block
        BY <1>1, <2>2
      <3> DEFINE x == w.tool[t]
                 a == [x EXCEPT !.at = "may"]
                 d == [x EXCEPT !.at = "done", !.by = "denied"]
      <3>2. /\ a \in Block /\ a.at = "may" /\ a.by = x.by /\ a.of = x.of /\ a.p = x.p
            /\ d \in Block /\ d.at = "done" /\ d.by = "denied" /\ d.p = x.p
        BY <3>1 DEF Block
      <3> HIDE DEF a, d
      <3>3. may = [w.tool EXCEPT ![t] = a] /\ denied = [w.tool EXCEPT ![t] = d]
        BY DEF a, d
      <3> HIDE DEF may, denied, x
      <3>4. \E b \in {a, d} : f = [w.tool EXCEPT ![t] = b]
        BY <1>3, <3>3
      <3>5. PICK b \in {a, d} : f = [w.tool EXCEPT ![t] = b]
        BY <3>4
      <3>6. f \in [Tools -> Block] /\ f[t] = b /\ \A y \in Tools \ {t} : f[y] = w.tool[y]
        BY <1>1, <2>2, <3>2, <3>5
      <3>7. x.at = "asked" /\ x = w.tool[t]
        BY <1>3 DEF x
      <3> QED BY <3>2, <3>6, <3>7
    <2> QED BY <2>1, <2>2
  <1> HIDE DEF v, may, denied
  <1>4. ASSUME NEW f \in [Tools -> Block]
        PROVE  /\ With(f) \in Worlds /\ With(f).tool = f
               /\ With(f).cli = w.cli /\ With(f).os = w.os /\ With(f).call = w.call
               /\ With(f).parked = w.parked /\ With(f).map = w.map
               /\ With(f).stray = w.stray /\ With(f).wants = w.wants
    BY DEF Worlds
  <1>5. CASE v = w
    BY <1>5 DEF Untouched, v
  <1>6. CASE w.tool[t].at = "asked" /\ \E f \in {may, denied} : v = With(f)
    <2>1. PICK f \in {may, denied} : v = With(f)
      BY <1>6
    <2>2. f \in [Tools -> Block]
      BY <1>3, <1>6
    <2> HIDE DEF With
    <2>3. Untouched(w, v)
      BY <1>3, <1>4, <1>6, <2>1, <2>2 DEF Untouched
    <2> QED BY <1>4, <2>1, <2>2, <2>3 DEF v
  <1> QED BY <1>2, <1>5, <1>6

LEMMA BufferIs ==
  ASSUME NEW w \in Worlds, NEW p \in Procs, NEW l \in Line, conf \in Scenario
  PROVE  LET v == Buffer(w, p, l) IN
         /\ v \in Worlds
         /\ SameHold(w.cli[p], v.cli[p]) /\ Buffered(w.cli[p].buf, l, v.cli[p].buf)
         /\ v.cli[p].turn = w.cli[p].turn /\ v.cli[p].eof = w.cli[p].eof
         /\ \A q \in Procs \ {p} : v.cli[q] = w.cli[q]
         /\ v.os = w.os /\ v.tool = w.tool /\ v.call = w.call /\ v.parked = w.parked
         /\ v.map = w.map /\ v.wants = w.wants
  <1> DEFINE v == Buffer(w, p, l)
             m == w.cli[p].buf
             n == Append(IF Len(m) >= conf.bufferLimit THEN Tail(m) ELSE m, l)
             c == [w.cli[p] EXCEPT !.buf = n]
  <1>1. w.cli[p] \in Process
    BY WorldParts
  <1>2. CASE l.k = "ask"
    BY <1>2 DEF Buffer, Buffered, SameHold
  <1>3. CASE l.k # "ask"
    <2>1. v = WithProc(w, p, c)
      <3>1. v = [w EXCEPT !.cli[p].buf =
                   Append(IF Len(@) >= conf.bufferLimit THEN Tail(@) ELSE @, l)]
        BY <1>3 DEF Buffer
      <3> QED BY <1>1, <3>1 DEF WithProc, Worlds
    <2>2. m \in Seq(Line) /\ conf.bufferLimit \in Nat \ {0}
      BY <1>1 DEF Process, Scenario
    <2>3. n \in Seq(Line) /\ Buffered(m, l, n)
      <3>1. CASE Len(m) >= conf.bufferLimit
        <4>1. m # <<>> /\ Tail(m) \in Seq(Line)
          BY <2>2, <3>1
        <4>2. n = Append(Tail(m), l)
          BY <3>1
        <4>3. n \in Seq(Line)
          BY <4>1, <4>2
        <4> QED BY <4>1, <4>2, <4>3 DEF Buffered
      <3>2. CASE ~(Len(m) >= conf.bufferLimit)
        BY <2>2, <3>2 DEF Buffered
      <3> QED BY <3>1, <3>2
    <2> HIDE DEF n
    <2>4. /\ c \in Process /\ SameHold(w.cli[p], c) /\ c.buf = n
          /\ c.turn = w.cli[p].turn /\ c.eof = w.cli[p].eof
      BY <1>1, <2>3 DEF Process, SameHold
    <2> HIDE DEF c, v, m
    <2>5. /\ v \in Worlds /\ v.cli[p] = c /\ \A q \in Procs \ {p} : v.cli[q] = w.cli[q]
          /\ v.os = w.os /\ v.tool = w.tool /\ v.call = w.call /\ v.parked = w.parked
          /\ v.map = w.map /\ v.wants = w.wants
      BY <2>1, <2>4, WithProcIs
    <2> QED BY <2>3, <2>4, <2>5 DEF v, m
  <1> QED BY <1>2, <1>3
\* The world in which a line l has been popped, and its request answered.
Popped(w, p, l) ==
    [w EXCEPT !.os[p].out = Tail(@), !.cli[p].turn = IF l.k = "result" THEN FALSE ELSE @]
Permitted(w, p, l) == IF l.k = "ask" THEN Permit(Popped(w, p, l), l.t) ELSE Popped(w, p, l)

LEMMA PermittedIs ==
  ASSUME NEW w \in Worlds, NEW p \in Procs, w.os[p].out # <<>>, NEW l \in Line
  PROVE  LET v == Permitted(w, p, l) IN
         /\ v \in Worlds /\ Untouched(w, v) /\ SameHold(w.cli[p], v.cli[p])
         /\ v.cli[p].buf = w.cli[p].buf /\ v.cli[p].eof = w.cli[p].eof
         /\ v.cli[p].turn = IF l.k = "result" THEN FALSE ELSE w.cli[p].turn
         /\ v.os[p].out = Tail(w.os[p].out) /\ v.os[p].resumed = w.os[p].resumed
         /\ v.os[p].run = w.os[p].run
         /\ \A q \in Procs \ {p} : v.cli[q] = w.cli[q] /\ v.os[q] = w.os[q]
         /\ v.call = w.call /\ v.parked = w.parked /\ v.map = w.map /\ v.wants = w.wants
  <1> DEFINE c == [w.cli[p] EXCEPT !.turn = IF l.k = "result" THEN FALSE ELSE @]
             o == [w.os[p] EXCEPT !.out = Tail(@)]
             x == WithProc(w, p, c)
             y == WithProgram(x, p, o)
             v == Permitted(w, p, l)
  <1>1. w.cli[p] \in Process /\ w.os[p] \in Program
    BY WorldParts
  <1>2. /\ c \in Process /\ SameHold(w.cli[p], c) /\ c.buf = w.cli[p].buf
        /\ c.eof = w.cli[p].eof
        /\ c.turn = IF l.k = "result" THEN FALSE ELSE w.cli[p].turn
    BY <1>1 DEF Process, SameHold
  <1>3. /\ o \in Program /\ o.out = Tail(w.os[p].out) /\ o.resumed = w.os[p].resumed
        /\ o.run = w.os[p].run
    <2>1. Tail(w.os[p].out) \in Seq(Line)
      BY <1>1 DEF Program
    <2> QED BY <1>1, <2>1 DEF Program
  <1>4. Popped(w, p, l) = y
    BY <1>1 DEF Popped, WithProc, WithProgram, Worlds
  <1> HIDE DEF c, o
  <1>5. /\ x \in Worlds /\ x.cli[p] = c /\ \A q \in Procs \ {p} : x.cli[q] = w.cli[q]
        /\ x.os = w.os /\ x.tool = w.tool /\ x.call = w.call /\ x.parked = w.parked
        /\ x.map = w.map /\ x.wants = w.wants
    BY <1>2, WithProcIs
  <1> HIDE DEF x
  <1>6. /\ y \in Worlds /\ y.os[p] = o /\ \A q \in Procs \ {p} : y.os[q] = w.os[q]
        /\ y.cli = x.cli /\ y.tool = w.tool /\ y.call = w.call /\ y.parked = w.parked
        /\ y.map = w.map /\ y.wants = w.wants
    BY <1>3, <1>5, WithProgramIs
  <1> HIDE DEF y
  <1>7. /\ v \in Worlds /\ Untouched(y, v) /\ v.cli = y.cli /\ v.os = y.os
        /\ v.call = y.call /\ v.parked = y.parked /\ v.map = y.map /\ v.wants = y.wants
    <2>1. CASE l.k = "ask"
      BY <1>4, <1>6, <2>1, PermitIs DEF Permitted
    <2>2. CASE l.k # "ask"
      BY <1>4, <1>6, <2>2 DEF Permitted, Untouched
    <2> QED BY <2>1, <2>2
  <1> HIDE DEF v
  <1>8. Untouched(w, v)
    BY <1>6, <1>7 DEF Untouched
  <1>9. v.cli[p] = c /\ v.os[p] = o
    BY <1>5, <1>6, <1>7
  <1> QED BY <1>2, <1>3, <1>5, <1>6, <1>7, <1>8, <1>9 DEF v

\* A line that the sink of the call takes.
LEMMA SunkGood ==
  ASSUME CliInv, NEW p \in Procs, os[p].out # <<>>, cli[p].sink, ~cli[p].eof
  PROVE  LET l == Head(os[p].out)
             h == OnMessage(Permitted(World, p, l), l)
         IN  Good(Settle(IF l.k = "result" THEN FailPending(h, p) ELSE h), conf)
  <1> DEFINE l == Head(os[p].out)
             w == Permitted(World, p, l)
             h == OnMessage(w, l)
             f == IF l.k = "result" THEN FailPending(h, p) ELSE h
  <1>1. /\ conf \in Scenarios /\ Good(World, conf) /\ World \in Worlds
        /\ Core(World, conf) /\ \A q \in Procs : Quiet(cli[q])
    BY CliParts
  <1>2. /\ Announced(World) /\ Born(World) /\ Attached(World) /\ Live(World)
    BY <1>1, GoodParts DEF Base
  <1>3. p = call.p /\ call.ph = "open" /\ ~call.finished
    BY <1>2, WorldIs DEF Attached
  <1>4. l \in Line
    <2>1. os[p].out \in Seq(Line)
      BY CliParts DEF Program
    <2> QED BY <2>1, TailLines
  <1>5. /\ w \in Worlds /\ Untouched(World, w) /\ SameHold(cli[p], w.cli[p])
        /\ w.cli[p].buf = cli[p].buf /\ w.cli[p].eof = cli[p].eof
        /\ w.cli[p].turn = IF l.k = "result" THEN FALSE ELSE cli[p].turn
        /\ w.os[p].out = Tail(os[p].out) /\ w.os[p].resumed = os[p].resumed
        /\ w.os[p].run = os[p].run
        /\ \A q \in Procs \ {p} : w.cli[q] = cli[q] /\ w.os[q] = os[q]
        /\ w.call = call /\ w.parked = parked /\ w.map = map /\ w.wants = wants
    <2> HIDE DEF l
    <2>1. World.os[p].out # <<>>
      BY WorldIs
    <2>2. /\ w \in Worlds /\ Untouched(World, w) /\ SameHold(World.cli[p], w.cli[p])
          /\ w.cli[p].buf = World.cli[p].buf /\ w.cli[p].eof = World.cli[p].eof
          /\ w.cli[p].turn = IF l.k = "result" THEN FALSE ELSE World.cli[p].turn
          /\ w.os[p].out = Tail(World.os[p].out) /\ w.os[p].resumed = World.os[p].resumed
          /\ w.os[p].run = World.os[p].run
          /\ \A q \in Procs \ {p} : w.cli[q] = World.cli[q] /\ w.os[q] = World.os[q]
          /\ w.call = World.call /\ w.parked = World.parked /\ w.map = World.map
          /\ w.wants = World.wants
      BY <1>1, <1>4, <2>1, PermittedIs
    <2> HIDE DEF w
    <2> QED BY <2>2, WorldIs
  <1> HIDE DEF w
  <1>6. /\ Beside(World, w)
        /\ l.k = "tool" => Untold(w, {l.t})
    <2>1. \A q \in Procs : SameHold(cli[q], w.cli[q])
      BY <1>5 DEF SameHold
    <2>2. Buffered(cli[p].buf, l, w.cli[p].buf)
      BY <1>5 DEF Buffered
    <2>3. /\ Beside(World, w)
          /\ l.k = "tool" =>
               /\ l.t \in Tools /\ w.tool[l.t].p = p /\ l.t \notin Ids(w.cli[p])
               /\ l.t \notin Blocks(w.os[p].out)
               /\ w.cli[p].buf = cli[p].buf => l.t \notin Blocks(w.cli[p].buf)
      <3>1. /\ World \in Worlds /\ Announced(World) /\ Born(World) /\ p \in Procs
            /\ World.os[p].out # <<>> /\ w \in Worlds /\ Untouched(World, w)
            /\ w.call = World.call /\ w.parked = World.parked /\ w.map = World.map
        BY <1>1, <1>2, <1>5, WorldIs
      <3>2. \A q \in Procs : SameHold(World.cli[q], w.cli[q])
        BY <2>1, WorldIs
      <3>3. \A q \in Procs \ {p} : w.cli[q].buf = World.cli[q].buf /\ w.os[q] = World.os[q]
        BY <1>5, WorldIs
      <3>4. /\ w.os[p].out = Tail(World.os[p].out) /\ w.os[p].resumed = World.os[p].resumed
            /\ w.os[p].run = World.os[p].run
            /\ Buffered(World.cli[p].buf, Head(World.os[p].out), w.cli[p].buf)
        BY <1>5, <2>2, WorldIs
      <3>5. /\ Beside(World, w)
            /\ Head(World.os[p].out).k = "tool" =>
               /\ Head(World.os[p].out).t \in Tools
               /\ w.tool[Head(World.os[p].out).t].p = p
               /\ Head(World.os[p].out).t \notin Ids(w.cli[p])
               /\ Head(World.os[p].out).t \notin Blocks(w.os[p].out)
               /\ w.cli[p].buf = World.cli[p].buf =>
                      Head(World.os[p].out).t \notin Blocks(w.cli[p].buf)
        BY ONLY <3>1, <3>2, <3>3, <3>4, ReadBeside
      <3> QED BY <3>5, WorldIs
    <2> QED BY <1>3, <1>5, <2>3 DEF Untold, Unnamed
  <1>7. Core(w, conf)
    BY <1>1, <1>6, BesideCore DEF Core
  <1>8. Heard(w, h, l, conf)
    BY <1>3, <1>4, <1>5, <1>6, <1>7, OnMessageHeard
  <1> DEFINE T == IF l.k = "tool" THEN {l.t} ELSE {}
  <1>9. Core(h, conf) /\ Moves(w, h, T)
    BY <1>8 DEF Heard
  <1> HIDE DEF h
  <1>10. /\ h.call.ph = "open" /\ h.call.p = p /\ h.call.aborted = call.aborted
         /\ h.cli[p].alive = cli[p].alive /\ h.cli[p].eof = cli[p].eof
         /\ (w.cli[p].turn => h.cli[p].turn) /\ (cli[p].retired => h.cli[p].retired)
         /\ ~h.call.finished => h.cli[p].sink
    <2>1. CallMoves(w.call, h.call)
      BY <1>9 DEF Moves
    <2>2. \E S : ProcMoves(w.cli[p], h.cli[p], S)
      BY <1>9 DEF Moves
    <2>3. w.cli[p].sink /\ ~h.call.finished => h.cli[p].sink
      BY <1>9 DEF Moves
    <2>4. h.call.ph = "open" /\ h.call.p = p /\ h.call.aborted = call.aborted
      BY <1>3, <1>5, <2>1 DEF CallMoves
    <2>5. /\ h.cli[p].alive = w.cli[p].alive /\ h.cli[p].eof = w.cli[p].eof
          /\ (w.cli[p].turn => h.cli[p].turn) /\ (w.cli[p].retired => h.cli[p].retired)
      BY <2>2 DEF ProcMoves
    <2> QED BY <1>5, <2>3, <2>4, <2>5 DEF SameHold
  <1>11. cli[p].alive /\ (cli[p].turn \/ cli[p].retired)
    BY <1>2, <1>3, WorldIs DEF Live
  <1>12. \A q \in Procs : q # p => Quiet(h.cli[q])
    <2>1. \A q \in Procs : q # p => w.cli[q] = cli[q] /\ Quiet(cli[q])
      BY <1>1, <1>5
    <2> SUFFICES ASSUME NEW q \in Procs, q # p PROVE Quiet(h.cli[q])
      OBVIOUS
    <2>2. ProcMoves(w.cli[q], h.cli[q], {}) /\ h.cli[q].turn = w.cli[q].turn
      BY <1>3, <1>5, <1>9 DEF Moves, New
    <2> QED BY <2>1, <2>2 DEF ProcMoves, Quiet
  <1>13. CASE l.k # "result"
    <2>1. Whole(h, {})
      <3>1. Whole(World, {})
        BY <1>2, <1>3, WorldIs DEF Live
      <3>2. Whole(w, {})
        <4>1. Awaited(w.cli[p]) = Awaited(cli[p])
          BY <1>5 DEF SameHold, Awaited, Ids
        <4> QED BY <1>3, <1>5, <3>1, <4>1, WorldIs DEF Whole, SameHold
      <3> QED BY <1>8, <1>13, <3>2 DEF Heard
    <2>2. h.cli[p].turn \/ h.cli[p].retired
      BY <1>5, <1>10, <1>11, <1>13
    <2>3. \A q \in Procs : Quiet(h.cli[q])
      BY <1>12, <2>2 DEF Quiet
    <2>4. Good(Settle(h), conf)
      BY <1>9, <1>10, <1>11, <2>1, <2>2, <2>3, SettleGood
    <2> QED BY <1>13, <2>4 DEF h, w
  <1>14. CASE l.k = "result"
    <2> DEFINE u == FailPending(h, p)
    <2>1. h \in Worlds /\ Held(h)
      BY <1>9 DEF Core, CoreBut, Base
    <2>2. /\ Moves(h, u, {}) /\ Local(h, u, p) /\ Awaited(u.cli[p]) = {}
          /\ u.cli[p].alive = h.cli[p].alive /\ u.cli[p].retired = h.cli[p].retired
      BY <2>1, FailPendingMoves
    <2> HIDE DEF u
    <2>3. /\ u.call = h.call /\ u.parked = h.parked /\ u.map = h.map
          /\ u.cli[p].sink = h.cli[p].sink /\ u.cli[p].turn = h.cli[p].turn
          /\ u.cli[p].eof = h.cli[p].eof
          /\ \A q \in Procs \ {p} : u.cli[q] = h.cli[q]
      BY <2>2 DEF Local, Moves, ProcMoves
    <2>4. Core(u, conf)
      BY <1>9, <2>2, <2>3, QuietlyCore DEF Unnamed
    <2>5. Whole(u, {})
      BY <1>10, <2>2, <2>3 DEF Whole
    <2>6. \A q \in Procs : Quiet(u.cli[q])
      BY <1>12, <2>2, <2>3 DEF Quiet
    <2>7. ~h.call.finished => h.cli[p].turn \/ h.cli[p].retired
      BY <1>3, <1>5, <1>8, <1>10, <1>11, <1>14 DEF Heard
    <2>8. Good(Settle(u), conf)
      BY <1>10, <1>11, <2>2, <2>3, <2>4, <2>5, <2>6, <2>7, SettleGood
    <2> QED BY <1>14, <2>8 DEF u, h, w
  <1> QED BY <1>13, <1>14

\* A line that no call takes is buffered.
LEMMA BufferedGood ==
  ASSUME CliInv, NEW p \in Procs, os[p].out # <<>>, ~cli[p].sink, ~cli[p].eof
  PROVE  LET l == Head(os[p].out)
             h == Buffer(Permitted(World, p, l), p, l)
         IN  Good(Settle(IF l.k = "result" THEN FailPending(h, p) ELSE h), conf)
  <1> DEFINE l == Head(os[p].out)
             w == Permitted(World, p, l)
             h == Buffer(w, p, l)
  <1>1. /\ conf \in Scenario /\ Good(World, conf) /\ World \in Worlds
        /\ Core(World, conf) /\ Owed(World) /\ \A q \in Procs : Quiet(cli[q])
        /\ parked # NoProc => parked \in Procs
    BY CliParts
  <1>2. /\ Announced(World) /\ Born(World) /\ Live(World)
        /\ call.ph = "open" => call.p \in Procs /\ ~call.finished
    BY <1>1, GoodParts, WorldIs DEF Base
  <1>3. call.ph = "open" => call.p # p
    BY <1>2, WorldIs DEF Live
  <1>4. l \in Line
    <2>1. os[p].out \in Seq(Line)
      BY CliParts DEF Program
    <2> QED BY <2>1, TailLines
  <1>5. /\ w \in Worlds /\ Untouched(World, w) /\ SameHold(cli[p], w.cli[p])
        /\ w.cli[p].buf = cli[p].buf /\ w.cli[p].eof = cli[p].eof
        /\ w.cli[p].turn = IF l.k = "result" THEN FALSE ELSE cli[p].turn
        /\ w.os[p].out = Tail(os[p].out) /\ w.os[p].resumed = os[p].resumed
        /\ w.os[p].run = os[p].run
        /\ \A q \in Procs \ {p} : w.cli[q] = cli[q] /\ w.os[q] = os[q]
        /\ w.call = call /\ w.parked = parked /\ w.map = map /\ w.wants = wants
    <2> HIDE DEF l
    <2>1. World.os[p].out # <<>>
      BY WorldIs
    <2>2. /\ w \in Worlds /\ Untouched(World, w) /\ SameHold(World.cli[p], w.cli[p])
          /\ w.cli[p].buf = World.cli[p].buf /\ w.cli[p].eof = World.cli[p].eof
          /\ w.cli[p].turn = IF l.k = "result" THEN FALSE ELSE World.cli[p].turn
          /\ w.os[p].out = Tail(World.os[p].out) /\ w.os[p].resumed = World.os[p].resumed
          /\ w.os[p].run = World.os[p].run
          /\ \A q \in Procs \ {p} : w.cli[q] = World.cli[q] /\ w.os[q] = World.os[q]
          /\ w.call = World.call /\ w.parked = World.parked /\ w.map = World.map
          /\ w.wants = World.wants
      BY <1>1, <1>4, <2>1, PermittedIs
    <2> HIDE DEF w
    <2> QED BY <2>2, WorldIs
  <1> HIDE DEF w
  <1>6. /\ h \in Worlds
        /\ SameHold(w.cli[p], h.cli[p]) /\ Buffered(w.cli[p].buf, l, h.cli[p].buf)
        /\ h.cli[p].turn = w.cli[p].turn /\ h.cli[p].eof = w.cli[p].eof
        /\ \A q \in Procs \ {p} : h.cli[q] = w.cli[q]
        /\ h.os = w.os /\ h.tool = w.tool /\ h.call = w.call /\ h.parked = w.parked
        /\ h.map = w.map /\ h.wants = w.wants
    BY <1>1, <1>4, <1>5, BufferIs
  <1> HIDE DEF h
  <1>7. Beside(World, h)
    <2>1. \A q \in Procs : SameHold(cli[q], h.cli[q])
      BY <1>5, <1>6 DEF SameHold
    <2>2. \A q \in Procs \ {p} : h.cli[q].buf = cli[q].buf /\ h.os[q] = os[q]
      BY <1>5, <1>6
    <2>3. Untouched(World, h)
      BY <1>5, <1>6 DEF Untouched
    <2>4. Buffered(cli[p].buf, l, h.cli[p].buf)
      BY <1>5, <1>6
    <2>5. /\ World \in Worlds /\ Announced(World) /\ Born(World) /\ p \in Procs
          /\ World.os[p].out # <<>> /\ h \in Worlds
          /\ h.call = World.call /\ h.parked = World.parked /\ h.map = World.map
      BY <1>1, <1>2, <1>5, <1>6, WorldIs
    <2>6. \A q \in Procs : SameHold(World.cli[q], h.cli[q])
      BY <2>1, WorldIs
    <2>7. \A q \in Procs \ {p} : h.cli[q].buf = World.cli[q].buf /\ h.os[q] = World.os[q]
      BY <2>2, WorldIs
    <2>8. /\ h.os[p].out = Tail(World.os[p].out) /\ h.os[p].resumed = World.os[p].resumed
          /\ h.os[p].run = World.os[p].run
          /\ Buffered(World.cli[p].buf, Head(World.os[p].out), h.cli[p].buf)
      BY <1>5, <1>6, <2>4, WorldIs
    <2> QED BY ONLY <2>3, <2>5, <2>6, <2>7, <2>8, ReadBeside
  <1>8. \A q \in Procs \ {p} : h.cli[q] = cli[q]
    BY <1>5, <1>6
  <1>9. CASE l.k # "result"
    <2>1. \A q \in Procs : h.cli[q].turn = cli[q].turn /\ h.cli[q].eof = cli[q].eof
      BY <1>5, <1>6, <1>8, <1>9
    <2>2. \A q \in Procs : Quiet(h.cli[q])
      <3>1. \A q \in Procs : /\ h.cli[q].alive = cli[q].alive /\ h.cli[q].retired = cli[q].retired
                             /\ Awaited(h.cli[q]) = Awaited(cli[q])
        BY <1>7, WorldIs DEF Beside, SameHold, Awaited, Ids
      <3> QED BY <1>1, <2>1, <3>1 DEF Quiet
    <2>3. Turns(World, h)
      BY <1>2, <1>5, <1>6, <2>1, <2>2, WorldIs DEF Turns
    <2>4. Good(h, conf)
      BY <1>1, <1>7, <2>3, BesideGood
    <2>5. Settle(h) = h
      BY <1>2, <1>5, <1>6 DEF Settle
    <2> QED BY <1>9, <2>4, <2>5 DEF h, w
  <1>10. CASE l.k = "result"
    <2> DEFINE u == FailPending(h, p)
    <2>1. Core(h, conf)
      BY <1>1, <1>7, BesideCore DEF Core
    <2>2. h \in Worlds /\ Held(h)
      BY <2>1 DEF Core, CoreBut, Base
    <2>3. Moves(h, u, {}) /\ Local(h, u, p) /\ Awaited(u.cli[p]) = {}
      BY <2>2, FailPendingMoves
    <2> HIDE DEF u
    <2>4. /\ u.call = call /\ u.parked = parked /\ u.map = h.map /\ u.wants = wants
          /\ u.cli[p].turn = FALSE
          /\ \A q \in Procs \ {p} : u.cli[q] = cli[q]
      BY <1>5, <1>6, <1>8, <1>10, <2>3 DEF Local
    <2>5. Core(u, conf)
      BY <1>5, <1>6, <2>1, <2>3, <2>4, QuietlyCore DEF Unnamed, Local
    <2>6. Settle(u) = u
      BY <1>2, <2>4 DEF Settle
    <2>7. Live(u)
      <3>1. CASE call.ph = "open"
        <4>1. u.cli[call.p] = cli[call.p]
          BY <1>2, <1>3, <2>4, <3>1
        <4>2. Whole(World, {}) => Whole(u, {})
          BY <2>4, <4>1, WorldIs DEF Whole
        <4> QED BY <1>2, <2>4, <3>1, <4>1, <4>2, WorldIs DEF Live
      <3>2. CASE call.ph = "think"
        <4>1. call.p \in Procs
          BY <3>2, CliParts, CallOf, WorldIs
        <4> QED BY <1>2, <2>4, <3>2, <4>1, WorldIs DEF Live
      <3> QED BY <2>4, <3>1, <3>2 DEF Live
    <2>8. Owed(u)
      BY <1>1, <2>4, WorldIs DEF Owed, Runs
    <2>9. \A q \in Procs : Quiet(u.cli[q])
      BY <1>1, <2>3, <2>4 DEF Quiet
    <2>10. Good(u, conf)
      BY <2>5, <2>7, <2>8, <2>9 DEF Good
    <2> QED BY <1>10, <2>6, <2>10 DEF u, h, w
  <1> QED BY <1>9, <1>10

LEMMA HandleLineStep ==
  ASSUME CliInv, NEW p \in Procs, HandleLine(p)
  PROVE  CliInv'
  <1> DEFINE l == Head(os[p].out)
             w == Permitted(World, p, l)
             g == OnMessage(w, l)
             b == Buffer(w, p, l)
             h == IF cli[p].sink THEN g ELSE b
             v == Settle(IF l.k = "result" THEN FailPending(h, p) ELSE h)
  <1>1. conf \in Scenarios
    BY CliParts
  <1>2. os[p].out # <<>> /\ ~cli[p].eof /\ Becomes(v)
    BY DEF HandleLine, Permitted, Popped
  <1>3. Good(v, conf)
    <2>1. CASE cli[p].sink
      <3>1. v = Settle(IF l.k = "result" THEN FailPending(g, p) ELSE g)
        BY <2>1
      <3>2. Good(Settle(IF l.k = "result" THEN FailPending(g, p) ELSE g), conf)
        BY <1>2, <2>1, SunkGood
      <3> QED BY <3>1, <3>2
    <2>2. CASE ~cli[p].sink
      <3>1. v = Settle(IF l.k = "result" THEN FailPending(b, p) ELSE b)
        BY <2>2
      <3>2. Good(Settle(IF l.k = "result" THEN FailPending(b, p) ELSE b), conf)
        BY <1>2, <2>2, BufferedGood
      <3> QED BY <3>1, <3>2
    <2> QED BY <2>1, <2>2
  <1> HIDE DEF v
  <1> QED BY <1>1, <1>2, <1>3, BecomesGood
-----------------------------------------------------------------------------
(* A request that the broker dispatches.                                    *)

\* The process q takes the call of block t, to keep it or to answer it.
LEMMA TakenUpGood ==
  ASSUME CliInv, NEW q \in Procs, NEW t \in Tools, tool[t].at = "sent",
         NEW v \in Worlds, v.os = os, v.call = call, v.parked = parked, v.map = map,
         v.wants = wants, \A p \in Procs \ {q} : v.cli[p] = cli[p],
         \A x \in Tools \ {t} : v.tool[x] = tool[x],
         v.tool[t].p = tool[t].p, v.tool[t].at \in {"open", "done"},
         v.cli[q].alive = cli[q].alive, v.cli[q].retired = cli[q].retired,
         v.cli[q].sink = cli[q].sink, v.cli[q].turn = cli[q].turn,
         v.cli[q].eof = cli[q].eof, v.cli[q].buf = cli[q].buf,
         v.cli[q].session = cli[q].session, v.cli[q].ready \subseteq cli[q].ready,
         Awaited(v.cli[q]) \subseteq Awaited(cli[q]),
         v.cli[q].awaiting \cap Ids(v.cli[q]) = {},
         Held(v), Matched(v, conf)
  PROVE  Good(v, conf)
  <1>1. /\ Base(World, conf) /\ KeptBut(World, NoProc) /\ Free(World) /\ CallSound(call)
        /\ Missed(World, conf) /\ Live(World) /\ Owed(World) /\ World \in Worlds
        /\ \A p \in Procs : Quiet(cli[p])
        /\ parked # NoProc => parked \in Procs
    BY CliParts
  <1>2. \A p \in Procs :
          /\ v.cli[p].alive = cli[p].alive /\ v.cli[p].retired = cli[p].retired
          /\ v.cli[p].sink = cli[p].sink /\ v.cli[p].turn = cli[p].turn
          /\ v.cli[p].eof = cli[p].eof /\ v.cli[p].buf = cli[p].buf
          /\ v.cli[p].session = cli[p].session /\ v.cli[p].ready \subseteq cli[p].ready
          /\ Awaited(v.cli[p]) \subseteq Awaited(cli[p])
    OBVIOUS
  <1>3. Announced(v)
    <2>1. \A p \in Procs : Known(v.cli[p]) \subseteq Known(cli[p])
      BY <1>2 DEF Known
    <2>2. \A p \in Procs : v.cli[p].awaiting \cap Ids(v.cli[p]) = {}
      BY <1>1, WorldIs DEF Base, Announced
    <2>3. \A x \in Tools : v.tool[x].p = tool[x].p
      OBVIOUS
    <2> SUFFICES ASSUME NEW p \in Procs
                 PROVE  /\ Once(v.cli[p].buf) /\ Once(v.os[p].out)
                        /\ Blocks(v.cli[p].buf) \cap Blocks(v.os[p].out) = {}
                        /\ (Blocks(v.cli[p].buf) \cup Blocks(v.os[p].out)) \cap Known(v.cli[p]) = {}
                        /\ v.cli[p].awaiting \cap Ids(v.cli[p]) = {}
                        /\ \A x \in Blocks(v.cli[p].buf) \cup Blocks(v.os[p].out) \cup Known(v.cli[p]) :
                               x \in Tools /\ v.tool[x].p = p
      BY DEF Announced
    <2> DEFINE Told == Blocks(cli[p].buf) \cup Blocks(os[p].out)
    <2>4. /\ Once(cli[p].buf) /\ Once(os[p].out)
          /\ Blocks(cli[p].buf) \cap Blocks(os[p].out) = {}
          /\ Told \cap Known(cli[p]) = {}
          /\ \A x \in Told \cup Known(cli[p]) : x \in Tools /\ tool[x].p = p
      BY <1>1, WorldIs DEF Base, Announced
    <2>5. v.cli[p].buf = cli[p].buf /\ v.os[p].out = os[p].out
      BY <1>2
    <2> QED BY <2>1, <2>2, <2>3, <2>4, <2>5
  <1>4. Born(v)
    <2>1. \A x \in Tools : v.tool[x].at = "new" => v.tool[x].p = 0
      BY <1>1, WorldIs DEF Base, Born
    <2> QED BY <1>1, <1>2, <2>1, WorldIs DEF Base, Born
  <1>5. Attached(v)
    BY <1>1, <1>2, WorldIs DEF Base, Attached
  <1>6. KeptBut(v, NoProc) /\ Free(v)
    BY <1>1, <1>2, WorldIs DEF KeptBut, Free
  <1>7. call.ph \in {"open", "think"} => call.p \in Procs
    BY <1>1, CallOf, WorldIs
  <1>8. Missed(v, conf)
    BY <1>1, <1>2, <1>7, WorldIs DEF Missed
  <1>9. Live(v)
    <2>1. CASE call.ph = "open"
      <3>1. Whole(World, {}) => Whole(v, {})
        BY <1>2, <1>7, <2>1, WorldIs DEF Whole
      <3> QED BY <1>1, <1>2, <1>7, <2>1, <3>1, WorldIs DEF Live
    <2>2. CASE call.ph = "think"
      BY <1>1, <1>2, <1>7, <2>2, WorldIs DEF Live
    <2> QED BY <2>1, <2>2 DEF Live
  <1>10. Owed(v)
    BY <1>1, <1>2, WorldIs DEF Owed, Runs
  <1>11. \A p \in Procs : Quiet(v.cli[p])
    BY <1>1, <1>2 DEF Quiet
  <1> QED BY <1>1, <1>3, <1>4, <1>5, <1>6, <1>8, <1>9, <1>10, <1>11 DEF Good, Core, CoreBut, Base

LEMMA RefusedGood ==
  ASSUME CliInv, NEW t \in Tools, tool[t].at = "sent"
  PROVE  Good(Answer(World, {[id |-> t, from |-> t]}, "refused"), conf)
  <1> DEFINE C == {[id |-> t, from |-> t]}
             v == Answer(World, C, "refused")
  <1>1. /\ World \in Worlds /\ Good(World, conf) /\ \A q \in Procs : Quiet(cli[q])
        /\ call.ph = "open" => call.p \in Procs
    BY CliParts, GoodParts, WorldIs
  <1>2. C \in SUBSET Requests /\ \A c \in C : c.from = t /\ c.id = t
    BY DEF Requests
  <1>3. \E c \in C : c.from = t
    OBVIOUS
  <1> HIDE DEF C
  <1>4. /\ v \in Worlds
        /\ v.cli = World.cli /\ v.os = World.os /\ v.call = World.call
        /\ v.parked = World.parked /\ v.map = World.map /\ v.wants = World.wants
        /\ \A x \in Tools : v.tool[x].p = World.tool[x].p
        /\ \A x \in Tools : (\E c \in C : c.from = x) /\ World.tool[x].at # "done" =>
               v.tool[x].at = "done" /\ v.tool[x].by = "refused"
        /\ \A x \in Tools : ~(\E c \in C : c.from = x) \/ World.tool[x].at = "done" =>
               v.tool[x] = World.tool[x]
    BY <1>1, <1>2, AnswerIs
  <1> HIDE DEF v
  <1>5. Untouched(World, v)
    <2>1. v.tool[t].at = "done" /\ v.tool[t].by = "refused"
      BY <1>3, <1>4, WorldIs
    <2>2. \A x \in Tools \ {t} : v.tool[x] = tool[x]
      BY <1>2, <1>4, WorldIs
    <2> QED BY <1>4, <2>1, <2>2, WorldIs DEF Untouched
  <1>6. Beside(World, v)
    <2>1. \A q \in Procs : SameHold(World.cli[q], v.cli[q])
      BY <1>4 DEF SameHold
    <2>2. Announced(World)
      BY <1>1, GoodParts
    <2>3. \A q \in Procs : Lines(World, v, q)
      BY <1>4, <2>2 DEF Announced, Lines
    <2> QED BY <1>4, <1>5, <2>1, <2>3 DEF Beside
  <1>7. Turns(World, v)
    BY <1>1, <1>4, WorldIs DEF Turns
  <1>8. Good(v, conf)
    BY <1>1, <1>6, <1>7, BesideGood
  <1> QED BY <1>8 DEF v, C

\* The result of the block is there already.
LEMMA ReadyGood ==
  ASSUME CliInv, NEW q \in Procs, NEW t \in Tools, tool[t].at = "sent",
         NEW id \in cli[q].ready, conf.idTags => id = t
  PROVE  Good([Answer([World EXCEPT !.cli[q].awaiting = @ \ {id}],
                      {[id |-> id, from |-> t]}, "pi")
                 EXCEPT !.cli[q].ready = @ \ {id}], conf)
  <1> DEFINE C == {[id |-> id, from |-> t]}
             a == [cli[q] EXCEPT !.awaiting = @ \ {id}]
             x == WithProc(World, q, a)
             y == Answer(x, C, "pi")
             b == [y.cli[q] EXCEPT !.ready = @ \ {id}]
             v == WithProc(y, q, b)
  <1>1. World \in Worlds /\ Base(World, conf) /\ cli[q] \in Process
    BY CliParts
  <1>2. id \in Tools
    BY <1>1 DEF Process
  <1>3. [World EXCEPT !.cli[q].awaiting = @ \ {id}] = x
    BY <1>1, WorldIs DEF WithProc, Worlds
  <1>4. /\ a \in Process /\ a.awaiting = cli[q].awaiting \ {id} /\ a.ready = cli[q].ready
        /\ a.pending = cli[q].pending /\ a.alive = cli[q].alive /\ a.retired = cli[q].retired
        /\ a.sink = cli[q].sink /\ a.turn = cli[q].turn /\ a.eof = cli[q].eof
        /\ a.buf = cli[q].buf /\ a.session = cli[q].session
    BY <1>1 DEF Process
  <1> HIDE DEF a
  <1>5. /\ x \in Worlds /\ x.cli[q] = a /\ \A p \in Procs \ {q} : x.cli[p] = cli[p]
        /\ x.os = os /\ x.tool = tool /\ x.call = call /\ x.parked = parked
        /\ x.map = map /\ x.wants = wants
    BY <1>1, <1>4, WithProcIs, WorldIs
  <1> HIDE DEF x
  <1>6. C \in SUBSET Requests /\ \A c \in C : c.from = t /\ c.id = id
    BY <1>2 DEF Requests
  <1>7. \E c \in C : c.from = t
    OBVIOUS
  <1> HIDE DEF C
  <1>8. /\ y \in Worlds
        /\ y.cli = x.cli /\ y.os = x.os /\ y.call = x.call /\ y.parked = x.parked
        /\ y.map = x.map /\ y.wants = x.wants
        /\ \A z \in Tools : y.tool[z].p = x.tool[z].p
        /\ \A z \in Tools : (\E c \in C : c.from = z) /\ x.tool[z].at # "done" =>
               /\ y.tool[z].at = "done" /\ y.tool[z].by = "pi"
               /\ \E c \in C : c.from = z /\ c.id = y.tool[z].of
        /\ \A z \in Tools : ~(\E c \in C : c.from = z) \/ x.tool[z].at = "done" =>
               y.tool[z] = x.tool[z]
    BY <1>5, <1>6, AnswerIs
  <1> HIDE DEF y
  <1>9. y.tool[t].at = "done" /\ y.tool[t].by = "pi" /\ y.tool[t].of = id
    BY <1>5, <1>6, <1>7, <1>8
  <1>10. y.cli[q] = a
    BY <1>5, <1>8
  <1>11. /\ b \in Process /\ b.awaiting = a.awaiting /\ b.ready = a.ready \ {id}
         /\ b.pending = a.pending /\ b.alive = a.alive /\ b.retired = a.retired
         /\ b.sink = a.sink /\ b.turn = a.turn /\ b.eof = a.eof
         /\ b.buf = a.buf /\ b.session = a.session
    BY <1>4, <1>10 DEF Process
  <1>12. [y EXCEPT !.cli[q].ready = @ \ {id}] = v
    BY <1>8 DEF WithProc, Worlds
  <1> HIDE DEF b
  <1>13. /\ v \in Worlds /\ v.cli[q] = b /\ \A p \in Procs \ {q} : v.cli[p] = cli[p]
         /\ v.os = os /\ v.tool = y.tool /\ v.call = call /\ v.parked = parked
         /\ v.map = map /\ v.wants = wants
    BY <1>5, <1>8, <1>11, WithProcIs
  <1> HIDE DEF v
  <1>14. \A z \in Tools \ {t} : v.tool[z] = tool[z]
    BY <1>5, <1>6, <1>8, <1>13
  <1>15. v.tool[t].p = tool[t].p
    BY <1>5, <1>8, <1>13
  <1>16. \A p \in Procs : v.cli[p].pending = cli[p].pending /\ v.cli[p].alive = cli[p].alive
                          /\ v.cli[p].retired = cli[p].retired
    BY <1>4, <1>11, <1>13
  <1>17. Held(v)
    <2>1. Held(World)
      BY <1>1 DEF Base
    <2>2. \A p \in Procs : \A c \in cli[p].pending : c.from \in Tools
      BY CliParts DEF Process
    <2>3. \A z \in Tools : v.tool[z].at = "open" <=> tool[z].at = "open"
      BY <1>9, <1>13, <1>14
    <2> QED BY <1>16, <2>1, <2>2, <2>3, WorldIs DEF Held
  <1>18. Matched(v, conf)
    BY <1>1, <1>9, <1>13, <1>14, <1>16, WorldIs DEF Base, Matched
  <1>19. /\ Ids(v.cli[q]) = Ids(cli[q]) /\ v.cli[q].awaiting \subseteq cli[q].awaiting
         /\ v.cli[q].ready \subseteq cli[q].ready
    BY <1>4, <1>11, <1>13 DEF Ids
  <1>20. /\ Awaited(v.cli[q]) \subseteq Awaited(cli[q])
         /\ v.cli[q].awaiting \cap Ids(v.cli[q]) = {}
    BY <1>1, <1>19, WorldIs DEF Awaited, Base, Announced
  <1>21. /\ v.cli[q].alive = cli[q].alive /\ v.cli[q].retired = cli[q].retired
         /\ v.cli[q].sink = cli[q].sink /\ v.cli[q].turn = cli[q].turn
         /\ v.cli[q].eof = cli[q].eof /\ v.cli[q].buf = cli[q].buf
         /\ v.cli[q].session = cli[q].session
    BY <1>4, <1>11, <1>13
  <1>22. v.tool[t].at \in {"open", "done"}
    BY <1>9, <1>13
  <1>23. Good(v, conf)
    BY <1>13, <1>14, <1>15, <1>17, <1>18, <1>19, <1>20, <1>21, <1>22, TakenUpGood
  <1> QED BY <1>3, <1>12, <1>23 DEF y, C

\* The call waits for pi's result.
LEMMA OpenedGood ==
  ASSUME CliInv, NEW q \in Procs, NEW t \in Tools, tool[t].at = "sent",
         cli[q].alive, ~cli[q].retired,
         NEW id \in cli[q].awaiting, conf.idTags => id = t
  PROVE  Good([[World EXCEPT !.cli[q].awaiting = @ \ {id}] EXCEPT
                 !.cli[q].pending = @ \cup {[id |-> id, from |-> t]},
                 !.tool[t].at = "open"], conf)
  <1> DEFINE me == [id |-> id, from |-> t]
             a == [cli[q] EXCEPT !.awaiting = @ \ {id}, !.pending = @ \cup {me}]
             x == WithProc(World, q, a)
             b == [tool[t] EXCEPT !.at = "open"]
             f == [tool EXCEPT ![t] = b]
             v == [x EXCEPT !.tool = f]
  <1>1. /\ World \in Worlds /\ Base(World, conf) /\ cli[q] \in Process
        /\ tool \in [Tools -> Block] /\ Held(World) /\ Announced(World)
    BY CliParts DEF Base
  <1>2. id \in Tools
    BY <1>1 DEF Process
  <1>3. me \in [id : Tools, from : Tools] /\ me.id = id /\ me.from = t
    BY <1>2
  <1> HIDE DEF me
  <1>4. [[World EXCEPT !.cli[q].awaiting = @ \ {id}] EXCEPT
            !.cli[q].pending = @ \cup {me}, !.tool[t].at = "open"] = v
    <2> DEFINE d == [cli[q] EXCEPT !.awaiting = @ \ {id}]
               z == WithProc(World, q, d)
    <2>1. [World EXCEPT !.cli[q].awaiting = @ \ {id}] = z
      BY <1>1, WorldIs DEF WithProc, Worlds
    <2>2. d \in Process /\ a = [d EXCEPT !.pending = @ \cup {me}]
      BY <1>1 DEF Process
    <2>3. WithProc(z, q, a) = x
      BY <1>1, WorldIs DEF WithProc, Worlds
    <2> HIDE DEF d, a
    <2>4. z \in Worlds /\ z.cli[q] = d /\ z.tool = tool
      BY <1>1, <2>2, WithProcIs, WorldIs
    <2> HIDE DEF z
    <2>5. [z EXCEPT !.cli[q].pending = @ \cup {me}, !.tool[t].at = "open"]
          = [WithProc(z, q, a) EXCEPT !.tool = f]
      BY <2>2, <2>4 DEF WithProc, Worlds
    <2> QED BY <2>1, <2>3, <2>5
  <1>5. /\ a \in Process /\ a.awaiting = cli[q].awaiting \ {id} /\ a.ready = cli[q].ready
        /\ a.pending = cli[q].pending \cup {me} /\ a.alive = cli[q].alive
        /\ a.retired = cli[q].retired
        /\ a.sink = cli[q].sink /\ a.turn = cli[q].turn /\ a.eof = cli[q].eof
        /\ a.buf = cli[q].buf /\ a.session = cli[q].session
    BY <1>1, <1>3 DEF Process
  <1> HIDE DEF a
  <1>6. /\ x \in Worlds /\ x.cli[q] = a /\ \A p \in Procs \ {q} : x.cli[p] = cli[p]
        /\ x.os = os /\ x.call = call /\ x.parked = parked
        /\ x.map = map /\ x.wants = wants
    BY <1>1, <1>5, WithProcIs, WorldIs
  <1> HIDE DEF x
  <1>7. tool[t] \in Block
    BY <1>1
  <1>8. b \in Block /\ b.at = "open" /\ b.p = tool[t].p /\ b.by = tool[t].by /\ b.of = tool[t].of
    BY <1>7 DEF Block
  <1> HIDE DEF b
  <1>9. f \in [Tools -> Block] /\ f[t] = b /\ \A z \in Tools \ {t} : f[z] = tool[z]
    BY <1>1, <1>8
  <1> HIDE DEF f
  <1>10. /\ v \in Worlds /\ v.cli = x.cli /\ v.os = os /\ v.tool = f /\ v.call = call
         /\ v.parked = parked /\ v.map = map /\ v.wants = wants
    BY <1>6, <1>9 DEF Worlds
  <1> HIDE DEF v
  <1>11. v.cli[q] = a /\ \A p \in Procs \ {q} : v.cli[p] = cli[p]
    BY <1>6, <1>10
  <1>12. \A p \in Procs : v.cli[p].alive = cli[p].alive /\ v.cli[p].retired = cli[p].retired
    BY <1>5, <1>11
  <1>13. \A p \in Procs : \A c \in v.cli[p].pending :
            (p = q /\ c = me) \/ c \in cli[p].pending
    BY <1>5, <1>11
  <1>14. \A p \in Procs : \A c \in cli[p].pending : c \in v.cli[p].pending
    BY <1>5, <1>11
  <1>15. \A p \in Procs : \A c \in cli[p].pending : c.from \in Tools /\ c.from # t
    <2>1. \A p \in Procs : \A c \in cli[p].pending : tool[c.from].at = "open"
      BY <1>1, WorldIs DEF Held
    <2>2. \A p \in Procs : \A c \in cli[p].pending : c.from \in Tools
      BY CliParts DEF Process
    <2> QED BY <2>1, <2>2
  <1>16. Held(v)
    <2>1. \A p \in Procs : v.cli[p].pending # {} => v.cli[p].alive /\ ~v.cli[p].retired
      BY <1>1, <1>12, <1>13, WorldIs DEF Held
    <2>2. \A p \in Procs : \A c \in v.cli[p].pending : v.tool[c.from].at = "open"
      BY <1>1, <1>3, <1>8, <1>9, <1>10, <1>13, <1>15, WorldIs DEF Held
    <2>3. \A p, r \in Procs : \A c \in v.cli[p].pending, d \in v.cli[r].pending :
              c.from = d.from => p = r /\ c = d
      <3> SUFFICES ASSUME NEW p \in Procs, NEW r \in Procs, NEW c \in v.cli[p].pending,
                          NEW d \in v.cli[r].pending, c.from = d.from
                   PROVE  p = r /\ c = d
        OBVIOUS
      <3>1. (p = q /\ c = me) \/ (c \in cli[p].pending /\ c.from # t)
        BY <1>13, <1>15
      <3>2. (r = q /\ d = me) \/ (d \in cli[r].pending /\ d.from # t)
        BY <1>13, <1>15
      <3>3. c \in cli[p].pending /\ d \in cli[r].pending => p = r /\ c = d
        BY <1>1, WorldIs DEF Held
      <3> QED BY <1>3, <3>1, <3>2, <3>3
    <2>4. \A z \in Tools : v.tool[z].at = "open" =>
              \E p \in Procs : \E c \in v.cli[p].pending : c.from = z
      <3> SUFFICES ASSUME NEW z \in Tools, v.tool[z].at = "open"
                   PROVE  \E p \in Procs : \E c \in v.cli[p].pending : c.from = z
        OBVIOUS
      <3>1. CASE z = t
        BY <1>3, <1>5, <1>11, <3>1
      <3>2. CASE z # t
        <4>1. tool[z].at = "open"
          BY <1>9, <1>10, <3>2
        <4> QED BY <1>1, <1>14, <4>1, WorldIs DEF Held
      <3> QED BY <3>1, <3>2
    <2> QED BY <2>1, <2>2, <2>3, <2>4 DEF Held
  <1>17. Matched(v, conf)
    BY <1>1, <1>3, <1>8, <1>9, <1>10, <1>13, WorldIs DEF Base, Matched
  <1>18. Ids(v.cli[q]) = Ids(cli[q]) \cup {id}
    BY <1>3, <1>5, <1>11 DEF Ids
  <1>19. /\ Awaited(v.cli[q]) \subseteq Awaited(cli[q])
         /\ v.cli[q].awaiting \cap Ids(v.cli[q]) = {}
    <2>1. cli[q].awaiting \cap Ids(cli[q]) = {}
      BY <1>1, WorldIs DEF Announced
    <2>2. v.cli[q].awaiting = cli[q].awaiting \ {id}
      BY <1>5, <1>11
    <2> QED BY <1>18, <2>1, <2>2 DEF Awaited
  <1>20. /\ v.cli[q].alive = cli[q].alive /\ v.cli[q].retired = cli[q].retired
         /\ v.cli[q].sink = cli[q].sink /\ v.cli[q].turn = cli[q].turn
         /\ v.cli[q].eof = cli[q].eof /\ v.cli[q].buf = cli[q].buf
         /\ v.cli[q].session = cli[q].session /\ v.cli[q].ready \subseteq cli[q].ready
    BY <1>5, <1>11
  <1>21. /\ \A z \in Tools \ {t} : v.tool[z] = tool[z]
         /\ v.tool[t].p = tool[t].p /\ v.tool[t].at \in {"open", "done"}
    BY <1>8, <1>9, <1>10
  <1>22. Good(v, conf)
    BY <1>10, <1>11, <1>16, <1>17, <1>19, <1>20, <1>21, TakenUpGood
  <1> QED BY <1>4, <1>22 DEF me

\* A nonempty set of processes has a newest one.
LEMMA Newest ==
  ASSUME NEW T \in SUBSET Procs, T # {}
  PROVE  (CHOOSE r \in T : \A x \in T : x <= r) \in T
  <1> DEFINE S == {MaxProcs - x : x \in T}
  <1>1. \A x \in T : x \in Nat /\ x <= MaxProcs /\ MaxProcs \in Nat
    BY CliAssumption DEF Procs
  <1>2. S \in SUBSET Nat /\ S # {}
    BY <1>1
  <1>3. PICK n \in S : \A m \in S : n <= m
    BY <1>2, Least
  <1>4. PICK r \in T : n = MaxProcs - r
    BY <1>3
  <1>5. \A x \in T : x <= r
    <2> TAKE x \in T
    <2>1. n <= MaxProcs - x
      BY <1>3
    <2> QED BY <1>1, <1>4, <2>1
  <1> QED BY <1>4, <1>5

LEMMA DispatchStep ==
  ASSUME CliInv, NEW t \in Tools, Dispatch(t)
  PROVE  CliInv'
  <1> DEFINE T == Targets(cli[tool[t].p].session)
             q == CHOOSE r \in T : \A x \in T : x <= r
             N == Named(cli[q], t)
             id == CHOOSE i \in N : TRUE
             me == [id |-> id, from |-> t]
             v == [World EXCEPT !.cli[q].awaiting = @ \ {id}]
  <1>1. conf \in Scenarios /\ tool[t].at = "sent"
    BY CliParts DEF Dispatch
  <1>2. Becomes(IF T = {} THEN Answer(World, {[id |-> t, from |-> t]}, "refused")
                ELSE Route(World, q, t))
    BY DEF Dispatch
  <1>3. CASE T = {}
    BY <1>1, <1>2, <1>3, RefusedGood, BecomesGood
  <1>4. CASE T # {} /\ Cardinality(N) # 1
    <2>1. Route(World, q, t) = Answer(World, {[id |-> t, from |-> t]}, "refused")
      BY <1>4, WorldIs DEF Route
    <2> QED BY <1>1, <1>2, <1>4, <2>1, RefusedGood, BecomesGood
  <1>5. CASE T # {} /\ Cardinality(N) = 1
    <2>1. q \in Procs /\ cli[q].alive /\ ~cli[q].retired
      <3>1. T \in SUBSET Procs
        BY DEF Targets
      <3>2. q \in T
        BY <1>5, <3>1, Newest
      <3> QED BY <3>2 DEF Targets
    <2> HIDE DEF q
    <2>2. N # {}
      BY <1>5, FS_EmptySet
    <2>3. id \in N
      BY <2>2
    <2> HIDE DEF id
    <2>4. id \in cli[q].awaiting \cup cli[q].ready /\ (conf.idTags => id = t)
      BY <2>3 DEF Named
    <2>5. Route(World, q, t) =
            IF id \in cli[q].ready THEN [Answer(v, {me}, "pi") EXCEPT !.cli[q].ready = @ \ {id}]
            ELSE [v EXCEPT !.cli[q].pending = @ \cup {me}, !.tool[t].at = "open"]
      BY <1>5, WorldIs DEF Route, id
    <2>6. CASE id \in cli[q].ready
      <3>1. Good([Answer(v, {me}, "pi") EXCEPT !.cli[q].ready = @ \ {id}], conf)
        BY <1>1, <2>1, <2>4, <2>6, ReadyGood
      <3> QED BY <1>1, <1>2, <1>5, <2>5, <2>6, <3>1, BecomesGood DEF q
    <2>7. CASE id \notin cli[q].ready
      <3>1. id \in cli[q].awaiting
        BY <2>4, <2>7
      <3>2. Good([v EXCEPT !.cli[q].pending = @ \cup {me}, !.tool[t].at = "open"], conf)
        BY <1>1, <2>1, <2>4, <3>1, OpenedGood
      <3> QED BY <1>1, <1>2, <1>5, <2>5, <2>7, <3>2, BecomesGood DEF q
    <2> QED BY <2>6, <2>7
  <1> QED BY <1>3, <1>4, <1>5
-----------------------------------------------------------------------------
(* The CLI.                                                                 *)

LEMMA ConcatLines ==
  ASSUME NEW m \in Seq(Line), NEW n \in Seq(Line), Once(m), Once(n),
         Blocks(m) \cap Blocks(n) = {}
  PROVE  /\ m \o n \in Seq(Line) /\ Once(m \o n)
         /\ Blocks(m \o n) \subseteq Blocks(m) \cup Blocks(n)
  <1> DEFINE c == m \o n
             k == Len(m)
  <1>1. /\ c \in Seq(Line) /\ k \in Nat /\ Len(n) \in Nat /\ DOMAIN m = 1 .. k
        /\ DOMAIN n = 1 .. Len(n) /\ DOMAIN c = 1 .. k + Len(n)
        /\ \A i \in 1 .. k + Len(n) : c[i] = IF i <= k THEN m[i] ELSE n[i - k]
    OBVIOUS
  <1> HIDE DEF c, k
  <1>2. \A i \in DOMAIN c : \/ i \in DOMAIN m /\ c[i] = m[i]
                            \/ i \notin DOMAIN m /\ i - k \in DOMAIN n /\ c[i] = n[i - k]
    BY <1>1
  <1>3. \A i, j \in DOMAIN c : i - k = j - k => i = j
    BY <1>1
  <1>4. Blocks(c) \subseteq Blocks(m) \cup Blocks(n)
    <2> SUFFICES ASSUME NEW i \in DOMAIN c, c[i].k = "tool"
                 PROVE  c[i].t \in Blocks(m) \cup Blocks(n)
      BY DEF Blocks
    <2> QED BY <1>2 DEF Blocks
  <1>5. Once(c)
    <2> SUFFICES ASSUME NEW i \in DOMAIN c, NEW j \in DOMAIN c, c[i].k = "tool",
                        c[j].k = "tool", c[i].t = c[j].t
                 PROVE  i = j
      BY DEF Once
    <2>1. CASE i \in DOMAIN m /\ j \in DOMAIN m
      BY <1>2, <2>1 DEF Once
    <2>2. CASE i \notin DOMAIN m /\ j \notin DOMAIN m
      <3>1. i - k = j - k
        BY <1>2, <2>2 DEF Once
      <3> QED BY <1>3, <3>1
    <2>3. CASE i \in DOMAIN m /\ j \notin DOMAIN m
      <3>1. c[i].t \in Blocks(m) /\ c[j].t \in Blocks(n)
        BY <1>2, <2>3 DEF Blocks
      <3> QED BY <3>1
    <2>4. CASE i \notin DOMAIN m /\ j \in DOMAIN m
      <3>1. c[j].t \in Blocks(m) /\ c[i].t \in Blocks(n)
        BY <1>2, <2>4 DEF Blocks
      <3> QED BY <3>1
    <2> QED BY <2>1, <2>2, <2>3, <2>4
  <1> QED BY <1>1, <1>4, <1>5 DEF c

\* A program changes to o: it writes what it may, and moves its blocks on.
LEMMA TalksStep ==
  ASSUME CliInv, Rests, NEW p \in Procs, NEW o \in Program, os' = [os EXCEPT ![p] = o],
         o.resumed = os[p].resumed, o.run = "none" => os[p].run = "none",
         Once(o.out), Blocks(cli[p].buf) \cap Blocks(o.out) = {},
         \A t \in Blocks(o.out) : \/ t \in Blocks(os[p].out)
                                  \/ t \in Tools /\ tool[t].at = "new" /\ tool'[t].p = p,
         tool' \in [Tools -> Block],
         \A t \in Tools :
             /\ tool'[t].at = "open" <=> tool[t].at = "open"
             /\ tool'[t].by = "pi" => tool[t].by = "pi" /\ tool'[t].of = tool[t].of
             /\ tool'[t].at = "new" => tool'[t] = tool[t]
             /\ tool[t].at # "new" => tool'[t].p = tool[t].p
  PROVE  CliInv'
  <1> DEFINE v == [cli |-> cli, os |-> os', tool |-> tool', call |-> call, parked |-> parked,
                   map |-> map, stray |-> stray, wants |-> wants]
  <1>1. /\ conf \in Scenarios /\ Good(World, conf) /\ World \in Worlds
        /\ os \in [Procs -> Program] /\ \A q \in Procs : Quiet(cli[q])
        /\ Announced(World)
    BY CliParts, GoodParts
  <1>2. /\ v.cli = cli /\ v.os = os' /\ v.tool = tool' /\ v.call = call /\ v.parked = parked
        /\ v.map = map /\ v.stray = stray /\ v.wants = wants
    OBVIOUS
  <1>3. os' \in [Procs -> Program] /\ os'[p] = o /\ \A q \in Procs \ {p} : os'[q] = os[q]
    BY <1>1
  <1>4. v \in Worlds
    <2>1. /\ cli \in [Procs -> Process] /\ call \in PiCall /\ parked \in 0 .. MaxProcs
          /\ map \in 0 .. MaxProcs /\ stray \in SUBSET [p : Procs, waits : BOOLEAN]
          /\ wants \in SUBSET Tools
      BY <1>1, WorldParts, WorldIs
    <2> QED BY <1>3, <2>1 DEF Worlds
  <1> HIDE DEF v
  <1>5. \A q \in Procs : Lines(World, v, q)
    <2> TAKE q \in Procs
    <2>1. CASE q = p
      <3>1. Once(cli[p].buf) /\ Once(os'[p].out)
        BY <1>1, <1>3, WorldIs DEF Announced
      <3>2. Blocks(cli[p].buf) \cap Blocks(os'[p].out) = {}
        BY <1>3
      <3>3. \A t \in Blocks(cli[p].buf) \cup Blocks(os'[p].out) :
               \/ t \in Blocks(cli[p].buf) \cup Blocks(os[p].out)
               \/ t \in Tools /\ tool[t].at = "new" /\ tool'[t].p = p
        BY <1>3
      <3>4. os'[p].resumed = os[p].resumed /\ (os'[p].run = "none" => os[p].run = "none")
        BY <1>3
      <3> QED BY <1>2, <2>1, <3>1, <3>2, <3>3, <3>4, WorldIs DEF Lines
    <2>2. CASE q # p
      <3>1. /\ Once(cli[q].buf) /\ Once(os[q].out)
            /\ Blocks(cli[q].buf) \cap Blocks(os[q].out) = {}
        BY <1>1, WorldIs DEF Announced
      <3>2. v.os[q] = os[q] /\ v.cli[q] = cli[q]
        BY <1>2, <1>3, <2>2
      <3> QED BY <3>1, <3>2, WorldIs DEF Lines
    <2> QED BY <2>1, <2>2
  <1>6. Beside(World, v)
    <2>1. \A q \in Procs : SameHold(World.cli[q], v.cli[q])
      BY <1>2, WorldIs DEF SameHold
    <2>2. Untouched(World, v)
      BY <1>2, WorldIs DEF Untouched
    <2> QED BY <1>2, <1>4, <1>5, <2>1, <2>2, WorldIs DEF Beside
  <1>7. Turns(World, v)
    BY <1>1, <1>2, WorldIs DEF Turns
  <1>8. Good(v, conf)
    BY <1>1, <1>6, <1>7, BesideGood
  <1>9. /\ conf' = conf /\ cli' = v.cli /\ os' = v.os /\ tool' = v.tool /\ call' = v.call
        /\ parked' = v.parked /\ map' = v.map /\ stray' = v.stray /\ wants' = v.wants
    BY <1>2 DEF Rests
  <1> QED BY <1>1, <1>8, <1>9, NextWorld

\* It says at most one line, which names no block.
LEMMA SaysStep ==
  ASSUME CliInv, Rests, NEW p \in Procs, NEW o \in Program, os' = [os EXCEPT ![p] = o],
         o.resumed = os[p].resumed, o.run = "none" => os[p].run = "none",
         NEW l \in Line, l.k # "tool",
         o.out = os[p].out \/ o.out = Append(os[p].out, l),
         tool' \in [Tools -> Block],
         \A t \in Tools :
             /\ tool'[t].at = "open" <=> tool[t].at = "open"
             /\ tool'[t].by = "pi" => tool[t].by = "pi" /\ tool'[t].of = tool[t].of
             /\ tool'[t].at = "new" => tool'[t] = tool[t]
             /\ tool[t].at # "new" => tool'[t].p = tool[t].p
  PROVE  CliInv'
  <1>1. os[p].out \in Seq(Line)
    BY CliParts DEF Program
  <1>2. Once(os[p].out) /\ Blocks(cli[p].buf) \cap Blocks(os[p].out) = {}
    BY CliParts, WorldIs DEF Base, Announced
  <1>3. Once(o.out) /\ Blocks(o.out) \subseteq Blocks(os[p].out)
    BY <1>1, <1>2, AppendLines
  <1> QED BY <1>2, <1>3, TalksStep

LEMMA LineTyped ==
  /\ L("stop", 0) \in Line /\ L("task", 0) \in Line /\ L("report", 0) \in Line
  /\ \A t \in Tools : L("tool", t) \in Line /\ L("ask", t) \in Line
  /\ \A r \in Ends, n \in 0 .. MaxCalls : Result(r, n) \in Line
  <1>1. 0 \in 0 .. MaxTools /\ 0 \in 0 .. MaxCalls /\ \A t \in Tools : t \in 0 .. MaxTools
    BY CliAssumption DEF Tools
  <1> QED BY <1>1 DEF L, Result, Line, Kinds, Ends

\* The program alone changes.
LEMMA AloneStep ==
  ASSUME CliInv, Rests, tool' = tool, NEW p \in Procs, NEW o \in Program,
         os' = [os EXCEPT ![p] = o],
         o.resumed = os[p].resumed, o.run = "none" => os[p].run = "none",
         NEW l \in Line, l.k # "tool",
         o.out = os[p].out \/ o.out = Append(os[p].out, l)
  PROVE  CliInv'
  <1>1. tool \in [Tools -> Block]
    BY CliParts
  <1> QED BY <1>1, SaysStep

LEMMA HeadAndTail ==
  ASSUME NEW S, NEW m \in Seq(S), m # <<>>
  PROVE  Head(m) \in S /\ Tail(m) \in Seq(S)
  OBVIOUS

LEMMA BeginStep ==
  ASSUME CliInv, NEW p \in Procs, BeginTurn(p)
  PROVE  CliInv'
  <1> DEFINE o == [os[p] EXCEPT !.busy = TRUE, !.turn = Head(os[p].inbox), !.inbox = Tail(@)]
  <1>1. os \in [Procs -> Program] /\ os[p] \in Program /\ os[p].inbox # <<>>
    BY CliParts DEF BeginTurn
  <1>2. os' = [os EXCEPT ![p] = o]
    BY <1>1 DEF BeginTurn
  <1>3. Head(os[p].inbox) \in 0 .. MaxCalls /\ Tail(os[p].inbox) \in Seq(1 .. MaxCalls)
    <2>1. os[p].inbox \in Seq(1 .. MaxCalls)
      BY <1>1 DEF Program
    <2>2. Head(os[p].inbox) \in 1 .. MaxCalls /\ Tail(os[p].inbox) \in Seq(1 .. MaxCalls)
      BY <1>1, <2>1, HeadAndTail
    <2> QED BY <2>2, CliAssumption
  <1> DEFINE h == Head(os[p].inbox)
             i == Tail(os[p].inbox)
  <1> HIDE DEF h, i
  <1>4. [os[p] EXCEPT !.busy = TRUE, !.turn = h, !.inbox = i] \in Program
    BY <1>1, <1>3 DEF Program, h, i
  <1>5. o \in Program /\ o.resumed = os[p].resumed /\ o.run = os[p].run /\ o.out = os[p].out
    BY <1>1, <1>4 DEF Program, h, i
  <1>6. L("stop", 0) \in Line /\ L("stop", 0).k # "tool" /\ Rests /\ tool' = tool
    BY LineTyped DEF BeginTurn, L
  <1> HIDE DEF o
  <1> QED BY <1>2, <1>5, <1>6, AloneStep

LEMMA DrainQueueStep ==
  ASSUME CliInv, NEW p \in Procs, DrainQueue(p)
  PROVE  CliInv'
  <1> DEFINE l == Result("empty", Own)
             o == [os[p] EXCEPT !.own = TRUE, !.out = Append(@, l)]
  <1>1. os \in [Procs -> Program] /\ os[p] \in Program
    BY CliParts
  <1>2. os' = [os EXCEPT ![p] = o] /\ Rests /\ tool' = tool
    BY <1>1 DEF DrainQueue
  <1>3. l \in Line /\ l.k = "result"
    BY LineTyped, CliAssumption DEF Result, Own, Ends
  <1> HIDE DEF l
  <1>4. /\ o \in Program /\ o.resumed = os[p].resumed /\ o.run = os[p].run
        /\ o.out = Append(os[p].out, l)
    <2> DEFINE m == Append(os[p].out, l)
    <2>1. m \in Seq(Line)
      BY <1>1, <1>3 DEF Program
    <2> HIDE DEF m
    <2> QED BY <1>1, <2>1 DEF Program, m
  <1> HIDE DEF o
  <1> QED BY <1>2, <1>3, <1>4, AloneStep

LEMMA OwnTurnStep ==
  ASSUME CliInv, NEW p \in Procs, OwnTurn(p)
  PROVE  CliInv'
  <1> DEFINE o == [os[p] EXCEPT !.own = TRUE, !.busy = TRUE, !.turn = Own]
  <1>1. os \in [Procs -> Program] /\ os[p] \in Program
    BY CliParts
  <1>2. os' = [os EXCEPT ![p] = o] /\ Rests /\ tool' = tool
    BY <1>1 DEF OwnTurn
  <1>3. Own \in 0 .. MaxCalls
    BY CliAssumption DEF Own
  <1>4. o \in Program /\ o.resumed = os[p].resumed /\ o.run = os[p].run /\ o.out = os[p].out
    BY <1>1, <1>3 DEF Program
  <1>5. L("stop", 0) \in Line /\ L("stop", 0).k # "tool"
    BY LineTyped DEF L
  <1> HIDE DEF o
  <1> QED BY <1>2, <1>4, <1>5, AloneStep

LEMMA EndTurnStep ==
  ASSUME CliInv, NEW p \in Procs, NEW r \in {"ok", "error", "miss"}, EndTurn(p, r)
  PROVE  CliInv'
  <1> DEFINE l == Result(r, os[p].turn)
             o == [os[p] EXCEPT !.busy = FALSE, !.out = Append(@, l)]
  <1>1. os \in [Procs -> Program] /\ os[p] \in Program
    BY CliParts
  <1>2. os' = [os EXCEPT ![p] = o] /\ Rests /\ tool' = tool
    BY <1>1 DEF EndTurn
  <1>3. l \in Line /\ l.k = "result"
    BY <1>1, LineTyped DEF Result, Ends, Program
  <1> HIDE DEF l
  <1>4. /\ o \in Program /\ o.resumed = os[p].resumed /\ o.run = os[p].run
        /\ o.out = Append(os[p].out, l)
    <2> DEFINE m == Append(os[p].out, l)
    <2>1. m \in Seq(Line)
      BY <1>1, <1>3 DEF Program
    <2> HIDE DEF m
    <2> QED BY <1>1, <2>1 DEF Program, m
  <1> HIDE DEF o
  <1> QED BY <1>2, <1>3, <1>4, AloneStep

LEMMA LaunchAgentStep ==
  ASSUME CliInv, NEW p \in Procs, LaunchAgent(p)
  PROVE  CliInv'
  <1> DEFINE l == L("task", 0)
             o == [os[p] EXCEPT !.agent = "runs", !.out = Append(@, l)]
  <1>1. os \in [Procs -> Program] /\ os[p] \in Program
    BY CliParts
  <1>2. os' = [os EXCEPT ![p] = o] /\ Rests /\ tool' = tool
    BY <1>1 DEF LaunchAgent
  <1>3. l \in Line /\ l.k = "task"
    BY LineTyped DEF L
  <1> HIDE DEF l
  <1>4. /\ o \in Program /\ o.resumed = os[p].resumed /\ o.run = os[p].run
        /\ o.out = Append(os[p].out, l)
    <2> DEFINE m == Append(os[p].out, l)
    <2>1. m \in Seq(Line)
      BY <1>1, <1>3 DEF Program
    <2> HIDE DEF m
    <2> QED BY <1>1, <2>1 DEF Program, m
  <1> HIDE DEF o
  <1> QED BY <1>2, <1>3, <1>4, AloneStep

LEMMA AgentReportsStep ==
  ASSUME CliInv, NEW p \in Procs, AgentReports(p)
  PROVE  CliInv'
  <1> DEFINE l == L("report", 0)
             o == [os[p] EXCEPT !.agent = "over", !.busy = TRUE, !.out = Append(@, l)]
  <1>1. os \in [Procs -> Program] /\ os[p] \in Program
    BY CliParts
  <1>2. os' = [os EXCEPT ![p] = o] /\ Rests /\ tool' = tool
    BY <1>1 DEF AgentReports
  <1>3. l \in Line /\ l.k = "report"
    BY LineTyped DEF L
  <1> HIDE DEF l
  <1>4. /\ o \in Program /\ o.resumed = os[p].resumed /\ o.run = os[p].run
        /\ o.out = Append(os[p].out, l)
    <2> DEFINE m == Append(os[p].out, l)
    <2>1. m \in Seq(Line)
      BY <1>1, <1>3 DEF Program
    <2> HIDE DEF m
    <2> QED BY <1>1, <2>1 DEF Program, m
  <1> HIDE DEF o
  <1> QED BY <1>2, <1>3, <1>4, AloneStep

LEMMA EndsStep ==
  ASSUME CliInv, NEW p \in Procs, Exit(p) \/ CliCrashes(p)
  PROVE  CliInv'
  <1>1. os \in [Procs -> Program] /\ os[p] \in Program
    BY CliParts
  <1>2. PICK r \in {"exited", "crashed"} :
           os' = [os EXCEPT ![p].run = r] /\ Rests /\ tool' = tool
    BY DEF Exit, CliCrashes
  <1> DEFINE o == [os[p] EXCEPT !.run = r]
  <1>3. os' = [os EXCEPT ![p] = o]
    BY <1>1, <1>2
  <1>4. o \in Program /\ o.resumed = os[p].resumed /\ o.run # "none" /\ o.out = os[p].out
    BY <1>1 DEF Program, Running
  <1>5. L("stop", 0) \in Line /\ L("stop", 0).k # "tool"
    BY LineTyped DEF L
  <1> HIDE DEF o
  <1> QED BY <1>2, <1>3, <1>4, <1>5, AloneStep
\* A block whose call has not been made moves on, or is settled by the CLI.
LEMMA BlockStep ==
  ASSUME CliInv, Rests, NEW p \in Procs, NEW o \in Program, os' = [os EXCEPT ![p] = o],
         o.resumed = os[p].resumed, o.run = os[p].run, NEW l \in Line, l.k # "tool",
         o.out = os[p].out \/ o.out = Append(os[p].out, l),
         NEW t \in Tools, tool[t].at \in {"named", "asked", "may"},
         NEW b \in Block, b.at \notin {"new", "open"}, b.p = tool[t].p,
         (b.by = tool[t].by /\ b.of = tool[t].of) \/ b.by = "self",
         tool' = [tool EXCEPT ![t] = b]
  PROVE  CliInv'
  <1>1. tool \in [Tools -> Block]
    BY CliParts
  <1>2. /\ tool' \in [Tools -> Block] /\ tool'[t] = b
        /\ \A x \in Tools \ {t} : tool'[x] = tool[x]
    BY <1>1
  <1>3. \A x \in Tools :
             /\ tool'[x].at = "open" <=> tool[x].at = "open"
             /\ tool'[x].by = "pi" => tool[x].by = "pi" /\ tool'[x].of = tool[x].of
             /\ tool'[x].at = "new" => tool'[x] = tool[x]
             /\ tool[x].at # "new" => tool'[x].p = tool[x].p
    <2> TAKE x \in Tools
    <2>1. CASE x = t
      BY <1>2, <2>1
    <2>2. CASE x # t
      BY <1>2, <2>2
    <2> QED BY <2>1, <2>2
  <1>4. /\ CliInv /\ Rests /\ p \in Procs /\ o \in Program /\ os' = [os EXCEPT ![p] = o]
        /\ o.resumed = os[p].resumed /\ (o.run = "none" => os[p].run = "none")
        /\ l \in Line /\ l.k # "tool" /\ (o.out = os[p].out \/ o.out = Append(os[p].out, l))
    OBVIOUS
  <1> QED BY ONLY <1>2, <1>3, <1>4, SaysStep

\* The block alone changes.
LEMMA MovesOnStep ==
  ASSUME CliInv, Rests, os' = os, NEW t \in Tools, tool[t].at \in {"named", "asked", "may"},
         NEW b \in Block, b.at \notin {"new", "open"}, b.p = tool[t].p,
         (b.by = tool[t].by /\ b.of = tool[t].of) \/ b.by = "self",
         tool' = [tool EXCEPT ![t] = b]
  PROVE  CliInv'
  <1>1. os \in [Procs -> Program] /\ 1 \in Procs /\ os[1] \in Program
    BY CliParts, CliAssumption DEF Procs
  <1>2. os' = [os EXCEPT ![1] = os[1]]
    BY <1>1
  <1>3. L("stop", 0) \in Line /\ L("stop", 0).k # "tool"
    BY LineTyped DEF L
  <1> DEFINE o == os[1]
  <1>4. o \in Program /\ os' = [os EXCEPT ![1] = o] /\ o = os[1]
    BY <1>1, <1>2
  <1> HIDE DEF o
  <1> QED BY <1>1, <1>3, <1>4, BlockStep

LEMMA AskStep ==
  ASSUME CliInv, NEW t \in Tools, Ask(t)
  PROVE  CliInv'
  <1> DEFINE p == tool[t].p
             l == L("ask", t)
             out == os[p].out \o <<l>>
             o == [os[p] EXCEPT !.out = out]
             b == [tool[t] EXCEPT !.at = "asked"]
  <1>1. /\ os \in [Procs -> Program] /\ tool \in [Tools -> Block] /\ tool[t] \in Block
    BY CliParts
  <1>2. os' = [os EXCEPT ![p].out = out] /\ tool' = [tool EXCEPT ![t] = b] /\ Rests
        /\ tool[t].at = "named"
    BY <1>1 DEF Ask, Says
  <1>3. l \in Line /\ l.k = "ask"
    BY LineTyped DEF L
  <1> HIDE DEF l
  <1>4. b \in Block /\ b.at = "asked" /\ b.p = p /\ b.by = tool[t].by /\ b.of = tool[t].of
    BY <1>1 DEF Block
  <1> HIDE DEF b
  <1>5. CASE p \notin Procs
    <2>1. os' = os
      BY <1>1, <1>2, <1>5
    <2> QED BY <1>2, <1>4, <2>1, MovesOnStep
  <1>6. CASE p \in Procs
    <2>1. os[p] \in Program
      BY <1>1, <1>6
    <2>2. out \in Seq(Line) /\ out = Append(os[p].out, l)
      <3>1. os[p].out \in Seq(Line)
        BY <2>1 DEF Program
      <3> QED BY <1>3, <3>1
    <2>3. os' = [os EXCEPT ![p] = o]
      BY <1>1, <1>2, <1>6
    <2> HIDE DEF out
    <2>4. /\ o \in Program /\ o.resumed = os[p].resumed /\ o.run = os[p].run /\ o.out = out
      BY <2>1, <2>2 DEF Program
    <2> HIDE DEF o
    <2>5. /\ l.k # "tool" /\ (o.out = os[p].out \/ o.out = Append(os[p].out, l))
          /\ tool[t].at \in {"named", "asked", "may"} /\ b.at \notin {"new", "open"}
          /\ b.p = tool[t].p /\ b.by = tool[t].by /\ b.of = tool[t].of
      BY <1>2, <1>3, <1>4, <2>2, <2>4
    <2>6. CliInv /\ t \in Tools /\ p \in Procs
      BY <1>6
    <2> QED BY ONLY <1>2, <1>3, <1>4, <2>3, <2>4, <2>5, <2>6, BlockStep
  <1> QED BY <1>5, <1>6

LEMMA CallToolStep ==
  ASSUME CliInv, NEW t \in Tools, CallTool(t)
  PROVE  CliInv'
  <1> DEFINE b == [tool[t] EXCEPT !.at = "sent"]
  <1>1. tool \in [Tools -> Block] /\ tool[t] \in Block
    BY CliParts
  <1>2. tool' = [tool EXCEPT ![t] = b] /\ Rests /\ os' = os /\ tool[t].at = "may"
    BY <1>1 DEF CallTool
  <1>3. b \in Block /\ b.at = "sent" /\ b.p = tool[t].p /\ b.by = tool[t].by /\ b.of = tool[t].of
    BY <1>1 DEF Block
  <1> HIDE DEF b
  <1> QED BY <1>2, <1>3, MovesOnStep

LEMMA SettleItselfStep ==
  ASSUME CliInv, NEW t \in Tools, SettleItself(t)
  PROVE  CliInv'
  <1> DEFINE b == [tool[t] EXCEPT !.at = "done", !.by = "self"]
  <1>1. tool \in [Tools -> Block] /\ tool[t] \in Block
    BY CliParts
  <1>2. tool' = [tool EXCEPT ![t] = b]
    <2>1. tool' = [tool EXCEPT ![t].at = "done", ![t].by = "self"]
      BY DEF SettleItself
    <2> QED BY <1>1, <2>1 DEF Block
  <1>3. Rests /\ os' = os /\ tool[t].at \in {"named", "may"}
    BY DEF SettleItself
  <1>4. b \in Block /\ b.at = "done" /\ b.p = tool[t].p /\ b.by = "self"
    BY <1>1 DEF Block
  <1> HIDE DEF b
  <1> QED BY <1>2, <1>3, <1>4, MovesOnStep

LEMMA InterruptedStep ==
  ASSUME CliInv, NEW p \in Procs, Interrupted(p)
  PROVE  CliInv'
  <1> DEFINE l == Result("error", os[p].turn)
             out == IF os[p].busy THEN Append(os[p].out, l) ELSE os[p].out
             o == [os[p] EXCEPT !.intr = FALSE, !.busy = FALSE, !.out = out]
             Given(t) == os[p].busy /\ t \in Unsettled(p)
             Left(t) == [tool[t] EXCEPT
                            !.at = IF tool[t].at = "open" THEN "open" ELSE "done",
                            !.by = IF tool[t].at = "open" THEN tool[t].by ELSE "self"]
  <1>1. /\ os \in [Procs -> Program] /\ os[p] \in Program /\ tool \in [Tools -> Block]
    BY CliParts
  <1>2. os' = [os EXCEPT ![p] = o] /\ Rests
    BY <1>1 DEF Interrupted
  <1>3. l \in Line /\ l.k = "result"
    BY <1>1, LineTyped DEF Result, Ends, Program
  <1> HIDE DEF l
  <1>4. out \in Seq(Line) /\ (out = os[p].out \/ out = Append(os[p].out, l))
    <2>1. os[p].out \in Seq(Line)
      BY <1>1 DEF Program
    <2> QED BY <1>3, <2>1
  <1> HIDE DEF out
  <1>5. /\ o \in Program /\ o.resumed = os[p].resumed /\ o.run = os[p].run /\ o.out = out
    BY <1>1, <1>4 DEF Program
  <1>6. \A t \in Tools : tool'[t] = IF Given(t) THEN Left(t) ELSE tool[t]
    BY <1>1 DEF Interrupted
  <1>7. tool' = [t \in Tools |-> tool'[t]]
    BY DEF Interrupted
  <1>8. \A t \in Tools : tool[t] \in Block
    BY <1>1
  <1>9. \A t \in Tools :
           /\ Left(t) \in Block /\ Left(t).p = tool[t].p
           /\ tool[t].at = "open" => Left(t) = tool[t]
           /\ tool[t].at # "open" => Left(t).at = "done" /\ Left(t).by = "self"
    <2> SUFFICES ASSUME NEW t \in Tools
                 PROVE  /\ Left(t) \in Block /\ Left(t).p = tool[t].p
                        /\ tool[t].at = "open" => Left(t) = tool[t]
                        /\ tool[t].at # "open" => Left(t).at = "done" /\ Left(t).by = "self"
      OBVIOUS
    <2>1. CASE tool[t].at = "open"
      BY <1>8, <2>1 DEF Block
    <2>2. CASE tool[t].at # "open"
      BY <1>8, <2>2 DEF Block
    <2> QED BY <2>1, <2>2
  <1> HIDE DEF Left, Given, o
  <1>10. tool' \in [Tools -> Block]
    <2>1. \A t \in Tools : tool'[t] \in Block
      BY <1>6, <1>8, <1>9
    <2> QED BY <1>7, <2>1
  <1>11. \A t \in Tools :
             /\ tool'[t].at = "open" <=> tool[t].at = "open"
             /\ tool'[t].by = "pi" => tool[t].by = "pi" /\ tool'[t].of = tool[t].of
             /\ tool'[t].at = "new" => tool'[t] = tool[t]
             /\ tool[t].at # "new" => tool'[t].p = tool[t].p
    <2> TAKE t \in Tools
    <2>1. tool'[t] = tool[t] \/ (tool'[t] = Left(t) /\ tool[t].at # "open")
      BY <1>6, <1>9
    <2> QED BY <1>9, <2>1
  <1> QED BY <1>2, <1>3, <1>4, <1>5, <1>10, <1>11, SaysStep

\* A message names its blocks in their order, each once.
LEMMA MessageStep ==
  ASSUME CliInv, NEW p \in Procs, NEW k \in 1 .. 2, Message(p, k)
  PROVE  CliInv'
  <1> DEFINE new == {t \in 1 .. conf.tools : tool[t].at = "new"}
             blk == [NoBlock EXCEPT !.p = p, !.at = "named"]
  <1>1. /\ os \in [Procs -> Program] /\ os[p] \in Program /\ tool \in [Tools -> Block]
        /\ conf \in Scenario /\ Announced(World) /\ Born(World)
        /\ k \in Nat
    BY CliParts DEF Base
  <1>2. new \in SUBSET Tools
    <2>1. conf.tools \in 0 .. MaxTools
      BY <1>1 DEF Scenario
    <2> QED BY <2>1, CliAssumption DEF Tools
  <1>3. \A t \in new : tool[t].at = "new" /\ tool[t].p = 0
    BY <1>1, <1>2, WorldIs DEF Born
  <1>4. PICK ids \in [1 .. k -> new] :
           /\ \A i \in 1 .. k : {t \in new : t < ids[i]} = {ids[j] : j \in 1 .. i - 1}
           /\ tool' = [t \in Tools |-> IF \E i \in 1 .. k : ids[i] = t THEN blk ELSE tool[t]]
           /\ Says(p, [i \in 1 .. k |-> L("tool", ids[i])] \o <<L("stop", 0)>>)
           /\ Rests
    BY DEF Message
  <1> HIDE DEF new
  <1> DEFINE m == [i \in 1 .. k |-> L("tool", ids[i])]
             n == <<L("stop", 0)>>
             out == os[p].out \o (m \o n)
             o == [os[p] EXCEPT !.out = out]
  <1>5. \A i \in 1 .. k : ids[i] \in new /\ ids[i] \in Tools /\ ids[i] \in Nat
    BY <1>2, <1>4 DEF Tools
  <1>6. \A i, j \in 1 .. k : ids[i] = ids[j] => i = j
    <2>1. \A i, j \in 1 .. k : i < j => ids[i] # ids[j]
      <3> SUFFICES ASSUME NEW i \in 1 .. k, NEW j \in 1 .. k, i < j PROVE ids[i] # ids[j]
        OBVIOUS
      <3>1. i \in 1 .. j - 1
        OBVIOUS
      <3>2. ids[i] \in {t \in new : t < ids[j]}
        BY <1>4, <3>1
      <3> QED BY <1>5, <3>2
    <2> QED BY <2>1
  <1>7. /\ DOMAIN m = 1 .. k
        /\ \A i \in 1 .. k : m[i] \in Line /\ m[i].k = "tool" /\ m[i].t = ids[i]
    BY <1>5, LineTyped DEF L
  <1>8. m \in Seq(Line)
    <2>1. m \in [1 .. k -> Line]
      BY <1>7
    <2> QED BY <1>1, <2>1
  <1>9. n \in Seq(Line) /\ Once(n) /\ Blocks(n) = {}
    <2>1. L("stop", 0) \in Line /\ L("stop", 0).k # "tool"
      BY LineTyped DEF L
    <2> DEFINE l == L("stop", 0)
    <2> HIDE DEF l
    <2>2. <<l>> \in Seq(Line) /\ DOMAIN <<l>> = {1} /\ <<l>>[1] = l /\ l.k # "tool"
      BY <2>1 DEF l
    <2>3. Once(<<l>>) /\ Blocks(<<l>>) = {}
      BY <2>2 DEF Once, Blocks
    <2> QED BY <2>2, <2>3 DEF l
  <1> HIDE DEF m, n
  <1>10. Once(m) /\ Blocks(m) = {ids[i] : i \in 1 .. k}
    BY <1>6, <1>7 DEF Once, Blocks
  <1>11. m \o n \in Seq(Line) /\ Once(m \o n) /\ Blocks(m \o n) \subseteq {ids[i] : i \in 1 .. k}
    BY <1>8, <1>9, <1>10, ConcatLines
  <1> DEFINE said == m \o n
  <1> HIDE DEF said
  <1>12. /\ Once(cli[p].buf) /\ Once(os[p].out)
         /\ Blocks(cli[p].buf) \cap Blocks(os[p].out) = {}
         /\ \A t \in Blocks(cli[p].buf) \cup Blocks(os[p].out) : t \in Tools /\ tool[t].p = p
    BY <1>1, WorldIs DEF Announced
  <1>13. p # 0
    BY CliAssumption DEF Procs
  <1>14. Blocks(said) \cap (Blocks(cli[p].buf) \cup Blocks(os[p].out)) = {}
    <2>1. \A t \in Blocks(said) : tool[t].p = 0
      BY <1>3, <1>5, <1>11 DEF said
    <2> QED BY <1>12, <1>13, <2>1
  <1>15. /\ out \in Seq(Line) /\ Once(out)
         /\ Blocks(out) \subseteq Blocks(os[p].out) \cup Blocks(said)
    <2>1. os[p].out \in Seq(Line) /\ out = os[p].out \o said
      BY <1>1 DEF Program, said
    <2>2. said \in Seq(Line) /\ Once(said)
      BY <1>11 DEF said
    <2> HIDE DEF out
    <2> QED BY <1>12, <1>14, <2>1, <2>2, ConcatLines
  <1>16. os' = [os EXCEPT ![p] = o]
    BY <1>1, <1>4 DEF Says, m, n
  <1> HIDE DEF out
  <1>17. o \in Program /\ o.resumed = os[p].resumed /\ o.run = os[p].run /\ o.out = out
    BY <1>1, <1>15 DEF Program
  <1> HIDE DEF o
  <1>18. blk \in Block /\ blk.p = p /\ blk.at = "named" /\ blk.by = "none"
    <2>1. p \in 0 .. MaxProcs /\ 0 \in 0 .. MaxTools
      BY CliAssumption DEF Procs
    <2> QED BY <2>1 DEF NoBlock, Block
  <1> HIDE DEF blk
  <1>19. /\ tool' \in [Tools -> Block]
         /\ \A t \in Tools : \/ t \in {ids[i] : i \in 1 .. k} /\ tool'[t] = blk
                             \/ tool'[t] = tool[t]
         /\ \A i \in 1 .. k : tool'[ids[i]] = blk
    BY <1>1, <1>4, <1>5, <1>18
  <1>20. \A t \in Tools :
             /\ tool'[t].at = "open" <=> tool[t].at = "open"
             /\ tool'[t].by = "pi" => tool[t].by = "pi" /\ tool'[t].of = tool[t].of
             /\ tool'[t].at = "new" => tool'[t] = tool[t]
             /\ tool[t].at # "new" => tool'[t].p = tool[t].p
    <2> TAKE t \in Tools
    <2>1. CASE tool'[t] = tool[t]
      BY <2>1
    <2>2. CASE t \in {ids[i] : i \in 1 .. k} /\ tool'[t] = blk
      <3>1. tool[t].at = "new"
        BY <1>3, <1>5, <2>2
      <3> QED BY <1>18, <2>2, <3>1
    <2> QED BY <1>19, <2>1, <2>2
  <1>21. Blocks(cli[p].buf) \cap Blocks(out) = {}
    BY <1>12, <1>14, <1>15
  <1>22. \A t \in Blocks(out) : \/ t \in Blocks(os[p].out)
                                \/ t \in Tools /\ tool[t].at = "new" /\ tool'[t].p = p
    <2> SUFFICES ASSUME NEW t \in Blocks(out), t \notin Blocks(os[p].out)
                 PROVE  t \in Tools /\ tool[t].at = "new" /\ tool'[t].p = p
      OBVIOUS
    <2>1. PICK i \in 1 .. k : t = ids[i]
      BY <1>11, <1>15 DEF said
    <2> QED BY <1>3, <1>5, <1>18, <1>19, <2>1
  <1>23. Rests
    BY <1>4
  <1> QED BY <1>15, <1>16, <1>17, <1>19, <1>20, <1>21, <1>22, <1>23, TalksStep

-----------------------------------------------------------------------------
(* The theorems.                                                            *)

LEMMA CliInit ==
  ASSUME InitCli
  PROVE  CliInv
  <1> DEFINE w == World
  <1>1. /\ conf \in Scenarios
        /\ w.cli = [p \in Procs |-> Unborn] /\ w.os = [p \in Procs |-> NoProgram]
        /\ w.tool = [t \in Tools |-> NoBlock] /\ w.call = NoCall /\ w.parked = 0
        /\ w.map = 0 /\ w.stray = {} /\ w.wants = {}
    BY WorldIs DEF InitCli, NoProc
  <1>2. /\ w = [cli |-> w.cli, os |-> w.os, tool |-> w.tool, call |-> w.call,
                parked |-> w.parked, map |-> w.map, stray |-> w.stray, wants |-> w.wants]
    BY WorldIs DEF World
  <1> HIDE DEF w
  <1>3. /\ 0 \in 0 .. MaxCalls /\ 0 \in 0 .. MaxProcs /\ 0 \in 0 .. MaxTools /\ 0 \in 0 .. 1
        /\ <<>> \in Seq(Line) /\ <<>> \in Seq(1 .. MaxCalls)
    BY CliAssumption
  <1>4. Unborn \in Process /\ NoProgram \in Program /\ NoBlock \in Block
    <2>1. Unborn \in Process
      BY <1>3 DEF Unborn, Process
    <2>2. NoProgram \in Program
      BY <1>3 DEF NoProgram, Program, Running
    <2>3. NoBlock \in Block
      BY <1>3 DEF NoBlock, Block
    <2> QED BY <2>1, <2>2, <2>3
  <1>5. w \in Worlds
    <2>1. /\ w.cli \in [Procs -> Process] /\ w.os \in [Procs -> Program]
          /\ w.tool \in [Tools -> Block] /\ w.call \in PiCall
          /\ w.parked \in 0 .. MaxProcs /\ w.map \in 0 .. MaxProcs
          /\ w.stray \in SUBSET [p : Procs, waits : BOOLEAN] /\ w.wants \in SUBSET Tools
      BY <1>1, <1>3, <1>4, NoCallTyped
    <2> QED BY <1>2, <2>1 DEF Worlds
  <1>6. \A p \in Procs :
           /\ w.cli[p].pending = {} /\ w.cli[p].awaiting = {} /\ w.cli[p].ready = {}
           /\ w.cli[p].buf = <<>> /\ ~w.cli[p].alive /\ ~w.cli[p].sink
           /\ w.os[p].out = <<>> /\ ~w.os[p].resumed /\ w.os[p].run = "none"
    BY <1>1 DEF Unborn, NoProgram
  <1>7. \A t \in Tools : w.tool[t].at = "new" /\ w.tool[t].by = "none" /\ w.tool[t].p = 0
    BY <1>1 DEF NoBlock
  <1>8. \A p \in Procs : Ids(w.cli[p]) = {} /\ Known(w.cli[p]) = {}
    BY <1>6 DEF Ids, Known, Awaited
  <1>9. Held(w) /\ Matched(w, conf) /\ Born(w) /\ Attached(w) /\ KeptBut(w, NoProc)
    BY <1>6, <1>7 DEF Held, Matched, Born, Attached, KeptBut
  <1>10. Announced(w)
    BY <1>6, <1>8, NoLines DEF Announced
  <1>11. /\ w.call.ph = "none" /\ w.call.n = 0 /\ ~w.call.finished /\ ~w.call.saw
         /\ w.call.tools = {} /\ w.call.ended = 0 /\ ~w.call.force
    BY <1>1 DEF NoCall
  <1>12. Free(w) /\ CallSound(w.call) /\ Missed(w, conf) /\ Live(w) /\ Owed(w)
    <2>1. Free(w)
      BY <1>11 DEF Free, Engaged, Serves
    <2>2. CallSound(w.call)
      BY <1>11 DEF CallSound
    <2>3. Missed(w, conf)
      BY <1>6, <1>11 DEF Missed
    <2>4. Live(w)
      BY <1>11 DEF Live
    <2>5. Owed(w)
      BY <1>1 DEF Owed, NoProc
    <2> QED BY <2>1, <2>2, <2>3, <2>4, <2>5
  <1>13. \A p \in Procs : Quiet(w.cli[p])
    BY <1>6 DEF Quiet
  <1>14. Good(w, conf)
    BY <1>5, <1>9, <1>10, <1>12, <1>13 DEF Good, Core, CoreBut, Base
  <1> QED BY <1>1, <1>14 DEF CliInv, w

LEMMA CliStays ==
  ASSUME CliInv, UNCHANGED cliVars
  PROVE  CliInv'
  <1>1. /\ conf \in Scenarios /\ Good(World, conf) /\ conf' = conf
        /\ cli' = World.cli /\ os' = World.os /\ tool' = World.tool /\ call' = World.call
        /\ parked' = World.parked /\ map' = World.map /\ stray' = World.stray
        /\ wants' = World.wants
    BY CliParts, WorldIs DEF cliVars
  <1> QED BY <1>1, NextWorld

LEMMA CliNext ==
  ASSUME CliInv, [NextCli]_cliVars
  PROVE  CliInv'
  <1>1. \A o \in Options : o.fits \in BOOLEAN /\ o.control \in BOOLEAN /\ o.stale \in BOOLEAN
    BY DEF Options
  <1>2. CASE Pi
    <2>1. CASE \E user \in BOOLEAN : PiCalls(user)
      BY <2>1, PiCallsStep
    <2>2. CASE Abort
      BY <2>2, AbortStep
    <2>3. CASE RetireAll
      BY <2>3, RetireAllStep
    <2> QED BY <1>2, <2>1, <2>2, <2>3 DEF Pi
  <1>3. CASE Call
    <2>1. ASSUME NEW o \in Options, Choose(o.fits, o.control, o.stale)
          PROVE  CliInv'
      BY <1>1, <2>1, ChooseStep
    <2>2. CASE ThinkingApplied
      BY <2>2, ThinkingAppliedStep
    <2>3. CASE ThinkingRefused
      BY <2>3, ThinkingRefusedStep
    <2>4. ASSUME NEW o \in Options, SpawnAfterRetire(o.stale)
          PROVE  CliInv'
      BY <1>1, <2>4, SpawnAfterRetireStep
    <2>5. CASE Inactive
      BY <2>5, InactiveStep
    <2>6. CASE AgentsWaitedOut
      BY <2>6, AgentsWaitedOutStep
    <2> QED BY <1>3, <2>1, <2>2, <2>3, <2>4, <2>5, <2>6 DEF Call
  <1>4. ASSUME NEW p \in Procs, Callback(p)
        PROVE  CliInv'
    <2>1. CASE HandleLine(p)
      BY <2>1, HandleLineStep
    <2>2. CASE StdoutClose(p)
      BY <2>2, StdoutCloseStep
    <2>3. CASE ProcClose(p)
      BY <2>3, ProcCloseStep
    <2>4. CASE IdleExpires(p)
      BY <2>4, IdleExpiresStep
    <2>5. CASE GraceExpires(p)
      BY <2>5, GraceExpiresStep
    <2>6. CASE KillExpires(p)
      BY <2>6, KillExpiresStep
    <2>7. CASE Backstop(p)
      BY <2>7, BackstopStep
    <2> QED BY <1>4, <2>1, <2>2, <2>3, <2>4, <2>5, <2>6, <2>7 DEF Callback
  <1>5. ASSUME NEW p \in Procs, CliStep(p)
        PROVE  CliInv'
    <2>1. CASE BeginTurn(p)
      BY <2>1, BeginStep
    <2>2. CASE DrainQueue(p)
      BY <2>2, DrainQueueStep
    <2>3. CASE OwnTurn(p)
      BY <2>3, OwnTurnStep
    <2>4. ASSUME NEW k \in 1 .. 2, Message(p, k)
          PROVE  CliInv'
      BY <2>4, MessageStep
    <2>5. ASSUME NEW r \in {"ok", "error", "miss"}, EndTurn(p, r)
          PROVE  CliInv'
      BY <2>5, EndTurnStep
    <2>6. CASE Interrupted(p)
      BY <2>6, InterruptedStep
    <2>7. CASE LaunchAgent(p)
      BY <2>7, LaunchAgentStep
    <2>8. CASE AgentReports(p)
      BY <2>8, AgentReportsStep
    <2>9. CASE Exit(p) \/ CliCrashes(p)
      BY <2>9, EndsStep
    <2> QED BY <1>5, <2>1, <2>2, <2>3, <2>4, <2>5, <2>6, <2>7, <2>8, <2>9 DEF CliStep
  <1>6. ASSUME NEW x \in stray, StrayTimer(x)
        PROVE  CliInv'
    BY <1>6, StrayTimerStep
  <1>7. ASSUME NEW t \in Tools, Dispatch(t) \/ Ask(t) \/ CallTool(t) \/ SettleItself(t)
        PROVE  CliInv'
    BY <1>7, DispatchStep, AskStep, CallToolStep, SettleItselfStep
  <1>8. CASE UNCHANGED cliVars
    BY <1>8, CliStays
  <1> QED BY <1>2, <1>3, <1>4, <1>5, <1>6, <1>7, <1>8 DEF NextCli

\* The processes, their calls and the session map stay in step with one
\* another, whatever the CLI says and wherever it stops (CliProcess, Broker,
\* runCliAttempt).
THEOREM CliHolds == CliSpec => []CliInv
  <1>1. InitCli => CliInv
    BY CliInit
  <1>2. CliInv /\ [NextCli]_cliVars => CliInv'
    BY CliNext
  <1> QED BY <1>1, <1>2, PTL DEF CliSpec

\* A tools/call that waits for pi is in the pending map of exactly one process,
\* one that something will still retire (onHandoffCall, retire,
\* handleProcClose).
THEOREM CallsAreHeld == CliSpec => []OpenCallsHeld
  <1>1. CliInv => OpenCallsHeld
    <2> SUFFICES ASSUME CliInv, NEW t \in Tools, tool[t].at = "open"
                 PROVE  \E p \in Procs :
                            /\ \A q \in Procs : (\E c \in cli[q].pending : c.from = t) <=> q = p
                            /\ cli[p].alive /\ ~cli[p].retired
                            /\ p \in {parked, call.p}
      BY DEF OpenCallsHeld
    <2>1. Held(World) /\ KeptBut(World, NoProc) /\ World \in Worlds
      BY CliParts DEF Base
    <2>2. PICK p \in Procs : \E c \in cli[p].pending : c.from = t
      BY <2>1, WorldIs DEF Held
    <2>3. cli[p].alive /\ ~cli[p].retired
      BY <2>1, <2>2, WorldIs DEF Held
    <2>4. p # NoProc
      BY CliAssumption DEF Procs, NoProc
    <2>5. p \in {parked, call.p}
      BY <2>1, <2>3, <2>4, WorldIs DEF KeptBut
    <2>6. ASSUME NEW q \in Procs, \E c \in cli[q].pending : c.from = t
          PROVE  q = p
      <3>1. PICK c \in cli[p].pending : c.from = t
        BY <2>2
      <3>2. PICK d \in cli[q].pending : d.from = t
        BY <2>6
      <3> QED BY <2>1, <3>1, <3>2, WorldIs DEF Held
    <2> QED BY <2>2, <2>3, <2>5, <2>6
  <1> QED BY <1>1, CliHolds, PTL

\* A call that continues a running turn has a result for every block the CLI
\* waits on: after it, nothing is awaited (canContinueHandoff, openHandoff).
THEOREM ContinuationsAreWhole == CliSpec => []ContinuesWhole
  <1>1. CliInv => ContinuesWhole
    <2> SUFFICES ASSUME CliInv, call.ph = "open", ~call.saw
                 PROVE  cli[call.p].awaiting = {} /\ cli[call.p].pending = {}
      BY DEF ContinuesWhole, Called
    <2>1. Live(World) /\ CallSound(call)
      BY CliParts
    <2>2. /\ ~call.finished /\ ~cli[call.p].eof /\ Whole(World, {})
      BY <2>1, WorldIs DEF Live
    <2>3. call.tools = {}
      BY <2>1 DEF CallSound
    <2>4. Awaited(cli[call.p]) = {}
      BY <2>2, <2>3, WorldIs DEF Whole
    <2> QED BY <2>4 DEF Awaited, Ids
  <1> QED BY <1>1, CliHolds, PTL

\* The stream of a call is ended once, and the attempt after a resume that
\* missed resumes nothing and starts from an empty map (resumeMiss,
\* streamEnded).
THEOREM AttemptsAreSound == CliSpec => []AttemptsSound
  <1>1. CliInv => AttemptsSound
    <2> SUFFICES ASSUME CliInv PROVE MissIsReimported /\ EndedOnce
      BY DEF AttemptsSound
    <2>1. CallSound(call) /\ Missed(World, conf) /\ Live(World) /\ call \in PiCall
      BY CliParts
    <2>2. call.n \in Nat /\ call.ended \in Nat
      BY <2>1 DEF PiCall
    <2>3. EndedOnce
      BY <2>1, <2>2 DEF CallSound, EndedOnce, Called
    <2>4. MissIsReimported
      BY <2>1, WorldIs DEF Missed, Live, MissIsReimported, Called
    <2> QED BY <2>3, <2>4
  <1> QED BY <1>1, CliHolds, PTL

\* Where the CLI tags its calls, a call gets pi's result for the block it was
\* made for and no other's, also when a process that resumed the same session
\* takes the calls of an older one (onHandoffCall, resolveWaiter).
THEOREM TaggedAnswersMatch ==
  ASSUME \A c \in Scenarios : c.idTags
  PROVE  CliSpec => []AnswersMatch
  <1>1. CliInv => AnswersMatch
    <2> SUFFICES ASSUME CliInv PROVE AnswersMatch
      OBVIOUS
    <2>1. conf \in Scenarios /\ Matched(World, conf)
      BY CliParts DEF Base
    <2> QED BY <2>1, WorldIs DEF Matched, AnswersMatch
  <1> QED BY <1>1, CliHolds, PTL
=============================================================================
