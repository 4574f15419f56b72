----------------------------- MODULE EventBridge -----------------------------
(***************************************************************************)
(* The event bridge of claude-cli (event-bridge.ts): it turns one episode  *)
(* of the CLI, N API calls ("cycles") whose block indexes start over, into *)
(* one assistant message, mixing in markers for the tools the CLI runs     *)
(* itself, its compactions and its final result.                           *)
(*                                                                         *)
(* Texts are counted in parts, tokens as what a call read and wrote; tool  *)
(* arguments, cost and the payloads of markers are left out.  The CLI is   *)
(* the environment: it sends well formed cycles, but may start the next    *)
(* one while blocks of the last are open (a retried call), and repeats     *)
(* envelopes.                                                              *)
(***************************************************************************)
EXTENDS Naturals, Sequences, FiniteSets, SequencesExt

CONSTANTS Tools,      \* ids of the tools the CLI runs itself
          Instances,  \* bounds an episode is explored within, one chosen at the start:
                      \* [cycles, blocks (by cycle), parts (by block), context (the sizes
                      \* reported), tools (called)], and forwarding (of their results)
          None

VARIABLES
  inst,
  blocks,     \* the tracked blocks
  content,    \* output.content, each with what was pushed for it
  cycle, cumulative, cycleUsage, lastCycle,
  usage,      \* output.usage: read and written in all, and totalTokens
  stopReason,
  markedTools, forwardedResultIds,
  open,       \* environment: the blocks of this cycle, by index, not yet stopped
  said,       \* environment: the parts sent so far, by cycle and index
  phase,      \* environment: "start", "open", "closed" (message_delta sent) or "done"
  bill,       \* history: what each cycle reported last
  context     \* history: the size of the model's context as last reported

ebvars == <<inst, blocks, content, cycle, cumulative, cycleUsage, lastCycle, usage, stopReason,
            markedTools, forwardedResultIds, open, said, phase, bill, context>>

Types == {"text", "thinking", "toolCall"}
Keys == Nat \X Nat
Usages == [read : Nat, wrote : Nat]
NoUsage == [read |-> 0, wrote |-> 0]
Plus(u, v) == [read |-> u.read + v.read, wrote |-> u.wrote + v.wrote]

BridgeAssumption ==
  /\ IsFiniteSet(Tools) /\ None \notin Tools /\ None \notin Keys
  /\ \A i \in Instances : i.tools \subseteq Tools /\ i.context \subseteq Nat

EBTypeOK ==
  /\ inst \in Instances
  /\ blocks \in Seq([type : Types, key : Keys \cup {None}, at : Nat, parts : Nat])
  /\ content \in Seq([type : Types \cup {"marker"}, key : Keys \cup {None}, tool : Tools \cup {None},
                      parts : Nat, ends : Nat, stray : BOOLEAN])
  /\ cycle \in Nat /\ lastCycle \in Nat /\ context \in Nat
  /\ cumulative \in Usages /\ cycleUsage \in Usages /\ bill \in Seq(Usages)
  /\ usage \in [spent : Usages, total : Nat]
  /\ markedTools \subseteq Tools /\ forwardedResultIds \subseteq markedTools
  /\ stopReason \in {"stop", "toolUse"} /\ phase \in {"start", "open", "closed", "done"}
  /\ DOMAIN said \subseteq Keys /\ said = [k \in DOMAIN said |-> said[k]]
  /\ \A k \in DOMAIN said : said[k] \in Nat

EBInit ==
  /\ inst \in Instances
  /\ blocks = << >> /\ content = << >>
  /\ cycle = 0 /\ cumulative = NoUsage /\ cycleUsage = NoUsage /\ lastCycle = 0
  /\ usage = [spent |-> NoUsage, total |-> 0] /\ stopReason = "stop"
  /\ markedTools = {} /\ forwardedResultIds = {}
  /\ open = [i \in {} |-> None] /\ said = [k \in {} |-> 0] /\ phase = "start"
  /\ bill = << >> /\ context = 0

Item(type, key, tool, parts, ends) ==
  [type |-> type, key |-> key, tool |-> tool, parts |-> parts, ends |-> ends, stray |-> FALSE]
Marker(tool) == Item("marker", None, tool, 1, 1)

\* Mutant: a block of an earlier cycle is found by its index.
trackedByIndex(i) == {b \in DOMAIN blocks : blocks[b].key # None /\ blocks[b].key[2] = i}

(* A stopped block has lost its index and is found no more.                *)
trackedFor(i) == {b \in DOMAIN blocks : blocks[b].key = <<cycle, i>>}
Tracked(i) == CHOOSE b \in trackedFor(i) : \A c \in trackedFor(i) : b <= c

(* recomputeUsage: the sums are what is billed; totalTokens is the size of *)
(* the last cycle that reported one.                                       *)
Recomputed(cum, cyc, latch) ==
  LET spent == Plus(cum, cyc)
      last == IF cyc.read > 0 THEN cyc.read ELSE latch
  IN  /\ usage' = [spent |-> spent, total |-> IF last > 0 THEN last ELSE spent.read + spent.wrote]
      /\ lastCycle' = last
      /\ cumulative' = cum /\ cycleUsage' = cyc

Reported(u) == IF u.read > 0 THEN u.read ELSE context

----------------------------------------------------------------------------
(* Stream events                                                           *)

(* message_start banks the cycle before, then takes this one's first       *)
(* figures, if there are any.                                              *)
MessageStart ==
  /\ phase # "done" /\ cycle < inst.cycles
  /\ cycle' = cycle + 1
  /\ phase' = "open" /\ open' = [i \in {} |-> None]
  /\ \/ /\ \E read \in inst.context : LET u == [read |-> read, wrote |-> 0] IN
             /\ Recomputed(Plus(cumulative, cycleUsage), u, lastCycle)
             /\ bill' = Append(bill, u) /\ context' = Reported(u)
     \/ /\ cumulative' = Plus(cumulative, cycleUsage) /\ cycleUsage' = NoUsage
        /\ bill' = Append(bill, NoUsage)
        /\ UNCHANGED <<lastCycle, usage, context>>
  /\ UNCHANGED <<inst, blocks, content, stopReason, markedTools, forwardedResultIds, said>>

\* The blocks of this cycle so far.
Numbered == {k \in DOMAIN said : k[1] = cycle}

(* content_block_start: text and handed-off calls enter the message at     *)
(* once, thinking with its first plain text, the CLI's own calls never.    *)
BlockStart(type) ==
  /\ phase = "open"
  /\ LET i == Cardinality(Numbered)
         key == <<cycle, i>>
         tracked == [type |-> type, key |-> key, at |-> 0, parts |-> 0]
     IN /\ i < inst.blocks
        /\ open' = [j \in DOMAIN open \cup {i} |-> IF j = i THEN type ELSE open[j]]
        /\ said' = [k \in DOMAIN said \cup {key} |-> IF k = key THEN 0 ELSE said[k]]
        /\ CASE type = "ownTool" -> UNCHANGED <<blocks, content>>
             [] type = "thinking" -> blocks' = Append(blocks, tracked) /\ UNCHANGED content
             [] OTHER -> /\ blocks' = Append(blocks, [tracked EXCEPT !.at = Len(content) + 1])
                         /\ content' = Append(content, Item(type, key, None, 0, 0))
  /\ UNCHANGED <<inst, cycle, cumulative, cycleUsage, lastCycle, usage, stopReason, markedTools,
                 forwardedResultIds, phase, bill, context>>

(* content_block_delta with a part of the block's text or arguments.       *)
Delta(i) ==
  /\ phase = "open" /\ i \in DOMAIN open /\ said[<<cycle, i>>] < inst.parts
  /\ said' = [said EXCEPT ![<<cycle, i>>] = @ + 1]
  /\ IF trackedFor(i) = {} \/ open[i] # blocks[Tracked(i)].type THEN UNCHANGED <<blocks, content>>
     ELSE LET b == Tracked(i)
              at == IF blocks[b].at = 0 THEN Len(content) + 1 ELSE blocks[b].at
              before == IF blocks[b].at = 0
                        THEN Append(content, Item("thinking", blocks[b].key, None, 0, 0)) ELSE content
          IN  /\ blocks' = [blocks EXCEPT ![b].at = at, ![b].parts = @ + 1]
              /\ content' = [before EXCEPT ![at].parts = blocks[b].parts + 1,
                                           ![at].stray = @ \/ before[at].ends > 0]
  /\ UNCHANGED <<inst, cycle, cumulative, cycleUsage, lastCycle, usage, stopReason, markedTools,
                 forwardedResultIds, open, phase, bill, context>>

(* content_block_stop: the block ends; thinking without text is dropped.   *)
BlockStop(i) ==
  /\ phase = "open" /\ i \in DOMAIN open
  /\ open' = [j \in DOMAIN open \ {i} |-> open[j]]
  /\ IF trackedFor(i) = {} THEN UNCHANGED <<blocks, content>>
     ELSE LET b == Tracked(i) IN
          IF blocks[b].at = 0 THEN blocks' = RemoveAt(blocks, b) /\ UNCHANGED content
          ELSE /\ blocks' = [blocks EXCEPT ![b].key = None]
               /\ content' = [content EXCEPT ![blocks[b].at].ends = @ + 1]
  /\ UNCHANGED <<inst, cycle, cumulative, cycleUsage, lastCycle, usage, stopReason, markedTools,
                 forwardedResultIds, said, phase, bill, context>>

HandedOff(item) == item.type = "toolCall" /\ item.key # None /\ item.key[1] = cycle

(* message_delta: the cycle's final figures replace its first ones.        *)
MessageDelta ==
  /\ phase = "open" /\ open = [i \in {} |-> None]
  /\ phase' = "closed"
  /\ stopReason' = IF \E n \in DOMAIN content : HandedOff(content[n]) THEN "toolUse" ELSE "stop"
  /\ \E read \in {cycleUsage.read} \cup inst.context : LET u == [read |-> read, wrote |-> 1] IN
       /\ Recomputed(cumulative, u, lastCycle)
       /\ bill' = [bill EXCEPT ![cycle] = u] /\ context' = Reported(u)
  /\ UNCHANGED <<inst, blocks, content, cycle, markedTools, forwardedResultIds, open, said>>

----------------------------------------------------------------------------
(* Envelopes                                                               *)

(* appendTextBlock: a finished text block of its own at the end.           *)
Appended(items) ==
  /\ content' = content \o items
  /\ blocks' = blocks \o [n \in DOMAIN items |->
                 [type |-> "text", key |-> None, at |-> Len(content) + n, parts |-> 1]]

Room == Len(content) < inst.cycles * inst.blocks + 1

(* An assistant envelope marks each of the CLI's own calls once.           *)
AssistantEnvelope(tool) ==
  /\ phase \in {"open", "closed"} /\ Room
  /\ markedTools' = markedTools \cup {tool}
  /\ IF tool \in markedTools THEN UNCHANGED <<content, blocks>> ELSE Appended(<<Marker(tool)>>)
  /\ UNCHANGED <<inst, cycle, cumulative, cycleUsage, lastCycle, usage, stopReason, forwardedResultIds,
                 open, said, phase, bill, context>>

(* A user envelope reports results, of calls that have a marker, once.     *)
UserEnvelope(tools) ==
  /\ inst.forwarding /\ phase \in {"open", "closed"} /\ tools # {} /\ Room
  /\ LET fresh == (tools \cap markedTools) \ forwardedResultIds IN
     /\ forwardedResultIds' = forwardedResultIds \cup fresh
     /\ \E order \in Bijection(1..Cardinality(fresh), fresh) :
          Appended([n \in 1..Cardinality(fresh) |-> Marker(order[n])])
  /\ UNCHANGED <<inst, cycle, cumulative, cycleUsage, lastCycle, usage, stopReason, markedTools,
                 open, said, phase, bill, context>>

(* The CLI compacted its session: the finished cycle is banked, and the    *)
(* context is what was left, if that is reported.                          *)
CompactBoundary ==
  /\ phase = "closed" /\ Room
  /\ \E post \in {0} \cup inst.context :
       IF post > 0
       THEN /\ Recomputed(Plus(cumulative, cycleUsage), NoUsage, post)
            /\ context' = post
       ELSE UNCHANGED <<cumulative, cycleUsage, lastCycle, usage, context>>
  /\ Appended(<<Marker(None)>>)
  /\ UNCHANGED <<inst, cycle, stopReason, markedTools, forwardedResultIds, open, said, phase, bill>>

(* The result: the episode's own totals replace the sums, if it has them;  *)
(* a final answer the stream lost is appended.                             *)
Result ==
  /\ phase \in {"open", "closed"} /\ phase' = "done"
  /\ \/ \E totals \in [read : inst.context, wrote : {1}] :
          /\ Recomputed(totals, NoUsage, lastCycle)
          /\ bill' = <<totals>>
     \/ UNCHANGED <<cumulative, cycleUsage, lastCycle, usage, bill>>
  /\ \/ Appended(<<Marker(None)>>)
     \/ UNCHANGED <<content, blocks>>
  /\ UNCHANGED <<inst, cycle, stopReason, markedTools, forwardedResultIds, open, said, context>>

EBNext ==
  \/ MessageStart \/ MessageDelta \/ CompactBoundary \/ Result
  \/ \E type \in Types \cup {"ownTool"} : BlockStart(type)
  \/ \E i \in DOMAIN open : Delta(i) \/ BlockStop(i)
  \/ \E tool \in inst.tools : AssistantEnvelope(tool)
  \/ \E tools \in SUBSET inst.tools : UserEnvelope(tools)

EBSpec == EBInit /\ [][EBNext]_ebvars

----------------------------------------------------------------------------
(* Every part lands in its own block, whatever markers and cycles came in  *)
(* between: a block of the message holds exactly what was sent of it, has  *)
(* one block of its key, and nothing is pushed for it after its end.       *)
EveryPartInPlace ==
  \A n \in DOMAIN content : content[n].key # None =>
    /\ content[n].parts = said[content[n].key]
    /\ content[n].ends <= 1 /\ ~content[n].stray
    /\ \A m \in DOMAIN content : content[m].key = content[n].key => m = n

(* The context gauge shows the size last reported, of the last cycle or of *)
(* the compacted session: neither the sum over the cycles nor a size from  *)
(* before the compaction (event-bridge.ts:508-516).                        *)
GaugeIsContext == context > 0 => usage.total = context

(* Each cycle is billed once with the figures it reported last, until the  *)
(* result replaces them by its own.                                        *)
Total(figures) ==
  LET Sum[c \in 0..Len(figures)] == IF c = 0 THEN NoUsage ELSE Plus(Sum[c - 1], figures[c])
  IN  Sum[Len(figures)]
BilledOnce == Plus(cumulative, cycleUsage) = Total(bill)

(* A result marker comes after the marker of its call, at most one each.   *)
ResultsFollowCalls ==
  \A tool \in Tools :
    Cardinality({n \in DOMAIN content : content[n].tool = tool})
      = (IF tool \in markedTools THEN 1 ELSE 0) + (IF tool \in forwardedResultIds THEN 1 ELSE 0)

----------------------------------------------------------------------------
(* What these rest on.  The blocks of a cycle are numbered as they start,  *)
(* and those that are open and in the message, or will be, are tracked: a  *)
(* tracked block counts what was sent of it, and its place in the message  *)
(* is that of no other and has not ended.                                  *)
SaidFits ==
  /\ \A k \in DOMAIN said : k[1] <= cycle
  /\ Numbered = {<<cycle, i>> : i \in 0..Cardinality(Numbered) - 1} /\ IsFiniteSet(Numbered)
  /\ open = [i \in DOMAIN open |-> open[i]]
  /\ \A i \in DOMAIN open : <<cycle, i>> \in DOMAIN said

BlockFits(b) ==
  blocks[b].key # None =>
    /\ blocks[b].key \in DOMAIN said /\ blocks[b].parts = said[blocks[b].key]
    /\ \A c \in DOMAIN blocks : blocks[c].key = blocks[b].key => c = b
    /\ blocks[b].key[1] = cycle =>
         blocks[b].key[2] \in DOMAIN open /\ open[blocks[b].key[2]] = blocks[b].type
    /\ IF blocks[b].at = 0
       THEN \A n \in DOMAIN content : content[n].key # blocks[b].key
       ELSE /\ blocks[b].at \in DOMAIN content
            /\ content[blocks[b].at].key = blocks[b].key /\ content[blocks[b].at].ends = 0

ItemFits(n) ==
  content[n].key # None =>
    /\ content[n].key \in DOMAIN said
    /\ content[n].key[1] = cycle /\ content[n].key[2] \in DOMAIN open =>
         trackedFor(content[n].key[2]) # {}

PartsFit ==
  /\ SaidFits /\ EveryPartInPlace
  /\ \A b \in DOMAIN blocks : BlockFits(b)
  /\ \A n \in DOMAIN content : ItemFits(n)

\* Until the result there is a bill for each cycle; the one that is open has
\* reported what was billed of it last.
BillFits ==
  /\ lastCycle = context
  /\ phase # "done" => Len(bill) = cycle
  /\ phase = "open" => cycle > 0 /\ cycleUsage = bill[cycle]
  /\ GaugeIsContext /\ BilledOnce

BridgeInv == EBTypeOK /\ PartsFit /\ BillFits /\ ResultsFollowCalls
=============================================================================
