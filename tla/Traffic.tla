------------------------------ MODULE Traffic ------------------------------
(***************************************************************************)
(* How the bytes a node carries reach a user's bill: the counters of the   *)
(* cores, GetStats of their adapters and handleStats of the agent, and the *)
(* panel's poll of one node (pollNodeStats with computeUserDeltas,         *)
(* computeNodeTotalsFromCores and computeNodeStatsWrites).                 *)
(*                                                                         *)
(* Three adapters stand for the three ways a core is read.  xray (and      *)
(* sing-box) is cumulative since its start and read without touching it;   *)
(* hysteria (and shadowsocks) is drained by the read; amneziawg is         *)
(* cumulative, and the agent makes the difference itself, in memory.  The  *)
(* panel polls one node at a time and gives up on a slow answer, while the *)
(* agent goes on answering.  One direction of the traffic is counted, and  *)
(* the node's multiplier is 1.                                             *)
(***************************************************************************)
EXTENDS Naturals, FiniteSets, FiniteSetsExt

CONSTANTS
  Users,
  Roster,      \* the users each adapter holds
  Unseen,      \* no snapshot yet
  Ceiling,     \* NODE_STATS_MAX_USER_DELTA_BYTES
  Trouble,     \* how a core's answer may fail
  Races,       \* two answers may be between the dump and the lock of statsOne
  MaxBytes,    \* bound: bytes moved, all adapters and the link-in together
  MaxFaults    \* bound: failed answers, restarts, timeouts, failed commits

Cores == {"xray", "hysteria", "amneziawg"}
Handlers == {"live", "late"}
Held == {p \in Cores \X Users : p[2] \in Roster[p[1]]}

ASSUME UsersAssumption == IsFiniteSet(Users)
ASSUME RosterAssumption == Roster \in [Cores -> SUBSET Users]
ASSUME UnseenAssumption == Unseen \notin Nat
ASSUME BoundsAssumption ==
  /\ Ceiling \in Nat /\ MaxBytes \in Nat /\ MaxFaults \in Nat
  /\ Races \in BOOLEAN
  /\ Trouble \subseteq {"noData", "cleared", "noTotals"}

VARIABLES
  carried,   \* history: what each user moved through each adapter
  relayed,   \* history: what the cascade link-in of xray moved, nobody's
  moved,     \* how many bytes that is together
  ctr,       \* the counters of the cores
  relay,     \* xray's counter of the link-in
  running,   \* the cores that run
  last,      \* lastStats of amneziawg
  poll,      \* the panel's poll: "idle", "asked" or "answered"
  left,      \* the adapters a handler of the agent has still to ask
  dump,      \* what it read of amneziawg and has not accounted yet
  got,       \* the answer so far: what each adapter gave
  val,       \* ... and its users' bytes
  total,     \* ... and its own total
  snap,      \* node_user_traffic_snapshot
  tot,       \* adapterTotalSnapshot, in the panel's memory
  billed,    \* user_traffic, by the adapter the bytes came through
  hist,      \* node_usage_history
  lost,      \* history: bytes dropped for a cause the code accepts
  kept,      \* history: the counters of the adapter were never reset
  faults

network == <<carried, relayed, moved, ctr, relay, running>>
agent == <<last, left, dump>>
answer == <<got, val, total>>
panel == <<snap, tot, billed, hist>>
vars == <<network, agent, poll, answer, panel, lost, kept, faults>>

Zeros == [c \in Cores |-> [u \in Users |-> 0]]
NoTotals == [c \in Cores |-> 0]
NoAnswer == [c \in Cores |-> "none"]
NoDump == [h \in Handlers |-> Unseen]
Fault == faults < MaxFaults /\ faults' = faults + 1
Sum(f) == MapThenSumSet(LAMBDA u : f[u], Users)

Init ==
  /\ carried = Zeros /\ relayed = 0 /\ moved = 0
  /\ ctr = Zeros /\ relay = 0 /\ running = Cores
  /\ last = [u \in Users |-> Unseen]
  /\ poll = "idle" /\ left = [h \in Handlers |-> {}] /\ dump = NoDump
  /\ got = NoAnswer /\ val = Zeros /\ total = NoTotals
  /\ snap = [c \in Cores |-> [u \in Users |-> Unseen]]
  /\ tot = Unseen
  /\ billed = Zeros /\ hist = 0
  /\ lost = Zeros /\ kept = Cores /\ faults = 0

-----------------------------------------------------------------------------
\* Bytes move; cores, the interface and the agent end and come back.

Move(c, u) ==
  /\ <<c, u>> \in Held /\ c \in running
  /\ moved < MaxBytes /\ moved' = moved + 1
  /\ carried' = [carried EXCEPT ![c][u] = @ + 1]
  /\ ctr' = [ctr EXCEPT ![c][u] = @ + 1]
  /\ UNCHANGED <<relayed, relay, running, agent, poll, answer, panel, lost, kept, faults>>

Relay ==
  /\ "xray" \in running
  /\ moved < MaxBytes /\ moved' = moved + 1
  /\ relayed' = relayed + 1
  /\ relay' = relay + 1
  /\ UNCHANGED <<carried, ctr, running, agent, poll, answer, panel, lost, kept, faults>>

\* The process ends, or the interface goes: its counters go with it.
Stop(c) ==
  /\ c \in running
  /\ running' = running \ {c}
  /\ ctr' = [ctr EXCEPT ![c] = Zeros[c]]
  /\ relay' = IF c = "xray" THEN 0 ELSE relay
  /\ lost' = IF c = "hysteria"
               THEN [lost EXCEPT ![c] = [u \in Users |-> @[u] + ctr[c][u]]]
               ELSE lost
  /\ kept' = kept \ {c}
  /\ Fault
  /\ UNCHANGED <<carried, relayed, moved, agent, poll, answer, panel>>

Start(c) ==
  /\ c \notin running
  /\ running' = running \cup {c}
  /\ UNCHANGED <<carried, relayed, moved, ctr, relay, agent, poll, answer, panel, lost,
                 kept, faults>>

-----------------------------------------------------------------------------
\* The agent answers GET /stats.  A handler the panel gave up on goes on; what
\* it reads reaches nobody.

\* What a drained answer that never arrives takes with it.
Dropped ==
  [c \in Cores |-> [u \in Users |->
     lost[c][u] + IF c = "xray" THEN 0 ELSE val[c][u]]]

Gives(h, c, g, v, t) ==
  IF h = "live"
    THEN /\ got' = [got EXCEPT ![c] = g]
         /\ val' = [val EXCEPT ![c] = v]
         /\ total' = [total EXCEPT ![c] = t]
    ELSE UNCHANGED answer

PollEnds ==
  /\ poll' = "idle"
  /\ got' = NoAnswer /\ val' = Zeros /\ total' = NoTotals

Asked(h, c) == c \in left[h] /\ left' = [left EXCEPT ![h] = @ \ {c}]

Nothing == Zeros["xray"]
OfRoster(c, v) == [u \in Users |-> IF u \in Roster[c] THEN v[u] ELSE 0]

\* xray: its rows are tagged cumulative.  A core that does not run answers zero
\* rows without the tag.  When the inbound query fails the total is the sum of
\* the users, without the link-in.
AskXray(h, r) ==
  LET users == OfRoster("xray", ctr["xray"]) IN
  /\ Asked(h, "xray")
  /\ CASE "xray" \notin running ->
            r = "ok" /\ Gives(h, "xray", "rows", Nothing, 0) /\ UNCHANGED faults
       [] "xray" \in running /\ r = "ok" ->
            Gives(h, "xray", "tagged", users, Sum(users) + relay) /\ UNCHANGED faults
       [] "xray" \in running /\ r = "noTotals" ->
            Gives(h, "xray", "tagged", users, Sum(users)) /\ Fault
       [] "xray" \in running /\ r = "noData" ->
            Gives(h, "xray", "noData", Nothing, 0) /\ Fault
       [] OTHER -> FALSE
  /\ UNCHANGED <<network, last, dump, poll, panel, lost, kept>>

\* hysteria: the read clears the counters, whether or not its answer arrives.
Drained(h) ==
  /\ ctr' = [ctr EXCEPT !["hysteria"] = Nothing]
  /\ UNCHANGED <<carried, relayed, moved, relay, running>>
  /\ lost' = IF h = "late"
               THEN [lost EXCEPT !["hysteria"] = [u \in Users |-> @[u] + ctr["hysteria"][u]]]
               ELSE lost

AskHysteria(h, r) ==
  LET users == OfRoster("hysteria", ctr["hysteria"]) IN
  /\ Asked(h, "hysteria")
  /\ CASE "hysteria" \notin running ->
            /\ r = "ok" /\ Gives(h, "hysteria", "rows", Nothing, 0)
            /\ UNCHANGED <<network, lost, faults>>
       [] "hysteria" \in running /\ r = "ok" ->
            /\ Gives(h, "hysteria", "rows", users, Sum(users))
            /\ Drained(h) /\ UNCHANGED faults
       [] "hysteria" \in running /\ r = "noData" ->
            /\ Gives(h, "hysteria", "noData", Nothing, 0)
            /\ UNCHANGED <<network, lost>> /\ Fault
       [] "hysteria" \in running /\ r = "cleared" ->
            /\ Gives(h, "hysteria", "noData", Nothing, 0)
            /\ Drained("late") /\ Fault
       [] OTHER -> FALSE
  /\ UNCHANGED <<last, dump, poll, panel, kept>>

\* amneziawg, statsOne: the dump is read without the lock ...
ReadDump(h) ==
  /\ "amneziawg" \in left[h] /\ "amneziawg" \in running
  /\ dump[h] = Unseen
  /\ Races \/ dump = NoDump
  /\ dump' = [dump EXCEPT ![h] = ctr["amneziawg"]]
  /\ UNCHANGED <<network, last, left, poll, answer, panel, lost, kept, faults>>

\* ... and accounted under it.  A counter below the last one is a bounce.
Gained(now, before) ==
  IF before = Unseen THEN 0 ELSE IF now >= before THEN now - before ELSE now

AccountDump(h) ==
  LET users == OfRoster("amneziawg", [u \in Users |-> Gained(dump[h][u], last[u])]) IN
  /\ dump[h] # Unseen
  /\ Asked(h, "amneziawg")
  /\ Gives(h, "amneziawg", "rows", users, Sum(users))
  /\ last' = dump[h]
  /\ dump' = [dump EXCEPT ![h] = Unseen]
  /\ lost' = [lost EXCEPT !["amneziawg"] =
               [u \in Users |-> @[u] + IF last[u] = Unseen THEN dump[h][u]
                                       ELSE IF h = "late" THEN users[u] ELSE 0]]
  /\ UNCHANGED <<network, poll, panel, kept, faults>>

\* An interface that does not answer is no data.
DumpFails(h) ==
  /\ dump[h] = Unseen
  /\ Asked(h, "amneziawg")
  /\ Gives(h, "amneziawg", "noData", Nothing, 0)
  /\ IF "amneziawg" \in running THEN "noData" \in Trouble /\ Fault ELSE UNCHANGED faults
  /\ UNCHANGED <<network, last, dump, poll, panel, lost, kept>>

\* The agent ends: its memory, its handlers and its child xray go.
AgentRestarts ==
  /\ last' = [u \in Users |-> Unseen]
  /\ left' = [h \in Handlers |-> {}] /\ dump' = NoDump
  /\ PollEnds
  /\ running' = running \ {"xray"}
  /\ ctr' = [ctr EXCEPT !["xray"] = Nothing] /\ relay' = 0
  /\ lost' = Dropped
  /\ kept' = kept \ {"xray", "amneziawg"}
  /\ Fault
  /\ UNCHANGED <<carried, relayed, moved, panel>>

-----------------------------------------------------------------------------
\* The panel.

Poll ==
  /\ poll = "idle"
  /\ poll' = "asked"
  /\ left' = [left EXCEPT !["live"] = Cores]
  /\ UNCHANGED <<network, last, dump, answer, panel, lost, kept, faults>>

Answer ==
  /\ poll = "asked" /\ left["live"] = {}
  /\ poll' = "answered"
  /\ UNCHANGED <<network, agent, answer, panel, lost, kept, faults>>

\* The request is aborted, or the answer is lost; a handler still at work goes
\* on by itself.
LeavesBehind ==
  /\ left["late"] = {}
  /\ left' = [left EXCEPT !["late"] = left["live"], !["live"] = {}]
  /\ dump' = [dump EXCEPT !["late"] = dump["live"], !["live"] = Unseen]
  /\ lost' = Dropped
  /\ PollEnds

GivesUp ==
  /\ poll # "idle"
  /\ LeavesBehind
  /\ Fault
  /\ UNCHANGED <<network, last, panel, kept>>

\* The response-level flag, and whether some row carries its own.
ResCumulative == got["xray"] = "tagged"
Tagged == ResCumulative /\ Roster["xray"] # {}

AsCumulativeByResponse(c) == ResCumulative
AsCumulative(c) == ResCumulative /\ (Tagged => c = "xray")

\* computeUserDeltas: first sight and a drop are a new baseline.
GrownUnchecked(now, before) == IF before = Unseen THEN 0 ELSE now - before
Grown(now, before) ==
  IF before = Unseen THEN 0 ELSE IF now >= before THEN now - before ELSE 0

Delta(c, u) == IF AsCumulative(c) THEN Grown(val[c][u], snap[c][u]) ELSE val[c][u]

Rows(c) == IF got[c] \in {"tagged", "rows"} THEN Roster[c] ELSE {}

\* computeNodeStatsWrites: a delta above the ceiling is not written.
Bills(c, u) == IF u \in Rows(c) /\ Delta(c, u) <= Ceiling THEN Delta(c, u) ELSE 0

NodeTotal ==
  total["hysteria"] + total["amneziawg"]
  + IF ResCumulative THEN Grown(total["xray"], tot) ELSE 0

\* The bytes of a first sight, and those above the ceiling.
Waived(c, u) ==
  IF u \notin Rows(c) THEN 0
  ELSE IF c = "xray" /\ AsCumulative(c) /\ snap[c][u] = Unseen THEN val[c][u]
  ELSE IF Delta(c, u) > Ceiling THEN Delta(c, u) ELSE 0

\* One transaction: the increments and the snapshots; the node totals in
\* memory after it.
SavesFirst ==
  snap' = [c \in Cores |-> [u \in Users |->
             IF u \in Rows(c) /\ AsCumulative(c) /\ snap[c][u] = Unseen
               THEN val[c][u] ELSE snap[c][u]]]
SavesRisen ==
  snap' = [c \in Cores |-> [u \in Users |->
             IF /\ u \in Rows(c) /\ AsCumulative(c)
                /\ snap[c][u] = Unseen \/ val[c][u] >= snap[c][u]
               THEN val[c][u] ELSE snap[c][u]]]
SavesSnapshots ==
  snap' = [c \in Cores |-> [u \in Users |->
             IF u \in Rows(c) /\ AsCumulative(c) THEN val[c][u] ELSE snap[c][u]]]

SavesAnyTotal == tot' = total["xray"]
SavesTotal == tot' = IF ResCumulative THEN total["xray"] ELSE tot

Commit ==
  /\ poll = "answered"
  /\ billed' = [c \in Cores |-> [u \in Users |-> billed[c][u] + Bills(c, u)]]
  /\ SavesSnapshots
  /\ hist' = hist + NodeTotal
  /\ SavesTotal
  /\ lost' = [c \in Cores |-> [u \in Users |-> lost[c][u] + Waived(c, u)]]
  /\ PollEnds
  /\ UNCHANGED <<network, agent, kept, faults>>

CommitFails ==
  /\ poll = "answered"
  /\ lost' = Dropped
  /\ PollEnds
  /\ Fault
  /\ UNCHANGED <<network, agent, panel, kept>>

\* The backend restarts: the poll in hand and the totals in memory are gone.
PanelRestarts ==
  /\ LeavesBehind
  /\ tot' = Unseen
  /\ Fault
  /\ UNCHANGED <<network, last, snap, billed, hist, kept>>

Next ==
  \/ \E c \in Cores, u \in Users : Move(c, u)
  \/ Relay
  \/ \E c \in Cores : Stop(c) \/ Start(c)
  \/ \E h \in Handlers, r \in {"ok"} \cup Trouble : AskXray(h, r) \/ AskHysteria(h, r)
  \/ \E h \in Handlers : ReadDump(h) \/ AccountDump(h) \/ DumpFails(h)
  \/ AgentRestarts
  \/ Poll \/ Answer \/ GivesUp \/ Commit \/ CommitFails \/ PanelRestarts

Spec == Init /\ [][Next]_vars

\* The scheduler fires every 30 seconds, one poll at a time; a handler of the
\* agent asks every adapter, each with its own timeout; a transaction ends.
Fairness ==
  /\ WF_vars(Poll) /\ WF_vars(Answer) /\ WF_vars(Commit)
  /\ \A h \in Handlers :
       /\ WF_vars(\E r \in {"ok"} \cup Trouble : AskXray(h, r))
       /\ WF_vars(\E r \in {"ok"} \cup Trouble : AskHysteria(h, r))
       /\ WF_vars(ReadDump(h) \/ AccountDump(h) \/ DumpFails(h))

FairSpec == Spec /\ Fairness

-----------------------------------------------------------------------------

Bytes == [Cores -> [Users -> Nat]]

\* The types, and the bounds on bytes and faults.
TypeOK ==
  /\ carried \in Bytes /\ relayed \in Nat /\ moved \in 0 .. MaxBytes
  /\ ctr \in Bytes /\ relay \in Nat /\ running \subseteq Cores
  /\ last \in [Users -> Nat \cup {Unseen}]
  /\ poll \in {"idle", "asked", "answered"}
  /\ left \in [Handlers -> SUBSET Cores]
  /\ dump \in [Handlers -> [Users -> Nat] \cup {Unseen}]
  /\ got \in [Cores -> {"none", "tagged", "rows", "noData"}]
  /\ val \in Bytes /\ total \in [Cores -> Nat]
  /\ snap \in [Cores -> [Users -> Nat \cup {Unseen}]] /\ tot \in Nat \cup {Unseen}
  /\ billed \in Bytes /\ hist \in Nat /\ lost \in Bytes /\ kept \subseteq Cores
  /\ faults \in 0 .. MaxFaults

\* No user is billed a byte they did not move, through core and agent restarts,
\* lost and late answers, failed commits and silent cores (computeUserDeltas,
\* statsOne, the drained reads).
NeverOverbilled == \A c \in Cores, u \in Users : billed[c][u] <= carried[c][u]

\* Every byte is billed, still to be read, or lost for a cause the code accepts:
\* the first sight of a counter, the ceiling, a core that stopped, and, of the
\* drained cores only, an answer that never arrived.  A cumulative core loses
\* nothing to a lost answer, a failed commit or a restart of the panel.
EveryByteAccounted ==
  /\ \A u \in Roster["hysteria"] :
       billed["hysteria"][u] + val["hysteria"][u] + ctr["hysteria"][u]
       + lost["hysteria"][u] = carried["hysteria"][u]
  /\ \A u \in Roster["xray"] :
       "xray" \in kept /\ snap["xray"][u] # Unseen =>
         billed["xray"][u] + lost["xray"][u] + (ctr["xray"][u] - snap["xray"][u])
         = carried["xray"][u]
  /\ \A u \in Roster["amneziawg"] :
       "amneziawg" \in kept /\ last[u] # Unseen =>
         billed["amneziawg"][u] + val["amneziawg"][u] + lost["amneziawg"][u]
         + (ctr["amneziawg"][u] - last[u]) = carried["amneziawg"][u]

\* The node's own history counts no byte twice (computeNodeTotalsFromCores).
NodeNotOvercounted ==
  hist <= relayed + Sum(carried["xray"]) + Sum(carried["hysteria"]) + Sum(carried["amneziawg"])

\* What a running core counted reaches the panel: the snapshot of a cumulative
\* core catches up with it, a drained one is read empty.
ReadAgain ==
  /\ \A u \in Roster["xray"] :
       []<>("xray" \notin running \/ snap["xray"][u] = ctr["xray"][u])
  /\ \A u \in Roster["hysteria"] :
       []<>("hysteria" \notin running \/ ctr["hysteria"][u] = 0)

=============================================================================
