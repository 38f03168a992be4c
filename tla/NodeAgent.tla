----------------------------- MODULE NodeAgent -----------------------------
(***************************************************************************)
(* How the node agent puts a push into force (applyPushKept, server.go),   *)
(* what it keeps of it on disk (store.go), and how it comes back from that *)
(* file after a restart (restoreFromStore).                                *)
(*                                                                         *)
(* A push is handed round under pushMu: the node-level blocks, the chain   *)
(* process, the cascade drawing, the cores nothing names, the inbounds,    *)
(* the deletions; then what the cores took is stored, and the ports of     *)
(* what went are closed.  Every call is a step: a core may refuse it, or   *)
(* fail half way, the agent may die before the next one, and the chain     *)
(* process may die at any time.                                            *)
(*                                                                         *)
(* The cores are the two shapes the adapters come in.  xray is a child of  *)
(* the agent, renders everything it holds in memory at every call, and     *)
(* holds several inbounds; hysteria is a systemd unit that outlives the    *)
(* agent, with one inbound.  An inbound is its port, every other block the *)
(* number of its version, and 0 is none.                                   *)
(***************************************************************************)
EXTENDS Naturals, FiniteSets

CONSTANTS
  Pushes,       \* the requests the panel may send
  XrayIds,      \* the inbounds of xray
  NodeBlocks,   \* the node-level blocks: policy, dns
  Reserved,     \* ports closeDroppedPorts never closes: 22, 80, the agent's own
  Failures,     \* what a call to a core may end in, besides "ok"
  MaxFaults     \* bound: refusals, failures, deaths of the chain and crashes

None == 0
NoChain == [legs |-> None, to |-> "nobody", v |-> None]
Down == [up |-> FALSE]
Cores == {"xray", "hysteria"}

\* A push: the blocks, the port of each inbound, the chain block, and the
\* legacy cascade drawing that travels beside it.
PushType == [pol : [NodeBlocks -> Nat], x : [XrayIds -> Nat], h : Nat,
             chain : [legs : Nat, to : Cores \cup {"nobody", "bad"}, v : Nat],
             leg : Nat]
EmptyPush == [pol |-> [b \in NodeBlocks |-> None], x |-> [i \in XrayIds |-> None],
              h |-> None, chain |-> NoChain, leg |-> None]

ASSUME PushesAssumption ==
  \A p \in Pushes : p \in PushType /\ (p.chain # NoChain => p.chain.legs # None)
ASSUME XrayIdsAssumption == "hysteria" \notin XrayIds
ASSUME FailuresAssumption == Failures \subseteq {"refused", "failed"}
ASSUME MaxFaultsAssumption == MaxFaults \in Nat

VARIABLES
  phase,      \* where the push or the restore in hand is, "idle" or "down"
  req,        \* the push in hand
  boot,       \* it is the restore of restoreFromStore
  todo,       \* the calls of this phase still to make
  refused,    \* the inbounds refused so far
  polRefused, \* the blocks xray refused
  chainRefused,
  ucRefused,  \* the chain's userCore was malformed
  handoff,    \* the chain block the cores are drawn to
  xPol, xIb, xLeg, xFromNode,   \* xray's memory
  xRun,       \* what the xray process was started on
  hIb, hHand, hIdled,           \* hysteria's memory
  hRun,       \* what the hysteria unit was started on
  accepted,   \* the block the chain manager last put into force
  held,       \* a chain block was pushed and not withdrawn
  proc,       \* the block the chain process runs, NoChain when it is down
  store,      \* inbounds.json
  before,     \* the ports of the store persistAccepted replaced
  wall,       \* inbound ports open in the firewall
  links,      \* the block whose link ports are open
  behind,     \* history: the cores (and the chain) that ended a call in an
              \* error the store knows nothing of, since the agent started
  faults,     \* how many of them there were
  leaky       \* history: a push ended between opening ports and closing them

outcome == <<refused, polRefused, chainRefused, ucRefused, handoff>>
xray == <<xPol, xIb, xLeg, xFromNode, xRun>>
hysteria == <<hIb, hHand, hIdled, hRun>>
chain == <<accepted, held, proc>>
fire == <<wall, links>>
disk == <<store, before>>
told == <<behind, faults, leaky>>
vars == <<phase, req, boot, todo, outcome, xray, hysteria, chain, disk, fire, told>>

-----------------------------------------------------------------------------

XIbNone == [i \in XrayIds |-> None]

\* regenerateAndRestart: with no inbound and no leg nothing runs.
XServes(pol, ib, leg) ==
  IF ib = XIbNone /\ leg = None
    THEN Down
    ELSE [up |-> TRUE, pol |-> pol, ib |-> ib, leg |-> leg]

\* What runs after a render that ended in r: the new config; the old one
\* (xray -test refused it, nothing was touched); or, when the config could
\* not be written or the process not started, the old one or nothing.
XRenders(pol, ib, leg, r) ==
  CASE r = "ok"      -> xRun' = XServes(pol, ib, leg)
    [] r = "refused" -> xRun' = xRun
    [] r = "failed"  -> xRun' \in {xRun, Down}

HRenders(ib, hand, r) ==
  CASE r = "ok"      -> hRun' = [up |-> TRUE, ib |-> ib, hand |-> hand]
    [] r = "refused" -> hRun' = hRun
    [] r = "failed"  -> hRun' \in {hRun, Down}

Results == {"ok"} \cup Failures

Spends == faults < MaxFaults /\ faults' = faults + 1
Costs(r) == IF r = "ok" THEN faults' = faults ELSE Spends

\* An error the agent only logs, or one that leaves a core's memory ahead of
\* its process: the store does not know of it.
Unsaid(c, r) ==
  /\ behind' = IF r = "ok" THEN behind ELSE behind \cup {c}
  /\ Costs(r)
\* An error the agent reports: the store keeps what a refusing core kept.
Said(c, r) ==
  /\ behind' = IF r = "failed" \/ (boot /\ r # "ok") THEN behind \cup {c} ELSE behind
  /\ Costs(r)

Init ==
  /\ phase = "idle"
  /\ req = EmptyPush /\ boot = FALSE /\ todo = {}
  /\ refused = {} /\ polRefused = {} /\ chainRefused = FALSE /\ ucRefused = FALSE
  /\ handoff = NoChain
  /\ xPol = EmptyPush.pol /\ xIb = XIbNone /\ xLeg = None /\ xFromNode = FALSE
  /\ xRun = Down
  /\ hIb = None /\ hHand = None /\ hIdled = FALSE /\ hRun = Down
  /\ accepted = NoChain /\ held = FALSE /\ proc = NoChain
  /\ store = EmptyPush /\ before = {}
  /\ wall = {} /\ links = NoChain
  /\ behind = {} /\ faults = 0 /\ leaky = FALSE

-----------------------------------------------------------------------------
\* Begin: a push from the panel, or the stored one on the way up.

Begins(p, restoring) ==
  /\ phase' = "blocks"
  /\ req' = p /\ boot' = restoring
  /\ todo' = NodeBlocks
  /\ refused' = {} /\ polRefused' = {} /\ chainRefused' = FALSE /\ ucRefused' = FALSE
  /\ handoff' = NoChain

\* The handler returns: nothing of the push is left but what it did.
Ends ==
  /\ req' = EmptyPush /\ boot' = FALSE /\ todo' = {}
  /\ refused' = {} /\ polRefused' = {} /\ chainRefused' = FALSE /\ ucRefused' = FALSE
  /\ handoff' = NoChain
  /\ before' = {}

Receive(p) ==
  /\ phase = "idle"
  /\ Begins(p, FALSE)
  /\ UNCHANGED <<xray, hysteria, chain, disk, fire, told>>

\* ApplyPolicy and ApplyDns of xray, the one core that renders them.
ApplyBlock(b, r) ==
  LET pol == [xPol EXCEPT ![b] = req.pol[b]] IN
  /\ phase = "blocks"
  /\ b \in todo
  /\ todo' = todo \ {b}
  /\ IF xPol[b] = req.pol[b]
       THEN r = "ok" /\ UNCHANGED <<xPol, xRun>>
       ELSE /\ XRenders(pol, xIb, xLeg, r)
            /\ xPol' = IF r = "refused" THEN xPol ELSE pol
  /\ polRefused' = IF r = "ok" THEN polRefused ELSE polRefused \cup {b}
  /\ Said("xray", r)
  /\ UNCHANGED <<phase, req, boot, refused, chainRefused, ucRefused, handoff,
                 xIb, xLeg, xFromNode, hysteria, chain, disk, fire, leaky>>

-----------------------------------------------------------------------------
\* The chain process (chain.Manager.Apply).

InChain == phase = "blocks" /\ todo = {}

\* unchanged: the same block, and its process running.
Unchanged == accepted = req.chain /\ proc # NoChain

ChainStops ==
  /\ InChain
  /\ req.chain = NoChain
  /\ accepted' = NoChain /\ held' = FALSE /\ proc' = NoChain
  /\ phase' = "handoff"
  /\ UNCHANGED <<req, boot, todo, outcome, xray, hysteria, disk, fire, told>>

ChainKeeps ==
  /\ InChain
  /\ req.chain # NoChain /\ Unchanged
  /\ phase' = "handoff"
  /\ UNCHANGED <<req, boot, todo, outcome, xray, hysteria, chain, disk, fire, told>>

ChainRefuses ==
  /\ InChain
  /\ "refused" \in Failures
  /\ req.chain # NoChain /\ ~ Unchanged
  /\ held' = TRUE
  /\ chainRefused' = TRUE
  /\ phase' = "handoff"
  /\ behind' = IF boot THEN behind \cup {"chain"} ELSE behind
  /\ Spends
  /\ UNCHANGED <<req, boot, todo, refused, polRefused, ucRefused, handoff, xray,
                 hysteria, accepted, proc, disk, fire, leaky>>

\* The block is recorded, then the old process stopped, before the new one
\* has tunnels or a process.
ChainAccepts ==
  /\ InChain
  /\ req.chain # NoChain /\ ~ Unchanged
  /\ accepted' = req.chain /\ held' = TRUE /\ proc' = NoChain
  /\ phase' = "tunnels"
  /\ UNCHANGED <<req, boot, todo, outcome, xray, hysteria, disk, fire, told>>

ChainStarts ==
  /\ phase = "tunnels"
  /\ proc' = accepted
  /\ phase' = "handoff"
  /\ UNCHANGED <<req, boot, todo, outcome, xray, hysteria, accepted, held, disk,
                 fire, told>>

ChainStartFails ==
  /\ phase = "tunnels"
  /\ "failed" \in Failures
  /\ chainRefused' = TRUE
  /\ phase' = "handoff"
  /\ Spends
  /\ UNCHANGED <<req, boot, todo, refused, polRefused, ucRefused, handoff, xray,
                 hysteria, chain, disk, fire, behind, leaky>>

\* The chain process dies and is out of its restart budget.
ChainDies ==
  /\ proc # NoChain
  /\ proc' = NoChain
  /\ Spends
  /\ UNCHANGED <<phase, req, boot, todo, outcome, xray, hysteria, accepted, held,
                 disk, fire, behind, leaky>>

-----------------------------------------------------------------------------
\* Who draws the cascade.

HandoffPushed == req.chain
Handoff == IF chainRefused /\ accepted # NoChain THEN accepted ELSE req.chain

Settle ==
  LET bad == held /\ Handoff.to = "bad" IN
  /\ phase = "handoff"
  /\ handoff' = Handoff
  /\ links' = Handoff
  /\ ucRefused' = bad
  /\ todo' = IF bad THEN {} ELSE Cores
  /\ phase' = "cascade"
  /\ UNCHANGED <<req, boot, refused, polRefused, chainRefused, xray, hysteria,
                 chain, disk, wall, told>>

\* What a core is handed: the chain's drawing for it, or the legacy one.
Drawing(c) ==
  IF held
    THEN IF handoff.to = c THEN handoff.v ELSE None
    ELSE IF c = "xray" THEN req.leg ELSE None

\* xray's ApplyCascade, SetChainHolds before it.  Nil clears the legs only
\* while the chain holds the cascade.
XCascade(r) ==
  LET mine == Drawing("xray")
      stays == IF mine = None THEN ~ held \/ xLeg = None ELSE xLeg = mine
  IN
  /\ phase = "cascade"
  /\ "xray" \in todo
  /\ todo' = todo \ {"xray"}
  /\ xFromNode' = (mine # None \/ held)
  /\ IF stays
       THEN r = "ok" /\ UNCHANGED <<xLeg, xRun>>
       ELSE /\ XRenders(xPol, xIb, mine, r)
            /\ xLeg' = IF r = "refused" THEN xLeg ELSE mine
  /\ Unsaid("xray", r)
  /\ UNCHANGED <<phase, req, boot, outcome, xPol, xIb, hysteria, chain, disk,
                 fire, leaky>>

\* hysteria's ApplyCascade: remembered until there is an inbound to draw.
HCascade(r) ==
  LET mine == Drawing("hysteria") IN
  /\ phase = "cascade"
  /\ "hysteria" \in todo
  /\ todo' = todo \ {"hysteria"}
  /\ IF hHand = mine \/ hIb = None
       THEN r = "ok" /\ hHand' = mine /\ UNCHANGED hRun
       ELSE /\ HRenders(hIb, mine, r)
            /\ hHand' = IF r = "refused" THEN hHand ELSE mine
  /\ Unsaid("hysteria", r)
  /\ UNCHANGED <<phase, req, boot, outcome, xray, hIb, hIdled, chain, disk, fire,
                 leaky>>

-----------------------------------------------------------------------------
\* The cores nothing names stop, unless the push was refused in part.

Named(c) == \/ Drawing(c) # None
            \/ IF c = "xray" THEN req.x # XIbNone ELSE req.h # None

IdleUnnamed ==
  /\ phase = "cascade" /\ todo = {}
  /\ todo' = IF chainRefused \/ ucRefused THEN {} ELSE {c \in Cores : ~ Named(c)}
  /\ phase' = "unnamed"
  /\ UNCHANGED <<req, boot, outcome, xray, hysteria, chain, disk, fire, told>>

\* xray's Idle renders what memory holds; a no-op when nothing runs.
XIdles(r) ==
  /\ phase = "unnamed"
  /\ "xray" \in todo
  /\ todo' = todo \ {"xray"}
  /\ IF xRun = Down
       THEN r = "ok" /\ UNCHANGED xRun
       ELSE XRenders(xPol, xIb, xLeg, r)
  /\ Unsaid("xray", r)
  /\ UNCHANGED <<phase, req, boot, outcome, xPol, xIb, xLeg, xFromNode, hysteria,
                 chain, disk, fire, leaky>>

\* hysteria's Idle forgets the inbound, then stops the unit.
HIdles(r) ==
  /\ phase = "unnamed"
  /\ "hysteria" \in todo
  /\ todo' = todo \ {"hysteria"}
  /\ IF hIb = None /\ hIdled
       THEN r = "ok" /\ UNCHANGED <<hIb, hIdled, hRun>>
       ELSE /\ r # "refused"
            /\ hIb' = None /\ hIdled' = TRUE
            /\ hRun' = IF r = "ok" THEN Down ELSE hRun
  /\ Unsaid("hysteria", r)
  /\ UNCHANGED <<phase, req, boot, outcome, xray, hHand, chain, disk, fire,
                 leaky>>

-----------------------------------------------------------------------------
\* The inbounds, and the deletions.

Inbounds == {i \in XrayIds : req.x[i] # None}
            \cup IF req.h # None THEN {"hysteria"} ELSE {}

InboundsBegin ==
  /\ phase = "unnamed" /\ todo = {}
  /\ todo' = Inbounds
  /\ phase' = "inbounds"
  /\ UNCHANGED <<req, boot, outcome, xray, hysteria, chain, disk, fire, told>>

\* An inbound that does not apply is a refused one, by its own id.
RefusesCore(i, r) == refused' = IF r = "ok" THEN refused ELSE refused \cup Cores
Refuses(i, r) == refused' = IF r = "ok" THEN refused ELSE refused \cup {i}

\* xray's ApplyInbound: nothing to do when memory already holds it; what the
\* core refused leaves memory, what it failed to start on stays there.
XApplies(i, r) ==
  LET ib == [xIb EXCEPT ![i] = req.x[i]]
      leg == IF xFromNode THEN xLeg ELSE None
  IN
  /\ phase = "inbounds"
  /\ i \in todo \cap XrayIds
  /\ todo' = todo \ {i}
  /\ IF xIb = ib /\ xLeg = leg
       THEN r = "ok" /\ UNCHANGED <<xIb, xLeg, xRun>>
       ELSE /\ XRenders(xPol, ib, leg, r)
            /\ xIb' = IF r = "refused" THEN xIb ELSE ib
            /\ xLeg' = IF r = "refused" THEN xLeg ELSE leg
  /\ Refuses(i, r)
  /\ wall' = IF r = "ok" THEN wall \cup {req.x[i]} ELSE wall
  /\ Said("xray", r)
  /\ UNCHANGED <<phase, req, boot, polRefused, chainRefused, ucRefused, handoff,
                 xPol, xFromNode, hysteria, chain, disk, links, leaky>>

HApplies(r) ==
  /\ phase = "inbounds"
  /\ "hysteria" \in todo
  /\ todo' = todo \ {"hysteria"}
  /\ IF hIb = req.h
       THEN r = "ok" /\ UNCHANGED <<hIb, hIdled, hRun>>
       ELSE /\ HRenders(req.h, hHand, r)
            /\ hIb' = IF r = "refused" THEN hIb ELSE req.h
            /\ hIdled' = IF r = "refused" THEN hIdled ELSE FALSE
  /\ Refuses("hysteria", r)
  /\ wall' = IF r = "ok" THEN wall \cup {req.h} ELSE wall
  /\ Said("hysteria", r)
  /\ UNCHANGED <<phase, req, boot, polRefused, chainRefused, ucRefused, handoff,
                 xray, hHand, chain, disk, links, leaky>>

\* xray's RetainInbounds: what the push does not carry leaves memory, and
\* stays out of it whatever the render says.
XRetainsNothing(r) ==
  /\ phase = "inbounds" /\ todo = {}
  /\ r = "ok"
  /\ phase' = "persist"
  /\ UNCHANGED <<req, boot, todo, outcome, xray, hysteria, chain, disk, fire, told>>

XRetains(r) ==
  LET ib == [i \in XrayIds |-> IF req.x[i] = None THEN None ELSE xIb[i]] IN
  /\ phase = "inbounds" /\ todo = {}
  /\ xIb' = ib
  /\ IF xIb = ib
       THEN r = "ok" /\ UNCHANGED xRun
       ELSE XRenders(xPol, ib, xLeg, r)
  /\ Unsaid("xray", r)
  /\ phase' = "persist"
  /\ UNCHANGED <<req, boot, todo, outcome, xPol, xLeg, xFromNode, hysteria, chain,
                 disk, fire, leaky>>

-----------------------------------------------------------------------------
\* What the cores took goes to disk, and the ports of what went are closed.

PortsOf(p) == ({p.x[i] : i \in XrayIds} \cup {p.h}) \ {None}

AcceptedChainPushed == req.chain
AcceptedChain ==
  IF chainRefused
    THEN handoff
    ELSE IF ucRefused /\ req.chain # NoChain
           THEN [legs |-> req.chain.legs, to |-> store.chain.to, v |-> store.chain.v]
           ELSE req.chain

AcceptedWhole == req
AcceptedPush ==
  [pol   |-> [b \in NodeBlocks |->
                IF b \in polRefused THEN store.pol[b] ELSE req.pol[b]],
   x     |-> [i \in XrayIds |-> IF i \in refused THEN store.x[i] ELSE req.x[i]],
   h     |-> IF "hysteria" \in refused THEN store.h ELSE req.h,
   chain |-> AcceptedChain,
   leg   |-> req.leg]

PersistAccepted ==
  /\ phase = "persist" /\ ~ boot
  /\ before' = PortsOf(store)
  /\ store' = AcceptedPush
  /\ phase' = "close"
  /\ UNCHANGED <<req, boot, todo, outcome, xray, hysteria, chain, fire, told>>

\* PERSIST_FAILED: the panel is told, no port is closed.
PersistFails ==
  /\ phase = "persist" /\ ~ boot
  /\ "failed" \in Failures
  /\ phase' = "idle"
  /\ Ends
  /\ behind' = Cores \cup {"chain"}
  /\ leaky' = TRUE
  /\ Spends
  /\ UNCHANGED <<xray, hysteria, chain, store, fire>>

\* The push answers ok when nothing that counts failed.
Whole == refused = {} /\ polRefused = {} /\ ~ chainRefused /\ ~ ucRefused

CloseBySent ==
  /\ phase = "close"
  /\ wall' = wall \ ((before \ PortsOf(req)) \ Reserved)
  /\ phase' = "idle"
  /\ Ends
  /\ UNCHANGED <<xray, hysteria, chain, store, links, told>>

CloseNothing ==
  /\ phase = "close"
  /\ phase' = "idle"
  /\ Ends
  /\ UNCHANGED <<xray, hysteria, chain, store, fire, told>>

CloseDroppedPorts ==
  /\ phase = "close"
  /\ wall' = wall \ ((before \ PortsOf(store)) \ Reserved)
  /\ phase' = "idle"
  /\ Ends
  /\ UNCHANGED <<xray, hysteria, chain, store, links, told>>

-----------------------------------------------------------------------------
\* The agent ends, or is killed, and comes back.

Crash ==
  /\ phase # "down"
  /\ phase' = "down"
  /\ Ends
  /\ xPol' = EmptyPush.pol /\ xIb' = XIbNone /\ xLeg' = None /\ xFromNode' = FALSE
  /\ xRun' = Down
  /\ hIb' = None /\ hHand' = None /\ hIdled' = FALSE
  /\ accepted' = NoChain /\ held' = FALSE /\ proc' = NoChain
  /\ leaky' = (leaky \/ phase # "idle")
  /\ Spends
  /\ UNCHANGED <<hRun, store, fire, behind>>

\* ensureFirewallFromStore, then restoreFromStore: nothing is restored from a
\* store that has no inbound.
Boot ==
  /\ phase = "down"
  /\ wall' = wall \cup PortsOf(store)
  /\ links' = store.chain
  /\ IF PortsOf(store) # {}
       THEN Begins(store, TRUE) /\ behind' = {}
       ELSE /\ phase' = "idle"
            /\ behind' = IF store = EmptyPush THEN {} ELSE Cores \cup {"chain"}
            /\ UNCHANGED <<req, boot, todo, outcome>>
  /\ UNCHANGED <<xray, hysteria, chain, disk, faults, leaky>>

RestoreEnds ==
  /\ phase = "persist" /\ boot
  /\ phase' = "idle"
  /\ Ends
  /\ UNCHANGED <<xray, hysteria, chain, store, fire, told>>

Next ==
  \/ \E p \in Pushes : Receive(p)
  \/ \E b \in NodeBlocks, r \in Results : ApplyBlock(b, r)
  \/ ChainStops \/ ChainKeeps \/ ChainRefuses \/ ChainAccepts
  \/ ChainStarts \/ ChainStartFails \/ ChainDies
  \/ Settle
  \/ \E r \in Results : XCascade(r) \/ HCascade(r)
  \/ IdleUnnamed
  \/ \E r \in Results : XIdles(r) \/ HIdles(r)
  \/ InboundsBegin
  \/ \E r \in Results : HApplies(r) \/ XRetains(r)
  \/ \E i \in XrayIds, r \in Results : XApplies(i, r)
  \/ PersistAccepted \/ PersistFails \/ CloseDroppedPorts
  \/ Crash \/ Boot \/ RestoreEnds

Spec == Init /\ [][Next]_vars

-----------------------------------------------------------------------------

Idle == phase = "idle"
Hand(c) == IF c = "xray" THEN xLeg ELSE hHand

RunType == {Down} \cup [up : {TRUE}, pol : [NodeBlocks -> Nat],
                        ib : [XrayIds -> Nat], leg : Nat]
HRunType == {Down} \cup [up : {TRUE}, ib : Nat, hand : Nat]
BlockType == [legs : Nat, to : Cores \cup {"nobody", "bad"}, v : Nat]
Phases == {"idle", "down", "blocks", "tunnels", "handoff", "cascade", "unnamed",
           "inbounds", "persist", "close"}

\* The types, and the bound on faults.
TypeOK ==
  /\ phase \in Phases
  /\ req \in PushType /\ store \in PushType
  /\ boot \in BOOLEAN /\ chainRefused \in BOOLEAN /\ ucRefused \in BOOLEAN
  /\ todo \subseteq NodeBlocks \cup Cores \cup XrayIds
  /\ refused \subseteq XrayIds \cup {"hysteria"} /\ polRefused \subseteq NodeBlocks
  /\ handoff \in BlockType /\ accepted \in BlockType /\ proc \in BlockType
  /\ links \in BlockType
  /\ held \in BOOLEAN
  /\ xPol \in [NodeBlocks -> Nat] /\ xIb \in [XrayIds -> Nat] /\ xLeg \in Nat
  /\ xFromNode \in BOOLEAN /\ xRun \in RunType
  /\ hIb \in Nat /\ hHand \in Nat /\ hIdled \in BOOLEAN /\ hRun \in HRunType
  /\ before \subseteq Nat /\ wall \subseteq Nat
  /\ behind \subseteq Cores \cup {"chain"}
  /\ faults \in 0 .. MaxFaults /\ leaky \in BOOLEAN

\* What a restart would bring up is what the cores run: an inbound of the
\* store is served as it is stored, by a process started on the stored policy
\* (acceptedPush, store.go).
StoredIsServed ==
  Idle =>
    /\ "xray" \notin behind =>
         \A i \in XrayIds : store.x[i] # None =>
           xRun.up /\ xRun.ib[i] = store.x[i] /\ xRun.pol = store.pol
    /\ "hysteria" \notin behind /\ store.h # None =>
         hRun.up /\ hRun.ib = store.h

\* The cores are drawn to the block the chain was last put on, never to one
\* it refused, and the link ports that are open are that block's (the
\* hand-off in applyPushKept, ensureChainFirewall).
HandOffFollowsChain ==
  Idle /\ held /\ accepted # NoChain =>
    /\ links = accepted
    /\ \A c \in Cores \ behind :
         accepted.to # "bad" => Hand(c) = IF accepted.to = c THEN accepted.v ELSE None

\* The stored chain is the one in force, with the hand-off the cores draw, so
\* a restart puts the same two together (acceptedPush, the chain cases).  A
\* userCore no core could read says nothing about what they draw.
StoredPair ==
  Idle /\ "chain" \notin behind =>
    /\ held = (store.chain # NoChain)
    /\ accepted # NoChain => store.chain.legs = accepted.legs
    /\ \A c \in Cores \ behind : held /\ store.chain.to = c => Hand(c) = store.chain.v

\* Every port of the store is open, at every moment: what a restart brings
\* up, and what a refused push left running, stays reachable (closeDroppedPorts,
\* ensureFirewallFromStore).
StoredIsOpen == PortsOf(store) \subseteq wall

\* No rule outlives its inbound, unless the agent died or could not write its
\* store between opening and closing (closeDroppedPorts).
NoStaleRule == Idle /\ ~ leaky => wall \subseteq PortsOf(store) \cup Reserved

\* The core runs the push and nothing else: its inbounds and blocks, with the
\* drawing it gives the core.  An xray it does not name may be left with the
\* legs of a legacy cascade, which a push without one does not clear.
Serves(c) ==
  IF c = "xray"
    THEN /\ req.x # XIbNone => xRun.up
         /\ xRun.up => /\ xRun.ib = req.x
                       /\ xRun.pol = req.pol
                       /\ Named("xray") => xRun.leg = Drawing("xray")
    ELSE /\ hRun.up <=> req.h # None
         /\ hRun.up => hRun.ib = req.h /\ hRun.hand = Drawing("hysteria")

\* The push carries no inbound for hysteria, but its chain hands off to it: the
\* core is named, so it is not idled, and it has no RetainInbounds. It goes on
\* with the inbound it holds, drawn to the new hand-off; a unit that outlived the
\* agent it was started by goes on as it was.
KeptByHandOff ==
  /\ req.h = None /\ Drawing("hysteria") # None
  /\ hIb # None => hRun = [up |-> TRUE, ib |-> hIb, hand |-> Drawing("hysteria")]

\* A push answered ok is what each core runs, with two exceptions (applyPushKept):
\* a core one of whose calls ended in an error the agent only logs, and a
\* hysteria that keeps an inbound this push no longer carries because the
\* chain's hand-off still names it.
AnsweredIsServed ==
  phase = "close" /\ Whole =>
    \A c \in Cores \ behind : Serves(c) \/ (c = "hysteria" /\ KeptByHandOff)

\* The same with no exception: what the panel records when it hears ok. The
\* code does not give it.
OkIsServed == phase = "close" /\ Whole => \A c \in Cores : Serves(c)

\* No core serves an inbound the push does not carry.
DeletedIsGone ==
  phase = "close" /\ Whole =>
    /\ xRun.up => \A i \in XrayIds : req.x[i] = None => xRun.ib[i] = None
    /\ hRun.up => req.h # None

\* A core the push stops naming has left its ports before the named inbounds
\* take them.
PortsFreed ==
  phase = "inbounds" /\ ~ chainRefused /\ ~ ucRefused =>
    /\ ~ Named("xray") /\ xRun.up => \A i \in XrayIds : xRun.ib[i] # None => xRun.ib[i] # req.h
    /\ ~ Named("hysteria") /\ hRun.up => \A i \in XrayIds : hRun.ib # req.x[i]

=============================================================================
