-------------------------- MODULE NodeAgentProofs --------------------------
(***************************************************************************)
(* Proofs about NodeAgent, for every set of pushes and inbounds and any    *)
(* number of faults.                                                       *)
(***************************************************************************)
EXTENDS NodeAgent, TLAPS

Early == {"blocks", "tunnels", "handoff", "cascade", "unnamed"}
Settled == {"cascade", "unnamed", "inbounds", "persist", "close"}

\* ---- the firewall ----

\* An inbound of the push that a core took.
XTaken(i) == req.x[i] # None /\ i \notin todo /\ i \notin refused
HTaken == req.h # None /\ "hysteria" \notin todo /\ "hysteria" \notin refused
TakenPorts == {req.x[i] : i \in {j \in XrayIds : XTaken(j)}}
              \cup (IF HTaken THEN {req.h} ELSE {})

\* A restore repeats the store.
RestoresStore == boot => phase \notin {"idle", "down", "close"} /\ req = store

TakenIsOpen == phase \in {"inbounds", "persist"} => TakenPorts \subseteq wall

WallIsStored ==
  ~ leaky =>
    /\ phase \in {"idle", "down"} \cup Early => wall \subseteq PortsOf(store) \cup Reserved
    /\ phase \in {"inbounds", "persist"} =>
         wall \subseteq PortsOf(store) \cup Reserved \cup TakenPorts
    /\ phase = "close" => wall \subseteq PortsOf(store) \cup Reserved \cup before

PersistIsDone == phase \in {"persist", "close", "idle", "down"} => todo = {}

Unrefused ==
  /\ phase \in Early => refused = {}
  /\ phase = "unnamed" /\ "hysteria" \in todo => req.h = None

\* The inbounds still to apply are the push's, and none was refused yet.
TodoIsAsked ==
  phase = "inbounds" =>
    /\ \A i \in XrayIds \cap todo : req.x[i] # None /\ i \notin refused
    /\ "hysteria" \in todo => req.h # None /\ "hysteria" \notin refused

WallInv ==
  /\ TodoIsAsked /\ Unrefused /\ RestoresStore /\ PersistIsDone
  /\ TakenIsOpen /\ WallIsStored /\ StoredIsOpen

\* ---- the cores ----

RunsMemory ==
  /\ "xray" \notin behind => xRun = XServes(xPol, xIb, xLeg)
  /\ "hysteria" \notin behind /\ hIb # None =>
       hRun = [up |-> TRUE, ib |-> hIb, hand |-> hHand]

XKept(i) == store.x[i] # None => xIb[i] = store.x[i]
HKept == store.h # None => hIb = store.h

XInbounds ==
  "xray" \notin behind =>
    /\ phase \in {"idle", "close"} \/ (phase \in Early /\ ~ boot) =>
         \A i \in XrayIds : XKept(i)
    /\ phase \in {"inbounds", "persist"} =>
         \A i \in XrayIds :
           /\ XTaken(i) => xIb[i] = req.x[i]
           /\ i \in todo /\ ~ boot => XKept(i)
           /\ i \in refused => ~ boot /\ req.x[i] # None /\ XKept(i)

HInbounds ==
  "hysteria" \notin behind =>
    /\ phase \in {"idle", "close"} => HKept
    /\ phase \in Early /\ ~ boot /\ (phase # "unnamed" \/ req.h # None) => HKept
    /\ phase \in {"inbounds", "persist"} =>
         /\ HTaken => hIb = req.h
         /\ "hysteria" \in todo /\ ~ boot => HKept
         /\ "hysteria" \in refused => ~ boot /\ HKept

EmptyWhenDown ==
  phase = "down" =>
    /\ xPol = EmptyPush.pol /\ xIb = XIbNone /\ xLeg = None /\ xRun = Down
    /\ hIb = None

Policies ==
  "xray" \notin behind =>
    /\ phase \in {"idle", "close"} => xPol = store.pol
    /\ phase \notin {"idle", "close", "down"} =>
         \A b \in NodeBlocks :
           IF phase = "blocks" /\ b \in todo
             THEN b \notin polRefused /\ (~ boot => xPol[b] = store.pol[b])
             ELSE IF b \in polRefused
                    THEN ~ boot /\ xPol[b] = store.pol[b]
                    ELSE xPol[b] = req.pol[b]

CoresInv ==
  RunsMemory /\ XInbounds /\ HInbounds /\ EmptyWhenDown /\ Policies

\* ---- the chain ----

HandoffIsForce ==
  /\ accepted # NoChain => held
  /\ phase = "down" => ~ held
  /\ phase = "handoff" /\ held /\ ~ chainRefused => accepted = req.chain
  /\ phase \in {"handoff", "tunnels"} /\ ~ held => req.chain = NoChain
  /\ phase = "tunnels" => held /\ ~ chainRefused /\ accepted = req.chain
  /\ phase = "blocks" => ~ chainRefused
  /\ phase \in Settled =>
       /\ links = handoff
       /\ held /\ accepted # NoChain => handoff = accepted
       /\ ucRefused = (held /\ handoff.to = "bad")
       /\ ucRefused /\ phase = "cascade" => todo = {}

Drawn ==
  /\ phase \in Settled /\ held /\ ~ ucRefused =>
       \A c \in Cores \ behind :
         ~ (phase = "cascade" /\ c \in todo) =>
            /\ Hand(c) = Drawing(c)
            /\ c = "xray" => xFromNode
  /\ phase = "idle" => HandOffFollowsChain

ChainInv == HandoffIsForce /\ Drawn

\* ---- the stored pair ----

HasLegs(block) == block # NoChain => block.legs # None
Blocks == HasLegs(req.chain) /\ HasLegs(store.chain) /\ HasLegs(accepted)

\* The block in force is the pushed one, unless it was refused.
InForce ==
  /\ phase = "tunnels" => req.chain # NoChain
  /\ phase \in {"handoff"} \cup (Settled \ {"close"}) =>
       /\ ~ chainRefused => accepted = req.chain /\ held = (req.chain # NoChain)
       /\ chainRefused => held /\ req.chain # NoChain
       /\ boot /\ "chain" \notin behind => accepted = req.chain
  /\ phase \in Settled \ {"close"} => handoff = Handoff

LegsStored ==
  "chain" \notin behind /\ phase \in {"idle", "close"} =>
    /\ held = (store.chain # NoChain)
    /\ accepted # NoChain => store.chain.legs = accepted.legs

\* Until the push has a drawing of its own for it, and all along when its
\* userCore is malformed, a core keeps the stored one.
PairKept ==
  /\ ~ boot /\ "chain" \notin behind
  /\ \/ phase \in {"idle", "close", "blocks", "tunnels", "handoff"}
     \/ phase \in Settled /\ ucRefused
  => \A c \in Cores \ behind :
       store.chain.to = c => /\ Hand(c) = store.chain.v
                             /\ c = "xray" => xFromNode

PairInv == Blocks /\ InForce /\ LegsStored /\ PairKept

IInv == TypeOK /\ WallInv /\ CoresInv /\ ChainInv /\ PairInv

\* ---- proofs ----

LEMMA XServesType ==
  ASSUME NEW pol \in [NodeBlocks -> Nat], NEW ib \in [XrayIds -> Nat], NEW leg \in Nat
  PROVE  XServes(pol, ib, leg) \in RunType
  BY DEF XServes, RunType, Down

LEMMA EmptyPushType == EmptyPush \in PushType
  BY DEF EmptyPush, PushType, NoChain, None, Cores

LEMMA XRendersType ==
  ASSUME xRun \in RunType,
         NEW pol \in [NodeBlocks -> Nat], NEW ib \in [XrayIds -> Nat], NEW leg \in Nat,
         NEW r \in Results, XRenders(pol, ib, leg, r)
  PROVE  xRun' \in RunType
<1>1. XServes(pol, ib, leg) \in RunType /\ Down \in RunType
  BY XServesType DEF RunType
<1>2. r \in {"ok", "refused", "failed"}
  BY FailuresAssumption DEF Results
<1>3. QED
  BY <1>1, <1>2 DEF XRenders

LEMMA HRendersType ==
  ASSUME hRun \in HRunType, NEW ib \in Nat, NEW hand \in Nat,
         NEW r \in Results, HRenders(ib, hand, r)
  PROVE  hRun' \in HRunType
<1>1. [up |-> TRUE, ib |-> ib, hand |-> hand] \in HRunType /\ Down \in HRunType
  BY DEF HRunType
<1>2. r \in {"ok", "refused", "failed"}
  BY FailuresAssumption DEF Results
<1>3. QED
  BY <1>1, <1>2 DEF HRenders

\* The two history variables keep their types.
HistoryType == behind \subseteq Cores \cup {"chain"} /\ faults \in 0 .. MaxFaults

LEMMA SpendsType ==
  ASSUME HistoryType, Spends PROVE faults' \in 0 .. MaxFaults
  BY MaxFaultsAssumption DEF HistoryType, Spends

LEMMA SaidType ==
  ASSUME HistoryType, NEW c \in Cores, NEW r \in Results, Said(c, r) \/ Unsaid(c, r)
  PROVE  HistoryType'
<1>1. behind' \subseteq Cores \cup {"chain"}
  BY DEF HistoryType, Said, Unsaid
<1>2. faults' \in 0 .. MaxFaults
  BY SpendsType DEF HistoryType, Said, Unsaid, Costs
<1>3. QED
  BY <1>1, <1>2 DEF HistoryType

\* The types are kept by every step.
LEMMA TypeStep == TypeOK /\ [Next]_vars => TypeOK'
<1> SUFFICES ASSUME TypeOK, [Next]_vars PROVE TypeOK'
  OBVIOUS
<1>h. HistoryType
  BY DEF TypeOK, HistoryType
<1>r. /\ req.pol \in [NodeBlocks -> Nat] /\ req.x \in [XrayIds -> Nat] /\ req.h \in Nat
      /\ req.leg \in Nat /\ req.chain \in BlockType
      /\ store.pol \in [NodeBlocks -> Nat] /\ store.x \in [XrayIds -> Nat]
      /\ store.h \in Nat /\ store.chain \in BlockType
  BY DEF TypeOK, PushType, BlockType
<1>e. /\ EmptyPush \in PushType /\ EmptyPush.pol \in [NodeBlocks -> Nat]
      /\ XIbNone \in [XrayIds -> Nat] /\ None \in Nat /\ NoChain \in BlockType
      /\ Down \in RunType /\ Down \in HRunType
  BY EmptyPushType DEF PushType, EmptyPush, XIbNone, None, NoChain, BlockType, Cores,
     RunType, HRunType
<1>d. \A c \in Cores : handoff.v \in Nat /\ Drawing(c) \in Nat
  BY <1>r, <1>e DEF TypeOK, BlockType, Drawing
<1> USE DEF Phases
<1>1. ASSUME NEW p \in Pushes, Receive(p)
      PROVE  TypeOK'
  BY <1>1, <1>e, PushesAssumption DEF Receive, Begins, TypeOK, outcome, xray,
         hysteria, chain, disk, fire, told
<1>2. ASSUME NEW b \in NodeBlocks, NEW r \in Results, ApplyBlock(b, r)
      PROVE  TypeOK'
  <2> DEFINE pol == [xPol EXCEPT ![b] = req.pol[b]]
  <2>p. pol \in [NodeBlocks -> Nat]
    BY <1>r DEF TypeOK
  <2>x. xRun' \in RunType
    <3>1. CASE xRun' = xRun
      BY <3>1 DEF TypeOK
    <3>2. CASE XRenders(pol, xIb, xLeg, r)
      BY <3>2, <2>p, XRendersType DEF TypeOK
    <3>. QED  BY <1>2, <3>1, <3>2 DEF ApplyBlock
  <2>h. HistoryType'
    BY <1>2, <1>h, SaidType DEF ApplyBlock, Cores
  <2>. QED  BY <1>2, <2>h, <2>x, <1>r, <1>e, <1>d, <2>p DEF ApplyBlock, TypeOK,
             HistoryType, outcome, xray, hysteria, chain, disk, fire, told
<1>3. CASE ChainStops
  BY <1>3, <1>e DEF ChainStops, InChain, TypeOK, outcome, xray, hysteria,
         chain, disk, fire, told
<1>4. CASE ChainKeeps
  BY <1>4 DEF ChainKeeps, InChain, Unchanged, TypeOK, outcome, xray, hysteria,
         chain, disk, fire, told
<1>5. CASE ChainRefuses
  <2>1. faults' \in 0 .. MaxFaults
    BY <1>5, <1>h, SpendsType DEF ChainRefuses
  <2>. QED  BY <1>5, <2>1 DEF ChainRefuses, InChain, TypeOK, HistoryType,
             outcome, xray, hysteria, chain, disk, fire, told
<1>6. CASE ChainAccepts
  BY <1>6, <1>r, <1>e DEF ChainAccepts, InChain, Unchanged, TypeOK, outcome,
         xray, hysteria, chain, disk, fire, told
<1>7. CASE ChainStarts
  BY <1>7 DEF ChainStarts, TypeOK, outcome, xray, hysteria, chain, disk, fire,
         told
<1>8. CASE ChainStartFails
  <2>1. faults' \in 0 .. MaxFaults
    BY <1>8, <1>h, SpendsType DEF ChainStartFails
  <2>. QED  BY <1>8, <2>1 DEF ChainStartFails, TypeOK, HistoryType, outcome,
             xray, hysteria, chain, disk, fire, told
<1>9. CASE ChainDies
  <2>1. faults' \in 0 .. MaxFaults
    BY <1>9, <1>h, SpendsType DEF ChainDies
  <2>. QED  BY <1>9, <2>1, <1>e DEF ChainDies, TypeOK, HistoryType, outcome,
             xray, hysteria, chain, disk, fire, told
<1>10. CASE Settle
  BY <1>10, <1>r DEF Settle, Handoff, TypeOK, Cores, outcome, xray, hysteria,
         chain, disk, fire, told
<1>11. ASSUME NEW r \in Results, XCascade(r)
      PROVE  TypeOK'
  <2>x. xRun' \in RunType
    <3>1. CASE xRun' = xRun
      BY <3>1 DEF TypeOK
    <3>2. CASE XRenders(xPol, xIb, Drawing("xray"), r)
      BY <3>2, <1>d, XRendersType DEF TypeOK, Cores
    <3>. QED  BY <1>11, <3>1, <3>2 DEF XCascade
  <2>h. HistoryType'
    BY <1>11, <1>h, SaidType DEF XCascade, Cores
  <2>. QED  BY <1>11, <2>h, <2>x, <1>r, <1>e, <1>d DEF XCascade, Cores, TypeOK,
             HistoryType, outcome, xray, hysteria, chain, disk, fire, told
<1>12. ASSUME NEW r \in Results, HCascade(r)
      PROVE  TypeOK'
  <2>x. hRun' \in HRunType
    <3>1. CASE hRun' = hRun
      BY <3>1 DEF TypeOK
    <3>2. CASE HRenders(hIb, Drawing("hysteria"), r)
      BY <3>2, <1>d, HRendersType DEF TypeOK, Cores
    <3>. QED  BY <1>12, <3>1, <3>2 DEF HCascade
  <2>h. HistoryType'
    BY <1>12, <1>h, SaidType DEF HCascade, Cores
  <2>. QED  BY <1>12, <2>h, <2>x, <1>r, <1>e, <1>d DEF HCascade, Cores, TypeOK,
             HistoryType, outcome, xray, hysteria, chain, disk, fire, told
<1>13. CASE IdleUnnamed
  BY <1>13 DEF IdleUnnamed, TypeOK, Cores, outcome, xray, hysteria, chain,
         disk, fire, told
<1>14. ASSUME NEW r \in Results, XIdles(r)
      PROVE  TypeOK'
  <2>x. xRun' \in RunType
    <3>1. CASE xRun' = xRun
      BY <3>1 DEF TypeOK
    <3>2. CASE XRenders(xPol, xIb, xLeg, r)
      BY <3>2, XRendersType DEF TypeOK
    <3>. QED  BY <1>14, <3>1, <3>2 DEF XIdles
  <2>h. HistoryType'
    BY <1>14, <1>h, SaidType DEF XIdles, Cores
  <2>. QED  BY <1>14, <2>h, <2>x, <1>r, <1>e, <1>d DEF XIdles, TypeOK,
             HistoryType, outcome, xray, hysteria, chain, disk, fire, told
<1>15. ASSUME NEW r \in Results, HIdles(r)
      PROVE  TypeOK'
  <2>x. hRun' \in HRunType
    BY <1>15, <1>e DEF HIdles, TypeOK
  <2>h. HistoryType'
    BY <1>15, <1>h, SaidType DEF HIdles, Cores
  <2>. QED  BY <1>15, <2>h, <2>x, <1>r, <1>e, <1>d DEF HIdles, TypeOK,
             HistoryType, outcome, xray, hysteria, chain, disk, fire, told
<1>16. CASE InboundsBegin
  BY <1>16 DEF InboundsBegin, Inbounds, TypeOK, Cores, outcome, xray,
         hysteria, chain, disk, fire, told
<1>17. ASSUME NEW r \in Results, HApplies(r)
      PROVE  TypeOK'
  <2>x. hRun' \in HRunType
    <3>1. CASE hRun' = hRun
      BY <3>1 DEF TypeOK
    <3>2. CASE HRenders(req.h, hHand, r)
      BY <3>2, <1>r, HRendersType DEF TypeOK
    <3>. QED  BY <1>17, <3>1, <3>2 DEF HApplies, Refuses
  <2>h. HistoryType'
    BY <1>17, <1>h, SaidType DEF HApplies, Refuses, Cores
  <2>. QED  BY <1>17, <2>h, <2>x, <1>r, <1>e, <1>d DEF HApplies, Refuses, Cores, TypeOK,
             HistoryType, outcome, xray, hysteria, chain, disk, fire, told
<1>18. ASSUME NEW r \in Results, XRetains(r)
      PROVE  TypeOK'
  <2> DEFINE ib == [j \in XrayIds |-> IF req.x[j] = None THEN None ELSE xIb[j]]
  <2>p. ib \in [XrayIds -> Nat]
    BY <1>e DEF TypeOK
  <2>x. xRun' \in RunType
    <3>1. CASE xRun' = xRun
      BY <3>1 DEF TypeOK
    <3>2. CASE XRenders(xPol, ib, xLeg, r)
      BY <3>2, <2>p, XRendersType DEF TypeOK
    <3>. QED  BY <1>18, <3>1, <3>2 DEF XRetains
  <2>h. HistoryType'
    BY <1>18, <1>h, SaidType DEF XRetains, Cores
  <2>. QED  BY <1>18, <2>h, <2>x, <1>r, <1>e, <1>d, <2>p DEF XRetains, TypeOK,
             HistoryType, outcome, xray, hysteria, chain, disk, fire, told
<1>19. ASSUME NEW i \in XrayIds, NEW r \in Results, XApplies(i, r)
      PROVE  TypeOK'
  <2> DEFINE ib == [xIb EXCEPT ![i] = req.x[i]]
             leg == IF xFromNode THEN xLeg ELSE None
  <2>p. ib \in [XrayIds -> Nat] /\ leg \in Nat /\ req.x[i] \in Nat
    BY <1>r, <1>e DEF TypeOK
  <2>x. xRun' \in RunType
    <3>1. CASE xRun' = xRun
      BY <3>1 DEF TypeOK
    <3>2. CASE XRenders(xPol, ib, leg, r)
      BY <3>2, <2>p, XRendersType DEF TypeOK
    <3>. QED  BY <1>19, <3>1, <3>2 DEF XApplies, Refuses
  <2>h. HistoryType'
    BY <1>19, <1>h, SaidType DEF XApplies, Refuses, Cores
  <2>. QED  BY <1>19, <2>h, <2>x, <1>r, <1>e, <1>d, <2>p DEF XApplies, Refuses, TypeOK,
             HistoryType, outcome, xray, hysteria, chain, disk, fire, told
<1>20. CASE PersistAccepted
  <2>1. AcceptedChain \in BlockType
    BY <1>r DEF AcceptedChain, TypeOK, BlockType
  <2>2. AcceptedPush \in PushType
    BY <2>1, <1>r DEF AcceptedPush, PushType, BlockType
  <2>3. PortsOf(store) \subseteq Nat
    BY <1>r DEF PortsOf
  <2>. QED  BY <1>20, <2>2, <2>3 DEF PersistAccepted, TypeOK, HistoryType,
             outcome, xray, hysteria, chain, disk, fire, told
<1>21. CASE PersistFails
  <2>1. faults' \in 0 .. MaxFaults
    BY <1>21, <1>h, SpendsType DEF PersistFails
  <2>. QED  BY <1>21, <2>1, <1>e DEF PersistFails, Ends, TypeOK, HistoryType,
             outcome, xray, hysteria, chain, disk, fire, told
<1>22. CASE CloseDroppedPorts
  BY <1>22, <1>e DEF CloseDroppedPorts, Ends, TypeOK, outcome, xray, hysteria,
         chain, disk, fire, told
<1>23. CASE Crash
  <2>1. faults' \in 0 .. MaxFaults
    BY <1>23, <1>h, SpendsType DEF Crash
  <2>. QED  BY <1>23, <2>1, <1>e DEF Crash, Ends, TypeOK, HistoryType, outcome,
             xray, hysteria, chain, disk, fire, told
<1>24. CASE Boot
  <2>1. PortsOf(store) \subseteq Nat
    BY <1>r DEF PortsOf
  <2>2. wall' \subseteq Nat /\ links' \in BlockType /\ behind' \subseteq Cores \cup {"chain"}
    BY <1>24, <2>1, <1>r DEF Boot, TypeOK
  <2>. QED  BY <1>24, <2>2, <1>r, <1>e DEF Boot, Begins, TypeOK, HistoryType,
             outcome, xray, hysteria, chain, disk, fire, told
<1>25. CASE RestoreEnds
  BY <1>25, <1>e DEF RestoreEnds, Ends, TypeOK, outcome, xray, hysteria,
         chain, disk, fire, told
<1>26. CASE UNCHANGED vars
  BY <1>26 DEF vars, TypeOK, outcome, xray, hysteria, chain, disk, fire, told
<1>. QED  BY <1>1, <1>2, <1>3, <1>4, <1>5, <1>6, <1>7, <1>8, <1>9, <1>10,
         <1>11, <1>12, <1>13, <1>14, <1>15, <1>16, <1>17, <1>18, <1>19, <1>20,
         <1>21, <1>22, <1>23, <1>24, <1>25, <1>26 DEF Next

LEMMA InPortsOf ==
  ASSUME NEW p, NEW q
  PROVE  q \in PortsOf(p) <=> q # None /\ (q = p.h \/ \E i \in XrayIds : q = p.x[i])
  BY DEF PortsOf

\* The invariant of the firewall is kept by every step.
LEMMA WallStep == TypeOK /\ WallInv /\ [Next]_vars => WallInv'
<1> SUFFICES ASSUME TypeOK, WallInv, [Next]_vars PROVE WallInv'
  OBVIOUS
<1> USE XrayIdsAssumption DEF None
<1>1. ASSUME NEW p \in Pushes, Receive(p)
      PROVE  WallInv'
  BY <1>1 DEF Receive, Begins, WallInv, RestoresStore, PersistIsDone,
         TakenIsOpen, WallIsStored, StoredIsOpen, TakenPorts, XTaken, HTaken,
         Early, TodoIsAsked, Unrefused, outcome, xray, hysteria, chain, disk,
         fire, told
<1>2. ASSUME NEW b \in NodeBlocks, NEW r \in Results, ApplyBlock(b, r)
      PROVE  WallInv'
  BY <1>2 DEF ApplyBlock, XRenders, Said, Costs, Spends, WallInv,
         RestoresStore, PersistIsDone, TakenIsOpen, WallIsStored,
         StoredIsOpen, TakenPorts, XTaken, HTaken, Early, TodoIsAsked,
         Unrefused, outcome, xray, hysteria, chain, disk, fire, told
<1>3. CASE ChainStops
  BY <1>3 DEF ChainStops, InChain, WallInv, RestoresStore, PersistIsDone,
         TakenIsOpen, WallIsStored, StoredIsOpen, TakenPorts, XTaken, HTaken,
         Early, TodoIsAsked, Unrefused, outcome, xray, hysteria, chain, disk,
         fire, told
<1>4. CASE ChainKeeps
  BY <1>4 DEF ChainKeeps, InChain, Unchanged, WallInv, RestoresStore,
         PersistIsDone, TakenIsOpen, WallIsStored, StoredIsOpen, TakenPorts,
         XTaken, HTaken, Early, TodoIsAsked, Unrefused, outcome, xray,
         hysteria, chain, disk, fire, told
<1>5. CASE ChainRefuses
  BY <1>5 DEF ChainRefuses, InChain, Unchanged, Spends, WallInv,
         RestoresStore, PersistIsDone, TakenIsOpen, WallIsStored,
         StoredIsOpen, TakenPorts, XTaken, HTaken, Early, TodoIsAsked,
         Unrefused, outcome, xray, hysteria, chain, disk, fire, told
<1>6. CASE ChainAccepts
  BY <1>6 DEF ChainAccepts, InChain, Unchanged, WallInv, RestoresStore,
         PersistIsDone, TakenIsOpen, WallIsStored, StoredIsOpen, TakenPorts,
         XTaken, HTaken, Early, TodoIsAsked, Unrefused, outcome, xray,
         hysteria, chain, disk, fire, told
<1>7. CASE ChainStarts
  BY <1>7 DEF ChainStarts, WallInv, RestoresStore, PersistIsDone, TakenIsOpen,
         WallIsStored, StoredIsOpen, TakenPorts, XTaken, HTaken, Early,
         TodoIsAsked, Unrefused, outcome, xray, hysteria, chain, disk, fire,
         told
<1>8. CASE ChainStartFails
  BY <1>8 DEF ChainStartFails, Spends, WallInv, RestoresStore, PersistIsDone,
         TakenIsOpen, WallIsStored, StoredIsOpen, TakenPorts, XTaken, HTaken,
         Early, TodoIsAsked, Unrefused, outcome, xray, hysteria, chain, disk,
         fire, told
<1>9. CASE ChainDies
  BY <1>9 DEF ChainDies, Spends, WallInv, RestoresStore, PersistIsDone,
         TakenIsOpen, WallIsStored, StoredIsOpen, TakenPorts, XTaken, HTaken,
         Early, TodoIsAsked, Unrefused, outcome, xray, hysteria, chain, disk,
         fire, told
<1>10. CASE Settle
  BY <1>10 DEF Settle, Handoff, WallInv, RestoresStore, PersistIsDone,
         TakenIsOpen, WallIsStored, StoredIsOpen, TakenPorts, XTaken, HTaken,
         Early, TodoIsAsked, Unrefused, outcome, xray, hysteria, chain, disk,
         fire, told
<1>11. ASSUME NEW r \in Results, XCascade(r)
      PROVE  WallInv'
  BY <1>11 DEF XCascade, Drawing, XRenders, Unsaid, Costs, Spends, WallInv,
         RestoresStore, PersistIsDone, TakenIsOpen, WallIsStored,
         StoredIsOpen, TakenPorts, XTaken, HTaken, Early, TodoIsAsked,
         Unrefused, outcome, xray, hysteria, chain, disk, fire, told
<1>12. ASSUME NEW r \in Results, HCascade(r)
      PROVE  WallInv'
  BY <1>12 DEF HCascade, Drawing, HRenders, Unsaid, Costs, Spends, WallInv,
         RestoresStore, PersistIsDone, TakenIsOpen, WallIsStored,
         StoredIsOpen, TakenPorts, XTaken, HTaken, Early, TodoIsAsked,
         Unrefused, outcome, xray, hysteria, chain, disk, fire, told
<1>13. CASE IdleUnnamed
  BY <1>13 DEF IdleUnnamed, WallInv, RestoresStore, PersistIsDone,
         TakenIsOpen, WallIsStored, StoredIsOpen, TakenPorts, XTaken, HTaken,
         Early, TodoIsAsked, Unrefused, Named, outcome, xray, hysteria, chain,
         disk, fire, told
<1>14. ASSUME NEW r \in Results, XIdles(r)
      PROVE  WallInv'
  BY <1>14 DEF XIdles, XRenders, Unsaid, Costs, Spends, WallInv,
         RestoresStore, PersistIsDone, TakenIsOpen, WallIsStored,
         StoredIsOpen, TakenPorts, XTaken, HTaken, Early, TodoIsAsked,
         Unrefused, outcome, xray, hysteria, chain, disk, fire, told
<1>15. ASSUME NEW r \in Results, HIdles(r)
      PROVE  WallInv'
  BY <1>15 DEF HIdles, Unsaid, Costs, Spends, WallInv, RestoresStore,
         PersistIsDone, TakenIsOpen, WallIsStored, StoredIsOpen, TakenPorts,
         XTaken, HTaken, Early, TodoIsAsked, Unrefused, outcome, xray,
         hysteria, chain, disk, fire, told
<1>16. CASE InboundsBegin
  BY <1>16 DEF InboundsBegin, Inbounds, WallInv, RestoresStore, PersistIsDone,
         TakenIsOpen, WallIsStored, StoredIsOpen, TakenPorts, XTaken, HTaken,
         Early, TodoIsAsked, Unrefused, outcome, xray, hysteria, chain, disk,
         fire, told
<1>17. ASSUME NEW r \in Results, HApplies(r)
      PROVE  WallInv'
  <2>1. /\ phase = "inbounds" /\ phase' = phase /\ todo' = todo \ {"hysteria"}
        /\ UNCHANGED <<req, boot, store, before, leaky>>
        /\ \/ refused' = refused /\ wall' = wall \cup {req.h}
           \/ refused' = refused \cup {"hysteria"} /\ wall' = wall
        /\ "hysteria" \in todo
    BY <1>17 DEF HApplies, Refuses, disk
  <2>3. req.h # None /\ "hysteria" \notin refused
    BY <2>1 DEF WallInv, TodoIsAsked
  <2>2. /\ \A j \in XrayIds : XTaken(j)' <=> XTaken(j)
        /\ HTaken' => wall' = wall \cup {req.h}
        /\ ~ HTaken
        /\ refused' = refused => HTaken'
    BY <2>1, <2>3, XrayIdsAssumption DEF XTaken, HTaken
  <2>. QED
    BY <2>1, <2>2, <2>3 DEF WallInv, RestoresStore, PersistIsDone, TakenIsOpen, WallIsStored,
       StoredIsOpen, TakenPorts, Early, TodoIsAsked, Unrefused

<1>18. ASSUME NEW r \in Results, XRetains(r)
      PROVE  WallInv'
  BY <1>18 DEF XRetains, XRenders, Unsaid, Costs, Spends, WallInv,
         RestoresStore, PersistIsDone, TakenIsOpen, WallIsStored,
         StoredIsOpen, TakenPorts, XTaken, HTaken, Early, TodoIsAsked,
         Unrefused, outcome, xray, hysteria, chain, disk, fire, told
<1>19. ASSUME NEW i \in XrayIds, NEW r \in Results, XApplies(i, r)
      PROVE  WallInv'
  <2>1. /\ phase = "inbounds" /\ phase' = phase /\ todo' = todo \ {i}
        /\ UNCHANGED <<req, boot, store, before, leaky>>
        /\ \/ refused' = refused /\ wall' = wall \cup {req.x[i]}
           \/ refused' = refused \cup {i} /\ wall' = wall
        /\ i \in todo
    BY <1>19 DEF XApplies, Refuses, disk
  <2>2. /\ \A j \in XrayIds \ {i} : XTaken(j)' <=> XTaken(j)
        /\ HTaken' <=> HTaken
        /\ ~ XTaken(i)
        /\ XTaken(i)' => wall' = wall \cup {req.x[i]}
        /\ refused' = refused => XTaken(i)' \/ i \in refused \/ req.x[i] = None
    BY <2>1, XrayIdsAssumption DEF XTaken, HTaken
  <2>3. req.x[i] # None
    BY <2>1 DEF WallInv, TodoIsAsked
  <2>. QED
    BY <2>1, <2>2, <2>3 DEF WallInv, RestoresStore, PersistIsDone, TakenIsOpen, WallIsStored,
       StoredIsOpen, TakenPorts, Early, TodoIsAsked, Unrefused

<1>20. CASE PersistAccepted
  BY <1>20, InPortsOf DEF PersistAccepted, WallInv, RestoresStore,
         PersistIsDone, TakenIsOpen, WallIsStored, StoredIsOpen, TakenPorts,
         XTaken, HTaken, Early, TodoIsAsked, Unrefused, AcceptedPush, outcome,
         xray, hysteria, chain, disk, fire, told
<1>21. CASE PersistFails
  BY <1>21 DEF PersistFails, Ends, Spends, WallInv, RestoresStore,
         PersistIsDone, TakenIsOpen, WallIsStored, StoredIsOpen, TakenPorts,
         XTaken, HTaken, Early, TodoIsAsked, Unrefused, outcome, xray,
         hysteria, chain, disk, fire, told
<1>22. CASE CloseDroppedPorts
  BY <1>22 DEF CloseDroppedPorts, Ends, WallInv, RestoresStore, PersistIsDone,
         TakenIsOpen, WallIsStored, StoredIsOpen, TakenPorts, XTaken, HTaken,
         Early, TodoIsAsked, Unrefused, PortsOf, outcome, xray, hysteria,
         chain, disk, fire, told
<1>23. CASE Crash
  BY <1>23 DEF Crash, Ends, Spends, WallInv, RestoresStore, PersistIsDone,
         TakenIsOpen, WallIsStored, StoredIsOpen, TakenPorts, XTaken, HTaken,
         Early, TodoIsAsked, Unrefused, outcome, xray, hysteria, chain, disk,
         fire, told
<1>24. CASE Boot
  BY <1>24 DEF Boot, Begins, WallInv, RestoresStore, PersistIsDone,
         TakenIsOpen, WallIsStored, StoredIsOpen, TakenPorts, XTaken, HTaken,
         Early, TodoIsAsked, Unrefused, PortsOf, outcome, xray, hysteria,
         chain, disk, fire, told
<1>25. CASE RestoreEnds
  BY <1>25, InPortsOf DEF RestoreEnds, Ends, WallInv, RestoresStore,
         PersistIsDone, TakenIsOpen, WallIsStored, StoredIsOpen, TakenPorts,
         XTaken, HTaken, Early, TodoIsAsked, Unrefused, outcome, xray,
         hysteria, chain, disk, fire, told
<1>26. CASE UNCHANGED vars
  BY <1>26 DEF vars, WallInv, RestoresStore, PersistIsDone, TakenIsOpen,
         WallIsStored, StoredIsOpen, TakenPorts, XTaken, HTaken, Early,
         TodoIsAsked, Unrefused, outcome, xray, hysteria, chain, disk, fire,
         told
<1>. QED  BY <1>1, <1>2, <1>3, <1>4, <1>5, <1>6, <1>7, <1>8, <1>9, <1>10,
         <1>11, <1>12, <1>13, <1>14, <1>15, <1>16, <1>17, <1>18, <1>19, <1>20,
         <1>21, <1>22, <1>23, <1>24, <1>25, <1>26 DEF Next

LEMMA InitTypeWall == Init => TypeOK /\ WallInv
<1> SUFFICES ASSUME Init PROVE TypeOK /\ WallInv
  OBVIOUS
<1>1. TypeOK
  <2>1. /\ EmptyPush.pol \in [NodeBlocks -> Nat] /\ XIbNone \in [XrayIds -> Nat]
        /\ None \in Nat /\ NoChain \in BlockType /\ Down \in RunType /\ Down \in HRunType
    BY DEF EmptyPush, XIbNone, None, NoChain, BlockType, Cores, RunType, HRunType
  <2>2. faults \in 0 .. MaxFaults
    BY MaxFaultsAssumption DEF Init
  <2>3. phase \in Phases /\ req \in PushType /\ store \in PushType
    BY EmptyPushType DEF Init, Phases
  <2>4. /\ boot \in BOOLEAN /\ chainRefused \in BOOLEAN /\ ucRefused \in BOOLEAN
        /\ held \in BOOLEAN /\ xFromNode \in BOOLEAN /\ hIdled \in BOOLEAN
        /\ leaky \in BOOLEAN
    BY DEF Init
  <2>. QED
    BY <2>1, <2>2, <2>3, <2>4 DEF Init, TypeOK
<1>2. WallInv
  BY InPortsOf DEF Init, WallInv, TodoIsAsked, Unrefused, RestoresStore, PersistIsDone, TakenIsOpen, WallIsStored,
     StoredIsOpen, Early, EmptyPush, XIbNone, None
<1>. QED  BY <1>1, <1>2

\* No push, refusal, failure or crash takes a variable out of its type, and
\* the budget of faults is kept (every step of applyPushKept and of the
\* restore).
THEOREM TypeCorrect == Spec => []TypeOK
<1>1. Init => TypeOK
  BY InitTypeWall
<1>2. TypeOK /\ [Next]_vars => TypeOK'
  BY TypeStep
<1>. QED  BY <1>1, <1>2, PTL DEF Spec

LEMMA WallAlways == Spec => [](TypeOK /\ WallInv)
<1>1. Init => TypeOK /\ WallInv
  BY InitTypeWall
<1>2. TypeOK /\ WallInv /\ [Next]_vars => (TypeOK /\ WallInv)'
  BY TypeStep, WallStep
<1>. QED  BY <1>1, <1>2, PTL DEF Spec

\* For every set of pushes and any number of faults: a port of the store is
\* open at every moment, closeDroppedPorts and every crash included.
THEOREM PortsStayOpen == Spec => []StoredIsOpen
<1>1. TypeOK /\ WallInv => StoredIsOpen
  BY DEF WallInv
<1>. QED  BY <1>1, WallAlways, PTL

\* No firewall rule outlives its inbound: after a push that was not cut short,
\* only stored and reserved ports are open (closeDroppedPorts).
THEOREM NoRuleLeft == Spec => []NoStaleRule
<1>1. TypeOK /\ WallInv => NoStaleRule
  BY DEF WallInv, WallIsStored, NoStaleRule, Idle
<1>. QED  BY <1>1, WallAlways, PTL

\* A core runs what its memory holds, until a call ends in an unreported error.
LEMMA RunsMemoryStep ==
  ASSUME TypeOK, WallInv, CoresInv, [Next]_vars
  PROVE  RunsMemory'
<1> USE XrayIdsAssumption DEF None
<1>r. Results \subseteq {"ok", "refused", "failed"}
  BY FailuresAssumption DEF Results
<1>1. ASSUME NEW p \in Pushes, Receive(p)
      PROVE  RunsMemory'
  BY <1>1 DEF Receive, Begins, CoresInv, RunsMemory, Cores, outcome, xray,
         hysteria, chain, disk, fire, told
<1>2. ASSUME NEW b \in NodeBlocks, NEW r \in Results, ApplyBlock(b, r)
      PROVE  RunsMemory'
  BY <1>2, <1>r DEF ApplyBlock, XRenders, Said, Costs, Spends, CoresInv,
         RunsMemory, Cores, outcome, xray, hysteria, chain, disk, fire, told
<1>3. CASE ChainStops
  BY <1>3 DEF ChainStops, InChain, CoresInv, RunsMemory, Cores, outcome, xray,
         hysteria, chain, disk, fire, told
<1>4. CASE ChainKeeps
  BY <1>4 DEF ChainKeeps, InChain, Unchanged, CoresInv, RunsMemory, Cores,
         outcome, xray, hysteria, chain, disk, fire, told
<1>5. CASE ChainRefuses
  BY <1>5 DEF ChainRefuses, InChain, Unchanged, Spends, CoresInv, RunsMemory,
         Cores, outcome, xray, hysteria, chain, disk, fire, told
<1>6. CASE ChainAccepts
  BY <1>6 DEF ChainAccepts, InChain, Unchanged, CoresInv, RunsMemory, Cores,
         outcome, xray, hysteria, chain, disk, fire, told
<1>7. CASE ChainStarts
  BY <1>7 DEF ChainStarts, CoresInv, RunsMemory, Cores, outcome, xray,
         hysteria, chain, disk, fire, told
<1>8. CASE ChainStartFails
  BY <1>8 DEF ChainStartFails, Spends, CoresInv, RunsMemory, Cores, outcome,
         xray, hysteria, chain, disk, fire, told
<1>9. CASE ChainDies
  BY <1>9 DEF ChainDies, Spends, CoresInv, RunsMemory, Cores, outcome, xray,
         hysteria, chain, disk, fire, told
<1>10. CASE Settle
  BY <1>10 DEF Settle, Handoff, CoresInv, RunsMemory, Cores, outcome, xray,
         hysteria, chain, disk, fire, told
<1>11. ASSUME NEW r \in Results, XCascade(r)
      PROVE  RunsMemory'
  BY <1>11 DEF XCascade, Drawing, XRenders, Unsaid, Costs, Spends, CoresInv,
         RunsMemory, Cores, outcome, xray, hysteria, chain, disk, fire, told
<1>12. ASSUME NEW r \in Results, HCascade(r)
      PROVE  RunsMemory'
  BY <1>12 DEF HCascade, Drawing, HRenders, Unsaid, Costs, Spends, CoresInv,
         RunsMemory, Cores, outcome, xray, hysteria, chain, disk, fire, told
<1>13. CASE IdleUnnamed
  BY <1>13 DEF IdleUnnamed, CoresInv, RunsMemory, Cores, outcome, xray,
         hysteria, chain, disk, fire, told
<1>14. ASSUME NEW r \in Results, XIdles(r)
      PROVE  RunsMemory'
  BY <1>14 DEF XIdles, XRenders, Unsaid, Costs, Spends, CoresInv, RunsMemory,
         Cores, outcome, xray, hysteria, chain, disk, fire, told
<1>15. ASSUME NEW r \in Results, HIdles(r)
      PROVE  RunsMemory'
  BY <1>15 DEF HIdles, Unsaid, Costs, Spends, CoresInv, RunsMemory, Cores,
         outcome, xray, hysteria, chain, disk, fire, told
<1>16. CASE InboundsBegin
  BY <1>16 DEF InboundsBegin, Inbounds, CoresInv, RunsMemory, Cores, outcome,
         xray, hysteria, chain, disk, fire, told
<1>17. ASSUME NEW r \in Results, HApplies(r)
      PROVE  RunsMemory'
  BY <1>17, <1>r DEF HApplies, Refuses, HRenders, Said, Costs, Spends, CoresInv,
         RunsMemory, Cores, outcome, xray, hysteria, chain, disk, fire, told
<1>18. ASSUME NEW r \in Results, XRetains(r)
      PROVE  RunsMemory'
  BY <1>18 DEF XRetains, XRenders, Unsaid, Costs, Spends, CoresInv,
         RunsMemory, Cores, outcome, xray, hysteria, chain, disk, fire, told
<1>19. ASSUME NEW i \in XrayIds, NEW r \in Results, XApplies(i, r)
      PROVE  RunsMemory'
  BY <1>19, <1>r DEF XApplies, Refuses, XRenders, Said, Costs, Spends, CoresInv,
         RunsMemory, Cores, outcome, xray, hysteria, chain, disk, fire, told
<1>20. CASE PersistAccepted
  BY <1>20 DEF PersistAccepted, CoresInv, RunsMemory, Cores, outcome, xray,
         hysteria, chain, disk, fire, told
<1>21. CASE PersistFails
  BY <1>21 DEF PersistFails, Ends, Spends, CoresInv, RunsMemory, Cores,
         outcome, xray, hysteria, chain, disk, fire, told
<1>22. CASE CloseDroppedPorts
  BY <1>22 DEF CloseDroppedPorts, Ends, CoresInv, RunsMemory, Cores, outcome,
         xray, hysteria, chain, disk, fire, told
<1>23. CASE Crash
  BY <1>23 DEF Crash, Ends, Spends, CoresInv, RunsMemory, Cores, XServes,
         XIbNone, Down, outcome, xray, hysteria, chain, disk, fire, told
<1>24. CASE Boot
  BY <1>24 DEF Boot, Begins, CoresInv, RunsMemory, Cores, EmptyWhenDown,
         XServes, outcome, xray, hysteria, chain, disk, fire, told
<1>25. CASE RestoreEnds
  BY <1>25 DEF RestoreEnds, Ends, CoresInv, RunsMemory, Cores, outcome, xray,
         hysteria, chain, disk, fire, told
<1>26. CASE UNCHANGED vars
  BY <1>26 DEF vars, CoresInv, RunsMemory, Cores, outcome, xray, hysteria,
         chain, disk, fire, told
<1>. QED  BY <1>1, <1>2, <1>3, <1>4, <1>5, <1>6, <1>7, <1>8, <1>9, <1>10,
         <1>11, <1>12, <1>13, <1>14, <1>15, <1>16, <1>17, <1>18, <1>19, <1>20,
         <1>21, <1>22, <1>23, <1>24, <1>25, <1>26 DEF Next

\* Memory of xray holds what the store says, or what the push in hand brought.
LEMMA XInboundsStep ==
  ASSUME TypeOK, WallInv, CoresInv, [Next]_vars
  PROVE  XInbounds'
<1> USE XrayIdsAssumption DEF None
<1>r. Results \subseteq {"ok", "refused", "failed"}
  BY FailuresAssumption DEF Results
<1>1. ASSUME NEW p \in Pushes, Receive(p)
      PROVE  XInbounds'
  BY <1>1 DEF Receive, Begins, CoresInv, XInbounds, XKept, XTaken, TypeOK,
         Cores, WallInv, RestoresStore, PersistIsDone, TodoIsAsked, Unrefused,
         Early, outcome, xray, hysteria, chain, disk, fire, told
<1>2. ASSUME NEW b \in NodeBlocks, NEW r \in Results, ApplyBlock(b, r)
      PROVE  XInbounds'
  BY <1>2, <1>r DEF ApplyBlock, XRenders, Said, Costs, Spends, CoresInv,
         XInbounds, XKept, XTaken, TypeOK, Cores, WallInv, RestoresStore,
         PersistIsDone, TodoIsAsked, Unrefused, Early, outcome, xray,
         hysteria, chain, disk, fire, told
<1>3. CASE ChainStops
  BY <1>3 DEF ChainStops, InChain, CoresInv, XInbounds, XKept, XTaken, TypeOK,
         Cores, WallInv, RestoresStore, PersistIsDone, TodoIsAsked, Unrefused,
         Early, outcome, xray, hysteria, chain, disk, fire, told
<1>4. CASE ChainKeeps
  BY <1>4 DEF ChainKeeps, InChain, Unchanged, CoresInv, XInbounds, XKept,
         XTaken, TypeOK, Cores, WallInv, RestoresStore, PersistIsDone,
         TodoIsAsked, Unrefused, Early, outcome, xray, hysteria, chain, disk,
         fire, told
<1>5. CASE ChainRefuses
  BY <1>5 DEF ChainRefuses, InChain, Unchanged, Spends, CoresInv, XInbounds,
         XKept, XTaken, TypeOK, Cores, WallInv, RestoresStore, PersistIsDone,
         TodoIsAsked, Unrefused, Early, outcome, xray, hysteria, chain, disk,
         fire, told
<1>6. CASE ChainAccepts
  BY <1>6 DEF ChainAccepts, InChain, Unchanged, CoresInv, XInbounds, XKept,
         XTaken, TypeOK, Cores, WallInv, RestoresStore, PersistIsDone,
         TodoIsAsked, Unrefused, Early, outcome, xray, hysteria, chain, disk,
         fire, told
<1>7. CASE ChainStarts
  BY <1>7 DEF ChainStarts, CoresInv, XInbounds, XKept, XTaken, TypeOK, Cores,
         WallInv, RestoresStore, PersistIsDone, TodoIsAsked, Unrefused, Early,
         outcome, xray, hysteria, chain, disk, fire, told
<1>8. CASE ChainStartFails
  BY <1>8 DEF ChainStartFails, Spends, CoresInv, XInbounds, XKept, XTaken,
         TypeOK, Cores, WallInv, RestoresStore, PersistIsDone, TodoIsAsked,
         Unrefused, Early, outcome, xray, hysteria, chain, disk, fire, told
<1>9. CASE ChainDies
  BY <1>9 DEF ChainDies, Spends, CoresInv, XInbounds, XKept, XTaken, TypeOK,
         Cores, WallInv, RestoresStore, PersistIsDone, TodoIsAsked, Unrefused,
         Early, outcome, xray, hysteria, chain, disk, fire, told
<1>10. CASE Settle
  BY <1>10 DEF Settle, Handoff, CoresInv, XInbounds, XKept, XTaken, TypeOK,
         Cores, WallInv, RestoresStore, PersistIsDone, TodoIsAsked, Unrefused,
         Early, outcome, xray, hysteria, chain, disk, fire, told
<1>11. ASSUME NEW r \in Results, XCascade(r)
      PROVE  XInbounds'
  BY <1>11 DEF XCascade, Drawing, XRenders, Unsaid, Costs, Spends, CoresInv,
         XInbounds, XKept, XTaken, TypeOK, Cores, WallInv, RestoresStore,
         PersistIsDone, TodoIsAsked, Unrefused, Early, outcome, xray,
         hysteria, chain, disk, fire, told
<1>12. ASSUME NEW r \in Results, HCascade(r)
      PROVE  XInbounds'
  BY <1>12 DEF HCascade, Drawing, HRenders, Unsaid, Costs, Spends, CoresInv,
         XInbounds, XKept, XTaken, TypeOK, Cores, WallInv, RestoresStore,
         PersistIsDone, TodoIsAsked, Unrefused, Early, outcome, xray,
         hysteria, chain, disk, fire, told
<1>13. CASE IdleUnnamed
  BY <1>13 DEF IdleUnnamed, CoresInv, XInbounds, XKept, XTaken, TypeOK, Cores,
         WallInv, RestoresStore, PersistIsDone, TodoIsAsked, Unrefused, Early,
         outcome, xray, hysteria, chain, disk, fire, told
<1>14. ASSUME NEW r \in Results, XIdles(r)
      PROVE  XInbounds'
  BY <1>14 DEF XIdles, XRenders, Unsaid, Costs, Spends, CoresInv, XInbounds,
         XKept, XTaken, TypeOK, Cores, WallInv, RestoresStore, PersistIsDone,
         TodoIsAsked, Unrefused, Early, outcome, xray, hysteria, chain, disk,
         fire, told
<1>15. ASSUME NEW r \in Results, HIdles(r)
      PROVE  XInbounds'
  BY <1>15 DEF HIdles, Unsaid, Costs, Spends, CoresInv, XInbounds, XKept,
         XTaken, TypeOK, Cores, WallInv, RestoresStore, PersistIsDone,
         TodoIsAsked, Unrefused, Early, outcome, xray, hysteria, chain, disk,
         fire, told
<1>16. CASE InboundsBegin
  BY <1>16 DEF InboundsBegin, Inbounds, CoresInv, XInbounds, XKept, XTaken,
         TypeOK, Cores, WallInv, RestoresStore, PersistIsDone, TodoIsAsked,
         Unrefused, Early, outcome, xray, hysteria, chain, disk, fire, told
<1>17. ASSUME NEW r \in Results, HApplies(r)
      PROVE  XInbounds'
  BY <1>17, <1>r DEF HApplies, Refuses, HRenders, Said, Costs, Spends, CoresInv,
         XInbounds, XKept, XTaken, TypeOK, Cores, WallInv, RestoresStore,
         PersistIsDone, TodoIsAsked, Unrefused, Early, outcome, xray,
         hysteria, chain, disk, fire, told
<1>18. ASSUME NEW r \in Results, XRetains(r)
      PROVE  XInbounds'
  BY <1>18 DEF XRetains, XRenders, Unsaid, Costs, Spends, CoresInv, XInbounds,
         XKept, XTaken, TypeOK, Cores, WallInv, RestoresStore, PersistIsDone,
         TodoIsAsked, Unrefused, Early, outcome, xray, hysteria, chain, disk,
         fire, told
<1>19. ASSUME NEW i \in XrayIds, NEW r \in Results, XApplies(i, r)
      PROVE  XInbounds'
  <2>1. /\ phase = "inbounds" /\ phase' = "inbounds" /\ i \in todo /\ todo' = todo \ {i}
        /\ UNCHANGED <<req, boot, store>>
        /\ behind \subseteq behind'
        /\ \A j \in XrayIds \ {i} : xIb'[j] = xIb[j]
    BY <1>19 DEF XApplies, Refuses, Said, disk, TypeOK
  <2>2. \/ r = "ok" /\ refused' = refused /\ xIb'[i] = req.x[i]
        \/ r = "refused" /\ refused' = refused \cup {i} /\ xIb' = xIb
             /\ (boot => "xray" \in behind')
        \/ "xray" \in behind'
    BY <1>19, <1>r DEF XApplies, Refuses, Said, TypeOK
  <2>3. req.x[i] # None /\ i \notin refused
    BY <2>1 DEF WallInv, TodoIsAsked
  <2>. QED  BY <2>1, <2>2, <2>3 DEF CoresInv, XInbounds, XKept, XTaken, Early

<1>20. CASE PersistAccepted
  BY <1>20 DEF PersistAccepted, CoresInv, XInbounds, XKept, XTaken, TypeOK,
         Cores, WallInv, RestoresStore, PersistIsDone, TodoIsAsked, Unrefused,
         Early, AcceptedPush, outcome, xray, hysteria, chain, disk, fire, told
<1>21. CASE PersistFails
  BY <1>21 DEF PersistFails, Ends, Spends, CoresInv, XInbounds, XKept, XTaken,
         TypeOK, Cores, WallInv, RestoresStore, PersistIsDone, TodoIsAsked,
         Unrefused, Early, outcome, xray, hysteria, chain, disk, fire, told
<1>22. CASE CloseDroppedPorts
  BY <1>22 DEF CloseDroppedPorts, Ends, CoresInv, XInbounds, XKept, XTaken,
         TypeOK, Cores, WallInv, RestoresStore, PersistIsDone, TodoIsAsked,
         Unrefused, Early, outcome, xray, hysteria, chain, disk, fire, told
<1>23. CASE Crash
  BY <1>23 DEF Crash, Ends, Spends, CoresInv, XInbounds, XKept, XTaken,
         TypeOK, Cores, WallInv, RestoresStore, PersistIsDone, TodoIsAsked,
         Unrefused, Early, outcome, xray, hysteria, chain, disk, fire, told
<1>24. CASE Boot
  BY <1>24 DEF Boot, Begins, CoresInv, XInbounds, XKept, XTaken, TypeOK,
         Cores, WallInv, RestoresStore, PersistIsDone, TodoIsAsked, Unrefused,
         Early, PortsOf, EmptyPush, XIbNone, outcome, xray, hysteria, chain,
         disk, fire, told
<1>25. CASE RestoreEnds
  BY <1>25 DEF RestoreEnds, Ends, CoresInv, XInbounds, XKept, XTaken, TypeOK,
         Cores, WallInv, RestoresStore, PersistIsDone, TodoIsAsked, Unrefused,
         Early, outcome, xray, hysteria, chain, disk, fire, told
<1>26. CASE UNCHANGED vars
  BY <1>26 DEF vars, CoresInv, XInbounds, XKept, XTaken, TypeOK, Cores,
         WallInv, RestoresStore, PersistIsDone, TodoIsAsked, Unrefused, Early,
         outcome, xray, hysteria, chain, disk, fire, told
<1>. QED  BY <1>1, <1>2, <1>3, <1>4, <1>5, <1>6, <1>7, <1>8, <1>9, <1>10,
         <1>11, <1>12, <1>13, <1>14, <1>15, <1>16, <1>17, <1>18, <1>19, <1>20,
         <1>21, <1>22, <1>23, <1>24, <1>25, <1>26 DEF Next

\* The same for the one inbound of hysteria.
LEMMA HInboundsStep ==
  ASSUME TypeOK, WallInv, CoresInv, [Next]_vars
  PROVE  HInbounds'
<1> USE XrayIdsAssumption DEF None
<1>r. Results \subseteq {"ok", "refused", "failed"}
  BY FailuresAssumption DEF Results
<1>1. ASSUME NEW p \in Pushes, Receive(p)
      PROVE  HInbounds'
  BY <1>1 DEF Receive, Begins, CoresInv, HInbounds, HKept, HTaken, Cores,
         WallInv, RestoresStore, PersistIsDone, TodoIsAsked, Unrefused, Early,
         outcome, xray, hysteria, chain, disk, fire, told
<1>2. ASSUME NEW b \in NodeBlocks, NEW r \in Results, ApplyBlock(b, r)
      PROVE  HInbounds'
  BY <1>2, <1>r DEF ApplyBlock, XRenders, Said, Costs, Spends, CoresInv,
         HInbounds, HKept, HTaken, Cores, WallInv, RestoresStore,
         PersistIsDone, TodoIsAsked, Unrefused, Early, outcome, xray,
         hysteria, chain, disk, fire, told
<1>3. CASE ChainStops
  BY <1>3 DEF ChainStops, InChain, CoresInv, HInbounds, HKept, HTaken, Cores,
         WallInv, RestoresStore, PersistIsDone, TodoIsAsked, Unrefused, Early,
         outcome, xray, hysteria, chain, disk, fire, told
<1>4. CASE ChainKeeps
  BY <1>4 DEF ChainKeeps, InChain, Unchanged, CoresInv, HInbounds, HKept,
         HTaken, Cores, WallInv, RestoresStore, PersistIsDone, TodoIsAsked,
         Unrefused, Early, outcome, xray, hysteria, chain, disk, fire, told
<1>5. CASE ChainRefuses
  BY <1>5 DEF ChainRefuses, InChain, Unchanged, Spends, CoresInv, HInbounds,
         HKept, HTaken, Cores, WallInv, RestoresStore, PersistIsDone,
         TodoIsAsked, Unrefused, Early, outcome, xray, hysteria, chain, disk,
         fire, told
<1>6. CASE ChainAccepts
  BY <1>6 DEF ChainAccepts, InChain, Unchanged, CoresInv, HInbounds, HKept,
         HTaken, Cores, WallInv, RestoresStore, PersistIsDone, TodoIsAsked,
         Unrefused, Early, outcome, xray, hysteria, chain, disk, fire, told
<1>7. CASE ChainStarts
  BY <1>7 DEF ChainStarts, CoresInv, HInbounds, HKept, HTaken, Cores, WallInv,
         RestoresStore, PersistIsDone, TodoIsAsked, Unrefused, Early, outcome,
         xray, hysteria, chain, disk, fire, told
<1>8. CASE ChainStartFails
  BY <1>8 DEF ChainStartFails, Spends, CoresInv, HInbounds, HKept, HTaken,
         Cores, WallInv, RestoresStore, PersistIsDone, TodoIsAsked, Unrefused,
         Early, outcome, xray, hysteria, chain, disk, fire, told
<1>9. CASE ChainDies
  BY <1>9 DEF ChainDies, Spends, CoresInv, HInbounds, HKept, HTaken, Cores,
         WallInv, RestoresStore, PersistIsDone, TodoIsAsked, Unrefused, Early,
         outcome, xray, hysteria, chain, disk, fire, told
<1>10. CASE Settle
  BY <1>10 DEF Settle, Handoff, CoresInv, HInbounds, HKept, HTaken, Cores,
         WallInv, RestoresStore, PersistIsDone, TodoIsAsked, Unrefused, Early,
         outcome, xray, hysteria, chain, disk, fire, told
<1>11. ASSUME NEW r \in Results, XCascade(r)
      PROVE  HInbounds'
  BY <1>11 DEF XCascade, Drawing, XRenders, Unsaid, Costs, Spends, CoresInv,
         HInbounds, HKept, HTaken, Cores, WallInv, RestoresStore,
         PersistIsDone, TodoIsAsked, Unrefused, Early, outcome, xray,
         hysteria, chain, disk, fire, told
<1>12. ASSUME NEW r \in Results, HCascade(r)
      PROVE  HInbounds'
  BY <1>12 DEF HCascade, Drawing, HRenders, Unsaid, Costs, Spends, CoresInv,
         HInbounds, HKept, HTaken, Cores, WallInv, RestoresStore,
         PersistIsDone, TodoIsAsked, Unrefused, Early, outcome, xray,
         hysteria, chain, disk, fire, told
<1>13. CASE IdleUnnamed
  BY <1>13 DEF IdleUnnamed, CoresInv, HInbounds, HKept, HTaken, Cores,
         WallInv, RestoresStore, PersistIsDone, TodoIsAsked, Unrefused, Early,
         outcome, xray, hysteria, chain, disk, fire, told
<1>14. ASSUME NEW r \in Results, XIdles(r)
      PROVE  HInbounds'
  BY <1>14 DEF XIdles, XRenders, Unsaid, Costs, Spends, CoresInv, HInbounds,
         HKept, HTaken, Cores, WallInv, RestoresStore, PersistIsDone,
         TodoIsAsked, Unrefused, Early, outcome, xray, hysteria, chain, disk,
         fire, told
<1>15. ASSUME NEW r \in Results, HIdles(r)
      PROVE  HInbounds'
  BY <1>15 DEF HIdles, Unsaid, Costs, Spends, CoresInv, HInbounds, HKept,
         HTaken, Cores, WallInv, RestoresStore, PersistIsDone, TodoIsAsked,
         Unrefused, Early, outcome, xray, hysteria, chain, disk, fire, told
<1>16. CASE InboundsBegin
  BY <1>16 DEF InboundsBegin, Inbounds, CoresInv, HInbounds, HKept, HTaken,
         Cores, WallInv, RestoresStore, PersistIsDone, TodoIsAsked, Unrefused,
         Early, outcome, xray, hysteria, chain, disk, fire, told
<1>17. ASSUME NEW r \in Results, HApplies(r)
      PROVE  HInbounds'
  BY <1>17, <1>r DEF HApplies, Refuses, HRenders, Said, Costs, Spends, CoresInv,
         HInbounds, HKept, HTaken, Cores, WallInv, RestoresStore,
         PersistIsDone, TodoIsAsked, Unrefused, Early, outcome, xray,
         hysteria, chain, disk, fire, told
<1>18. ASSUME NEW r \in Results, XRetains(r)
      PROVE  HInbounds'
  BY <1>18 DEF XRetains, XRenders, Unsaid, Costs, Spends, CoresInv, HInbounds,
         HKept, HTaken, Cores, WallInv, RestoresStore, PersistIsDone,
         TodoIsAsked, Unrefused, Early, outcome, xray, hysteria, chain, disk,
         fire, told
<1>19. ASSUME NEW i \in XrayIds, NEW r \in Results, XApplies(i, r)
      PROVE  HInbounds'
  BY <1>19, <1>r DEF XApplies, Refuses, XRenders, Said, Costs, Spends, CoresInv,
         HInbounds, HKept, HTaken, Cores, WallInv, RestoresStore,
         PersistIsDone, TodoIsAsked, Unrefused, Early, outcome, xray,
         hysteria, chain, disk, fire, told
<1>20. CASE PersistAccepted
  BY <1>20 DEF PersistAccepted, CoresInv, HInbounds, HKept, HTaken, Cores,
         WallInv, RestoresStore, PersistIsDone, TodoIsAsked, Unrefused, Early,
         AcceptedPush, outcome, xray, hysteria, chain, disk, fire, told
<1>21. CASE PersistFails
  BY <1>21 DEF PersistFails, Ends, Spends, CoresInv, HInbounds, HKept, HTaken,
         Cores, WallInv, RestoresStore, PersistIsDone, TodoIsAsked, Unrefused,
         Early, outcome, xray, hysteria, chain, disk, fire, told
<1>22. CASE CloseDroppedPorts
  BY <1>22 DEF CloseDroppedPorts, Ends, CoresInv, HInbounds, HKept, HTaken,
         Cores, WallInv, RestoresStore, PersistIsDone, TodoIsAsked, Unrefused,
         Early, outcome, xray, hysteria, chain, disk, fire, told
<1>23. CASE Crash
  BY <1>23 DEF Crash, Ends, Spends, CoresInv, HInbounds, HKept, HTaken, Cores,
         WallInv, RestoresStore, PersistIsDone, TodoIsAsked, Unrefused, Early,
         outcome, xray, hysteria, chain, disk, fire, told
<1>24. CASE Boot
  BY <1>24 DEF Boot, Begins, CoresInv, HInbounds, HKept, HTaken, Cores,
         WallInv, RestoresStore, PersistIsDone, TodoIsAsked, Unrefused, Early,
         PortsOf, EmptyPush, outcome, xray, hysteria, chain, disk, fire, told
<1>25. CASE RestoreEnds
  BY <1>25 DEF RestoreEnds, Ends, CoresInv, HInbounds, HKept, HTaken, Cores,
         WallInv, RestoresStore, PersistIsDone, TodoIsAsked, Unrefused, Early,
         outcome, xray, hysteria, chain, disk, fire, told
<1>26. CASE UNCHANGED vars
  BY <1>26 DEF vars, CoresInv, HInbounds, HKept, HTaken, Cores, WallInv,
         RestoresStore, PersistIsDone, TodoIsAsked, Unrefused, Early, outcome,
         xray, hysteria, chain, disk, fire, told
<1>. QED  BY <1>1, <1>2, <1>3, <1>4, <1>5, <1>6, <1>7, <1>8, <1>9, <1>10,
         <1>11, <1>12, <1>13, <1>14, <1>15, <1>16, <1>17, <1>18, <1>19, <1>20,
         <1>21, <1>22, <1>23, <1>24, <1>25, <1>26 DEF Next

\* The blocks of xray, and its empty memory before a restore.
LEMMA PoliciesStep ==
  ASSUME TypeOK, WallInv, CoresInv, [Next]_vars
  PROVE  (EmptyWhenDown /\ Policies)'
<1> USE XrayIdsAssumption DEF None
<1>r. Results \subseteq {"ok", "refused", "failed"}
  BY FailuresAssumption DEF Results
<1>1. ASSUME NEW p \in Pushes, Receive(p)
      PROVE  (EmptyWhenDown /\ Policies)'
  BY <1>1 DEF Receive, Begins, CoresInv, Policies, EmptyWhenDown, TypeOK,
         Cores, WallInv, RestoresStore, PersistIsDone, TodoIsAsked, Unrefused,
         Early, outcome, xray, hysteria, chain, disk, fire, told
<1>2. ASSUME NEW b \in NodeBlocks, NEW r \in Results, ApplyBlock(b, r)
      PROVE  (EmptyWhenDown /\ Policies)'
  <2>1. /\ phase = "blocks" /\ phase' = "blocks" /\ b \in todo /\ todo' = todo \ {b}
        /\ UNCHANGED <<req, boot, store>>
        /\ behind \subseteq behind'
        /\ \A a \in NodeBlocks \ {b} : xPol'[a] = xPol[a]
    BY <1>2 DEF ApplyBlock, Said, disk, TypeOK
  <2>2. \/ r = "ok" /\ polRefused' = polRefused /\ xPol'[b] = req.pol[b]
        \/ r = "refused" /\ polRefused' = polRefused \cup {b} /\ xPol' = xPol
             /\ (boot => "xray" \in behind')
        \/ "xray" \in behind'
    BY <1>2, <1>r DEF ApplyBlock, Said, TypeOK
  <2>. QED  BY <2>1, <2>2 DEF CoresInv, Policies, EmptyWhenDown

<1>3. CASE ChainStops
  BY <1>3 DEF ChainStops, InChain, CoresInv, Policies, EmptyWhenDown, TypeOK,
         Cores, WallInv, RestoresStore, PersistIsDone, TodoIsAsked, Unrefused,
         Early, outcome, xray, hysteria, chain, disk, fire, told
<1>4. CASE ChainKeeps
  BY <1>4 DEF ChainKeeps, InChain, Unchanged, CoresInv, Policies,
         EmptyWhenDown, TypeOK, Cores, WallInv, RestoresStore, PersistIsDone,
         TodoIsAsked, Unrefused, Early, outcome, xray, hysteria, chain, disk,
         fire, told
<1>5. CASE ChainRefuses
  BY <1>5 DEF ChainRefuses, InChain, Unchanged, Spends, CoresInv, Policies,
         EmptyWhenDown, TypeOK, Cores, WallInv, RestoresStore, PersistIsDone,
         TodoIsAsked, Unrefused, Early, outcome, xray, hysteria, chain, disk,
         fire, told
<1>6. CASE ChainAccepts
  BY <1>6 DEF ChainAccepts, InChain, Unchanged, CoresInv, Policies,
         EmptyWhenDown, TypeOK, Cores, WallInv, RestoresStore, PersistIsDone,
         TodoIsAsked, Unrefused, Early, outcome, xray, hysteria, chain, disk,
         fire, told
<1>7. CASE ChainStarts
  BY <1>7 DEF ChainStarts, CoresInv, Policies, EmptyWhenDown, TypeOK, Cores,
         WallInv, RestoresStore, PersistIsDone, TodoIsAsked, Unrefused, Early,
         outcome, xray, hysteria, chain, disk, fire, told
<1>8. CASE ChainStartFails
  BY <1>8 DEF ChainStartFails, Spends, CoresInv, Policies, EmptyWhenDown,
         TypeOK, Cores, WallInv, RestoresStore, PersistIsDone, TodoIsAsked,
         Unrefused, Early, outcome, xray, hysteria, chain, disk, fire, told
<1>9. CASE ChainDies
  BY <1>9 DEF ChainDies, Spends, CoresInv, Policies, EmptyWhenDown, TypeOK,
         Cores, WallInv, RestoresStore, PersistIsDone, TodoIsAsked, Unrefused,
         Early, outcome, xray, hysteria, chain, disk, fire, told
<1>10. CASE Settle
  BY <1>10 DEF Settle, Handoff, CoresInv, Policies, EmptyWhenDown, TypeOK,
         Cores, WallInv, RestoresStore, PersistIsDone, TodoIsAsked, Unrefused,
         Early, outcome, xray, hysteria, chain, disk, fire, told
<1>11. ASSUME NEW r \in Results, XCascade(r)
      PROVE  (EmptyWhenDown /\ Policies)'
  BY <1>11 DEF XCascade, Drawing, XRenders, Unsaid, Costs, Spends, CoresInv,
         Policies, EmptyWhenDown, TypeOK, Cores, WallInv, RestoresStore,
         PersistIsDone, TodoIsAsked, Unrefused, Early, outcome, xray,
         hysteria, chain, disk, fire, told
<1>12. ASSUME NEW r \in Results, HCascade(r)
      PROVE  (EmptyWhenDown /\ Policies)'
  BY <1>12 DEF HCascade, Drawing, HRenders, Unsaid, Costs, Spends, CoresInv,
         Policies, EmptyWhenDown, TypeOK, Cores, WallInv, RestoresStore,
         PersistIsDone, TodoIsAsked, Unrefused, Early, outcome, xray,
         hysteria, chain, disk, fire, told
<1>13. CASE IdleUnnamed
  BY <1>13 DEF IdleUnnamed, CoresInv, Policies, EmptyWhenDown, TypeOK, Cores,
         WallInv, RestoresStore, PersistIsDone, TodoIsAsked, Unrefused, Early,
         outcome, xray, hysteria, chain, disk, fire, told
<1>14. ASSUME NEW r \in Results, XIdles(r)
      PROVE  (EmptyWhenDown /\ Policies)'
  BY <1>14 DEF XIdles, XRenders, Unsaid, Costs, Spends, CoresInv, Policies,
         EmptyWhenDown, TypeOK, Cores, WallInv, RestoresStore, PersistIsDone,
         TodoIsAsked, Unrefused, Early, outcome, xray, hysteria, chain, disk,
         fire, told
<1>15. ASSUME NEW r \in Results, HIdles(r)
      PROVE  (EmptyWhenDown /\ Policies)'
  BY <1>15 DEF HIdles, Unsaid, Costs, Spends, CoresInv, Policies,
         EmptyWhenDown, TypeOK, Cores, WallInv, RestoresStore, PersistIsDone,
         TodoIsAsked, Unrefused, Early, outcome, xray, hysteria, chain, disk,
         fire, told
<1>16. CASE InboundsBegin
  BY <1>16 DEF InboundsBegin, Inbounds, CoresInv, Policies, EmptyWhenDown,
         TypeOK, Cores, WallInv, RestoresStore, PersistIsDone, TodoIsAsked,
         Unrefused, Early, outcome, xray, hysteria, chain, disk, fire, told
<1>17. ASSUME NEW r \in Results, HApplies(r)
      PROVE  (EmptyWhenDown /\ Policies)'
  BY <1>17, <1>r DEF HApplies, Refuses, HRenders, Said, Costs, Spends, CoresInv,
         Policies, EmptyWhenDown, TypeOK, Cores, WallInv, RestoresStore,
         PersistIsDone, TodoIsAsked, Unrefused, Early, outcome, xray,
         hysteria, chain, disk, fire, told
<1>18. ASSUME NEW r \in Results, XRetains(r)
      PROVE  (EmptyWhenDown /\ Policies)'
  BY <1>18 DEF XRetains, XRenders, Unsaid, Costs, Spends, CoresInv, Policies,
         EmptyWhenDown, TypeOK, Cores, WallInv, RestoresStore, PersistIsDone,
         TodoIsAsked, Unrefused, Early, outcome, xray, hysteria, chain, disk,
         fire, told
<1>19. ASSUME NEW i \in XrayIds, NEW r \in Results, XApplies(i, r)
      PROVE  (EmptyWhenDown /\ Policies)'
  BY <1>19, <1>r DEF XApplies, Refuses, XRenders, Said, Costs, Spends, CoresInv,
         Policies, EmptyWhenDown, TypeOK, Cores, WallInv, RestoresStore,
         PersistIsDone, TodoIsAsked, Unrefused, Early, outcome, xray,
         hysteria, chain, disk, fire, told
<1>20. CASE PersistAccepted
  BY <1>20 DEF PersistAccepted, CoresInv, Policies, EmptyWhenDown, TypeOK,
         Cores, WallInv, RestoresStore, PersistIsDone, TodoIsAsked, Unrefused,
         Early, AcceptedPush, outcome, xray, hysteria, chain, disk, fire, told
<1>21. CASE PersistFails
  BY <1>21 DEF PersistFails, Ends, Spends, CoresInv, Policies, EmptyWhenDown,
         TypeOK, Cores, WallInv, RestoresStore, PersistIsDone, TodoIsAsked,
         Unrefused, Early, outcome, xray, hysteria, chain, disk, fire, told
<1>22. CASE CloseDroppedPorts
  BY <1>22 DEF CloseDroppedPorts, Ends, CoresInv, Policies, EmptyWhenDown,
         TypeOK, Cores, WallInv, RestoresStore, PersistIsDone, TodoIsAsked,
         Unrefused, Early, outcome, xray, hysteria, chain, disk, fire, told
<1>23. CASE Crash
  BY <1>23 DEF Crash, Ends, Spends, CoresInv, Policies, EmptyWhenDown, TypeOK,
         Cores, WallInv, RestoresStore, PersistIsDone, TodoIsAsked, Unrefused,
         Early, outcome, xray, hysteria, chain, disk, fire, told
<1>24. CASE Boot
  BY <1>24 DEF Boot, Begins, CoresInv, Policies, EmptyWhenDown, TypeOK, Cores,
         WallInv, RestoresStore, PersistIsDone, TodoIsAsked, Unrefused, Early,
         EmptyPush, outcome, xray, hysteria, chain, disk, fire, told
<1>25. CASE RestoreEnds
  <2>1. phase = "persist" /\ boot /\ phase' = "idle" /\ UNCHANGED <<xPol, behind, store>>
    BY <1>25 DEF RestoreEnds, xray, told
  <2>2. req = store
    BY <2>1 DEF WallInv, RestoresStore
  <2>3. "xray" \notin behind => \A b \in NodeBlocks : xPol[b] = store.pol[b]
    BY <2>1, <2>2 DEF CoresInv, Policies
  <2>4. xPol \in [NodeBlocks -> Nat] /\ store.pol \in [NodeBlocks -> Nat]
    BY DEF TypeOK, PushType
  <2>. QED  BY <2>1, <2>3, <2>4 DEF Policies, EmptyWhenDown

<1>26. CASE UNCHANGED vars
  BY <1>26 DEF vars, CoresInv, Policies, EmptyWhenDown, TypeOK, Cores,
         WallInv, RestoresStore, PersistIsDone, TodoIsAsked, Unrefused, Early,
         outcome, xray, hysteria, chain, disk, fire, told
<1>. QED  BY <1>1, <1>2, <1>3, <1>4, <1>5, <1>6, <1>7, <1>8, <1>9, <1>10,
         <1>11, <1>12, <1>13, <1>14, <1>15, <1>16, <1>17, <1>18, <1>19, <1>20,
         <1>21, <1>22, <1>23, <1>24, <1>25, <1>26 DEF Next

LEMMA InitCores == Init => CoresInv
  BY DEF Init, CoresInv, RunsMemory, XInbounds, HInbounds, EmptyWhenDown, Policies,
     XKept, HKept, EmptyPush, XIbNone, None, XServes, Early

LEMMA CoresStep == TypeOK /\ WallInv /\ CoresInv /\ [Next]_vars => CoresInv'
<1> SUFFICES ASSUME TypeOK, WallInv, CoresInv, [Next]_vars PROVE CoresInv'
  OBVIOUS
<1>. QED
  BY RunsMemoryStep, XInboundsStep, HInboundsStep, PoliciesStep DEF CoresInv

\* What the store says is what the cores run, whatever they refused and
\* however often the agent died, as long as no core ended a call in an error
\* the agent does not report (acceptedPush and restoreFromStore).
THEOREM StoreIsWhatRuns == Spec => []StoredIsServed
<1>1. TypeOK /\ CoresInv => StoredIsServed
  <2> SUFFICES ASSUME TypeOK, CoresInv, Idle PROVE StoredIsServed
    BY DEF StoredIsServed
  <2>1. ASSUME "xray" \notin behind, NEW i \in XrayIds, store.x[i] # None
        PROVE  xRun.up /\ xRun.ib[i] = store.x[i] /\ xRun.pol = store.pol
    <3>1. xIb[i] = store.x[i] /\ xPol = store.pol /\ xRun = XServes(xPol, xIb, xLeg)
      BY <2>1 DEF CoresInv, XInbounds, XKept, Policies, RunsMemory, Idle
    <3>2. xIb # XIbNone
      BY <3>1, <2>1 DEF XIbNone
    <3>. QED  BY <3>1, <3>2 DEF XServes
  <2>2. ASSUME "hysteria" \notin behind, store.h # None
        PROVE  hRun.up /\ hRun.ib = store.h
    BY <2>2 DEF CoresInv, HInbounds, HKept, RunsMemory, Idle
  <2>. QED  BY <2>1, <2>2 DEF StoredIsServed
<1>2. Init => CoresInv
  BY InitCores
<1>3. TypeOK /\ WallInv /\ CoresInv /\ [Next]_vars => CoresInv'
  BY CoresStep
<1>. QED  BY <1>1, <1>2, <1>3, WallAlways, PTL DEF Spec

\* The hand-off is the block in force, from the moment it is settled.
LEMMA HandoffStep ==
  ASSUME TypeOK, WallInv, ChainInv, [Next]_vars
  PROVE  HandoffIsForce'
<1> USE XrayIdsAssumption DEF None
<1>r. Results \subseteq {"ok", "refused", "failed"}
  BY FailuresAssumption DEF Results
<1>1. ASSUME NEW p \in Pushes, Receive(p)
      PROVE  HandoffIsForce'
  BY <1>1 DEF Receive, Begins, ChainInv, HandoffIsForce, Settled, Cores,
         WallInv, PersistIsDone, outcome, xray, hysteria, chain, disk, fire,
         told
<1>2. ASSUME NEW b \in NodeBlocks, NEW r \in Results, ApplyBlock(b, r)
      PROVE  HandoffIsForce'
  BY <1>2 DEF ApplyBlock, XRenders, Said, Costs, Spends, ChainInv,
         HandoffIsForce, Settled, Cores, WallInv, PersistIsDone, outcome,
         xray, hysteria, chain, disk, fire, told
<1>3. CASE ChainStops
  BY <1>3 DEF ChainStops, InChain, ChainInv, HandoffIsForce, Settled, Cores,
         WallInv, PersistIsDone, outcome, xray, hysteria, chain, disk, fire,
         told
<1>4. CASE ChainKeeps
  BY <1>4 DEF ChainKeeps, InChain, Unchanged, ChainInv, HandoffIsForce,
         Settled, Cores, WallInv, PersistIsDone, outcome, xray, hysteria,
         chain, disk, fire, told
<1>5. CASE ChainRefuses
  BY <1>5 DEF ChainRefuses, InChain, Unchanged, Spends, ChainInv,
         HandoffIsForce, Settled, Cores, WallInv, PersistIsDone, outcome,
         xray, hysteria, chain, disk, fire, told
<1>6. CASE ChainAccepts
  BY <1>6 DEF ChainAccepts, InChain, Unchanged, ChainInv, HandoffIsForce,
         Settled, Cores, WallInv, PersistIsDone, outcome, xray, hysteria,
         chain, disk, fire, told
<1>7. CASE ChainStarts
  BY <1>7 DEF ChainStarts, ChainInv, HandoffIsForce, Settled, Cores, WallInv,
         PersistIsDone, outcome, xray, hysteria, chain, disk, fire, told
<1>8. CASE ChainStartFails
  BY <1>8 DEF ChainStartFails, Spends, ChainInv, HandoffIsForce, Settled,
         Cores, WallInv, PersistIsDone, outcome, xray, hysteria, chain, disk,
         fire, told
<1>9. CASE ChainDies
  BY <1>9 DEF ChainDies, Spends, ChainInv, HandoffIsForce, Settled, Cores,
         WallInv, PersistIsDone, outcome, xray, hysteria, chain, disk, fire,
         told
<1>10. CASE Settle
  BY <1>10 DEF Settle, Handoff, ChainInv, HandoffIsForce, Settled, Cores,
         WallInv, PersistIsDone, outcome, xray, hysteria, chain, disk, fire,
         told
<1>11. ASSUME NEW r \in Results, XCascade(r)
      PROVE  HandoffIsForce'
  BY <1>11 DEF XCascade, Drawing, XRenders, Unsaid, Costs, Spends, ChainInv,
         HandoffIsForce, Settled, Cores, WallInv, PersistIsDone, outcome,
         xray, hysteria, chain, disk, fire, told
<1>12. ASSUME NEW r \in Results, HCascade(r)
      PROVE  HandoffIsForce'
  BY <1>12 DEF HCascade, Drawing, HRenders, Unsaid, Costs, Spends, ChainInv,
         HandoffIsForce, Settled, Cores, WallInv, PersistIsDone, outcome,
         xray, hysteria, chain, disk, fire, told
<1>13. CASE IdleUnnamed
  BY <1>13 DEF IdleUnnamed, ChainInv, HandoffIsForce, Settled, Cores, WallInv,
         PersistIsDone, outcome, xray, hysteria, chain, disk, fire, told
<1>14. ASSUME NEW r \in Results, XIdles(r)
      PROVE  HandoffIsForce'
  BY <1>14 DEF XIdles, XRenders, Unsaid, Costs, Spends, ChainInv,
         HandoffIsForce, Settled, Cores, WallInv, PersistIsDone, outcome,
         xray, hysteria, chain, disk, fire, told
<1>15. ASSUME NEW r \in Results, HIdles(r)
      PROVE  HandoffIsForce'
  BY <1>15 DEF HIdles, Unsaid, Costs, Spends, ChainInv, HandoffIsForce,
         Settled, Cores, WallInv, PersistIsDone, outcome, xray, hysteria,
         chain, disk, fire, told
<1>16. CASE InboundsBegin
  BY <1>16 DEF InboundsBegin, Inbounds, ChainInv, HandoffIsForce, Settled,
         Cores, WallInv, PersistIsDone, outcome, xray, hysteria, chain, disk,
         fire, told
<1>17. ASSUME NEW r \in Results, HApplies(r)
      PROVE  HandoffIsForce'
  BY <1>17 DEF HApplies, Refuses, HRenders, Said, Costs, Spends, ChainInv,
         HandoffIsForce, Settled, Cores, WallInv, PersistIsDone, outcome,
         xray, hysteria, chain, disk, fire, told
<1>18. ASSUME NEW r \in Results, XRetains(r)
      PROVE  HandoffIsForce'
  BY <1>18 DEF XRetains, XRenders, Unsaid, Costs, Spends, ChainInv,
         HandoffIsForce, Settled, Cores, WallInv, PersistIsDone, outcome,
         xray, hysteria, chain, disk, fire, told
<1>19. ASSUME NEW i \in XrayIds, NEW r \in Results, XApplies(i, r)
      PROVE  HandoffIsForce'
  BY <1>19 DEF XApplies, Refuses, XRenders, Said, Costs, Spends, ChainInv,
         HandoffIsForce, Settled, Cores, WallInv, PersistIsDone, outcome,
         xray, hysteria, chain, disk, fire, told
<1>20. CASE PersistAccepted
  BY <1>20 DEF PersistAccepted, ChainInv, HandoffIsForce, Settled, Cores,
         WallInv, PersistIsDone, outcome, xray, hysteria, chain, disk, fire,
         told
<1>21. CASE PersistFails
  BY <1>21 DEF PersistFails, Ends, Spends, ChainInv, HandoffIsForce, Settled,
         Cores, WallInv, PersistIsDone, outcome, xray, hysteria, chain, disk,
         fire, told
<1>22. CASE CloseDroppedPorts
  BY <1>22 DEF CloseDroppedPorts, Ends, ChainInv, HandoffIsForce, Settled,
         Cores, WallInv, PersistIsDone, outcome, xray, hysteria, chain, disk,
         fire, told
<1>23. CASE Crash
  BY <1>23 DEF Crash, Ends, Spends, ChainInv, HandoffIsForce, Settled, Cores,
         WallInv, PersistIsDone, outcome, xray, hysteria, chain, disk, fire,
         told
<1>24. CASE Boot
  BY <1>24 DEF Boot, Begins, ChainInv, HandoffIsForce, Settled, Cores,
         WallInv, PersistIsDone, outcome, xray, hysteria, chain, disk, fire,
         told
<1>25. CASE RestoreEnds
  BY <1>25 DEF RestoreEnds, Ends, ChainInv, HandoffIsForce, Settled, Cores,
         WallInv, PersistIsDone, outcome, xray, hysteria, chain, disk, fire,
         told
<1>26. CASE UNCHANGED vars
  BY <1>26 DEF vars, ChainInv, HandoffIsForce, Settled, Cores, WallInv,
         PersistIsDone, outcome, xray, hysteria, chain, disk, fire, told
<1>. QED  BY <1>1, <1>2, <1>3, <1>4, <1>5, <1>6, <1>7, <1>8, <1>9, <1>10,
         <1>11, <1>12, <1>13, <1>14, <1>15, <1>16, <1>17, <1>18, <1>19, <1>20,
         <1>21, <1>22, <1>23, <1>24, <1>25, <1>26 DEF Next

\* The cores are drawn to the hand-off.
LEMMA DrawnStep ==
  ASSUME TypeOK, WallInv, ChainInv, [Next]_vars
  PROVE  Drawn'
<1> USE XrayIdsAssumption DEF None
<1>r. Results \subseteq {"ok", "refused", "failed"}
  BY FailuresAssumption DEF Results
<1>1. ASSUME NEW p \in Pushes, Receive(p)
      PROVE  Drawn'
  BY <1>1 DEF Receive, Begins, ChainInv, HandoffIsForce, Drawn,
         HandOffFollowsChain, Hand, Drawing, Idle, Settled, Cores, WallInv,
         PersistIsDone, outcome, xray, hysteria, chain, disk, fire, told
<1>2. ASSUME NEW b \in NodeBlocks, NEW r \in Results, ApplyBlock(b, r)
      PROVE  Drawn'
  BY <1>2, <1>r DEF ApplyBlock, XRenders, Said, Costs, Spends, ChainInv,
         HandoffIsForce, Drawn, HandOffFollowsChain, Hand, Drawing, Idle,
         Settled, Cores, WallInv, PersistIsDone, outcome, xray, hysteria,
         chain, disk, fire, told
<1>3. CASE ChainStops
  BY <1>3 DEF ChainStops, InChain, ChainInv, HandoffIsForce, Drawn,
         HandOffFollowsChain, Hand, Drawing, Idle, Settled, Cores, WallInv,
         PersistIsDone, outcome, xray, hysteria, chain, disk, fire, told
<1>4. CASE ChainKeeps
  BY <1>4 DEF ChainKeeps, InChain, Unchanged, ChainInv, HandoffIsForce, Drawn,
         HandOffFollowsChain, Hand, Drawing, Idle, Settled, Cores, WallInv,
         PersistIsDone, outcome, xray, hysteria, chain, disk, fire, told
<1>5. CASE ChainRefuses
  BY <1>5 DEF ChainRefuses, InChain, Unchanged, Spends, ChainInv,
         HandoffIsForce, Drawn, HandOffFollowsChain, Hand, Drawing, Idle,
         Settled, Cores, WallInv, PersistIsDone, outcome, xray, hysteria,
         chain, disk, fire, told
<1>6. CASE ChainAccepts
  BY <1>6 DEF ChainAccepts, InChain, Unchanged, ChainInv, HandoffIsForce,
         Drawn, HandOffFollowsChain, Hand, Drawing, Idle, Settled, Cores,
         WallInv, PersistIsDone, outcome, xray, hysteria, chain, disk, fire,
         told
<1>7. CASE ChainStarts
  BY <1>7 DEF ChainStarts, ChainInv, HandoffIsForce, Drawn,
         HandOffFollowsChain, Hand, Drawing, Idle, Settled, Cores, WallInv,
         PersistIsDone, outcome, xray, hysteria, chain, disk, fire, told
<1>8. CASE ChainStartFails
  BY <1>8 DEF ChainStartFails, Spends, ChainInv, HandoffIsForce, Drawn,
         HandOffFollowsChain, Hand, Drawing, Idle, Settled, Cores, WallInv,
         PersistIsDone, outcome, xray, hysteria, chain, disk, fire, told
<1>9. CASE ChainDies
  BY <1>9 DEF ChainDies, Spends, ChainInv, HandoffIsForce, Drawn,
         HandOffFollowsChain, Hand, Drawing, Idle, Settled, Cores, WallInv,
         PersistIsDone, outcome, xray, hysteria, chain, disk, fire, told
<1>10. CASE Settle
  BY <1>10 DEF Settle, Handoff, ChainInv, HandoffIsForce, Drawn,
         HandOffFollowsChain, Hand, Drawing, Idle, Settled, Cores, WallInv,
         PersistIsDone, outcome, xray, hysteria, chain, disk, fire, told
<1>11. ASSUME NEW r \in Results, XCascade(r)
      PROVE  Drawn'
  <2>1. /\ phase = "cascade" /\ phase' = phase /\ todo' = todo \ {"xray"}
        /\ UNCHANGED <<req, handoff, ucRefused, held, accepted, links, hHand>>
        /\ behind \subseteq behind'
    BY <1>11 DEF XCascade, Unsaid, outcome, hysteria, chain, fire
  <2>2. Drawing("xray")' = Drawing("xray") /\ Drawing("hysteria")' = Drawing("hysteria")
    BY <2>1 DEF Drawing
  <2>3. held => xFromNode' /\ (xLeg' = Drawing("xray") \/ "xray" \in behind')
    BY <1>11 DEF XCascade, Unsaid
  <2>. QED  BY <2>1, <2>2, <2>3 DEF ChainInv, Drawn, Hand, Cores, Settled

<1>12. ASSUME NEW r \in Results, HCascade(r)
      PROVE  Drawn'
  BY <1>12 DEF HCascade, Drawing, HRenders, Unsaid, Costs, Spends, ChainInv,
         HandoffIsForce, Drawn, HandOffFollowsChain, Hand, Idle, Settled,
         Cores, WallInv, PersistIsDone, outcome, xray, hysteria, chain, disk,
         fire, told
<1>13. CASE IdleUnnamed
  BY <1>13 DEF IdleUnnamed, ChainInv, HandoffIsForce, Drawn,
         HandOffFollowsChain, Hand, Drawing, Idle, Settled, Cores, WallInv,
         PersistIsDone, outcome, xray, hysteria, chain, disk, fire, told
<1>14. ASSUME NEW r \in Results, XIdles(r)
      PROVE  Drawn'
  BY <1>14 DEF XIdles, XRenders, Unsaid, Costs, Spends, ChainInv,
         HandoffIsForce, Drawn, HandOffFollowsChain, Hand, Drawing, Idle,
         Settled, Cores, WallInv, PersistIsDone, outcome, xray, hysteria,
         chain, disk, fire, told
<1>15. ASSUME NEW r \in Results, HIdles(r)
      PROVE  Drawn'
  BY <1>15 DEF HIdles, Unsaid, Costs, Spends, ChainInv, HandoffIsForce, Drawn,
         HandOffFollowsChain, Hand, Drawing, Idle, Settled, Cores, WallInv,
         PersistIsDone, outcome, xray, hysteria, chain, disk, fire, told
<1>16. CASE InboundsBegin
  BY <1>16 DEF InboundsBegin, Inbounds, ChainInv, HandoffIsForce, Drawn,
         HandOffFollowsChain, Hand, Drawing, Idle, Settled, Cores, WallInv,
         PersistIsDone, outcome, xray, hysteria, chain, disk, fire, told
<1>17. ASSUME NEW r \in Results, HApplies(r)
      PROVE  Drawn'
  BY <1>17, <1>r DEF HApplies, Refuses, HRenders, Said, Costs, Spends, ChainInv,
         HandoffIsForce, Drawn, HandOffFollowsChain, Hand, Drawing, Idle,
         Settled, Cores, WallInv, PersistIsDone, outcome, xray, hysteria,
         chain, disk, fire, told
<1>18. ASSUME NEW r \in Results, XRetains(r)
      PROVE  Drawn'
  BY <1>18 DEF XRetains, XRenders, Unsaid, Costs, Spends, ChainInv,
         HandoffIsForce, Drawn, HandOffFollowsChain, Hand, Drawing, Idle,
         Settled, Cores, WallInv, PersistIsDone, outcome, xray, hysteria,
         chain, disk, fire, told
<1>19. ASSUME NEW i \in XrayIds, NEW r \in Results, XApplies(i, r)
      PROVE  Drawn'
  BY <1>19, <1>r DEF XApplies, Refuses, XRenders, Said, Costs, Spends, ChainInv,
         HandoffIsForce, Drawn, HandOffFollowsChain, Hand, Drawing, Idle,
         Settled, Cores, WallInv, PersistIsDone, outcome, xray, hysteria,
         chain, disk, fire, told
<1>20. CASE PersistAccepted
  BY <1>20 DEF PersistAccepted, ChainInv, HandoffIsForce, Drawn,
         HandOffFollowsChain, Hand, Drawing, Idle, Settled, Cores, WallInv,
         PersistIsDone, outcome, xray, hysteria, chain, disk, fire, told
<1>21. CASE PersistFails
  BY <1>21 DEF PersistFails, Ends, Spends, ChainInv, HandoffIsForce, Drawn,
         HandOffFollowsChain, Hand, Drawing, Idle, Settled, Cores, WallInv,
         PersistIsDone, outcome, xray, hysteria, chain, disk, fire, told
<1>22. CASE CloseDroppedPorts
  BY <1>22 DEF CloseDroppedPorts, Ends, ChainInv, HandoffIsForce, Drawn,
         HandOffFollowsChain, Hand, Drawing, Idle, Settled, Cores, WallInv,
         PersistIsDone, outcome, xray, hysteria, chain, disk, fire, told
<1>23. CASE Crash
  BY <1>23 DEF Crash, Ends, Spends, ChainInv, HandoffIsForce, Drawn,
         HandOffFollowsChain, Hand, Drawing, Idle, Settled, Cores, WallInv,
         PersistIsDone, outcome, xray, hysteria, chain, disk, fire, told
<1>24. CASE Boot
  BY <1>24 DEF Boot, Begins, ChainInv, HandoffIsForce, Drawn,
         HandOffFollowsChain, Hand, Drawing, Idle, Settled, Cores, WallInv,
         PersistIsDone, outcome, xray, hysteria, chain, disk, fire, told
<1>25. CASE RestoreEnds
  BY <1>25 DEF RestoreEnds, Ends, ChainInv, HandoffIsForce, Drawn,
         HandOffFollowsChain, Hand, Drawing, Idle, Settled, Cores, WallInv,
         PersistIsDone, outcome, xray, hysteria, chain, disk, fire, told
<1>26. CASE UNCHANGED vars
  BY <1>26 DEF vars, ChainInv, HandoffIsForce, Drawn, HandOffFollowsChain,
         Hand, Drawing, Idle, Settled, Cores, WallInv, PersistIsDone, outcome,
         xray, hysteria, chain, disk, fire, told
<1>. QED  BY <1>1, <1>2, <1>3, <1>4, <1>5, <1>6, <1>7, <1>8, <1>9, <1>10,
         <1>11, <1>12, <1>13, <1>14, <1>15, <1>16, <1>17, <1>18, <1>19, <1>20,
         <1>21, <1>22, <1>23, <1>24, <1>25, <1>26 DEF Next

LEMMA ChainStep == TypeOK /\ WallInv /\ ChainInv /\ [Next]_vars => ChainInv'
<1> SUFFICES ASSUME TypeOK, WallInv, ChainInv, [Next]_vars PROVE ChainInv'
  OBVIOUS
<1>. QED
  BY HandoffStep, DrawnStep DEF ChainInv

LEMMA InitChain == Init => ChainInv
  BY DEF Init, ChainInv, HandoffIsForce, Drawn, HandOffFollowsChain, Settled

\* No core is ever left drawn to a block the chain refused: after every push
\* and every restore the hand-off and the open link ports are those of the
\* block the chain was last put on (the hand-off in applyPushKept).
THEOREM HandOffIsChains == Spec => []HandOffFollowsChain
<1>1. ChainInv => HandOffFollowsChain
  BY DEF ChainInv, Drawn, HandOffFollowsChain, Idle
<1>2. Init => ChainInv
  BY InitChain
<1>3. TypeOK /\ WallInv /\ ChainInv /\ [Next]_vars => ChainInv'
  BY ChainStep
<1>. QED  BY <1>1, <1>2, <1>3, WallAlways, PTL DEF Spec

LEMMA EmptyChain ==
  /\ EmptyPush.chain = NoChain /\ NoChain.to = "nobody" /\ NoChain.to \notin Cores
  BY DEF EmptyPush, NoChain, Cores

\* Every block that is kept has legs.
LEMMA BlocksStep ==
  ASSUME TypeOK, WallInv, ChainInv, PairInv, [Next]_vars
  PROVE  Blocks'
<1> USE XrayIdsAssumption DEF None
<1>r. Results \subseteq {"ok", "refused", "failed"}
  BY FailuresAssumption DEF Results
<1>1. ASSUME NEW p \in Pushes, Receive(p)
      PROVE  Blocks'
  BY <1>1, PushesAssumption DEF Receive, Begins, PairInv, Blocks, HasLegs,
         outcome, xray, hysteria, chain, disk, fire, told
<1>2. ASSUME NEW b \in NodeBlocks, NEW r \in Results, ApplyBlock(b, r)
      PROVE  Blocks'
  BY <1>2 DEF ApplyBlock, XRenders, Said, Costs, Spends, PairInv, Blocks,
         HasLegs, outcome, xray, hysteria, chain, disk, fire, told
<1>3. CASE ChainStops
  BY <1>3 DEF ChainStops, InChain, PairInv, Blocks, HasLegs, outcome, xray,
         hysteria, chain, disk, fire, told
<1>4. CASE ChainKeeps
  BY <1>4 DEF ChainKeeps, InChain, Unchanged, PairInv, Blocks, HasLegs,
         outcome, xray, hysteria, chain, disk, fire, told
<1>5. CASE ChainRefuses
  BY <1>5 DEF ChainRefuses, InChain, Unchanged, Spends, PairInv, Blocks,
         HasLegs, outcome, xray, hysteria, chain, disk, fire, told
<1>6. CASE ChainAccepts
  BY <1>6 DEF ChainAccepts, InChain, Unchanged, PairInv, Blocks, HasLegs,
         outcome, xray, hysteria, chain, disk, fire, told
<1>7. CASE ChainStarts
  BY <1>7 DEF ChainStarts, PairInv, Blocks, HasLegs, outcome, xray, hysteria,
         chain, disk, fire, told
<1>8. CASE ChainStartFails
  BY <1>8 DEF ChainStartFails, Spends, PairInv, Blocks, HasLegs, outcome,
         xray, hysteria, chain, disk, fire, told
<1>9. CASE ChainDies
  BY <1>9 DEF ChainDies, Spends, PairInv, Blocks, HasLegs, outcome, xray,
         hysteria, chain, disk, fire, told
<1>10. CASE Settle
  BY <1>10 DEF Settle, Handoff, PairInv, Blocks, HasLegs, outcome, xray,
         hysteria, chain, disk, fire, told
<1>11. ASSUME NEW r \in Results, XCascade(r)
      PROVE  Blocks'
  BY <1>11 DEF XCascade, Drawing, XRenders, Unsaid, Costs, Spends, PairInv,
         Blocks, HasLegs, outcome, xray, hysteria, chain, disk, fire, told
<1>12. ASSUME NEW r \in Results, HCascade(r)
      PROVE  Blocks'
  BY <1>12 DEF HCascade, Drawing, HRenders, Unsaid, Costs, Spends, PairInv,
         Blocks, HasLegs, outcome, xray, hysteria, chain, disk, fire, told
<1>13. CASE IdleUnnamed
  BY <1>13 DEF IdleUnnamed, PairInv, Blocks, HasLegs, outcome, xray, hysteria,
         chain, disk, fire, told
<1>14. ASSUME NEW r \in Results, XIdles(r)
      PROVE  Blocks'
  BY <1>14 DEF XIdles, XRenders, Unsaid, Costs, Spends, PairInv, Blocks,
         HasLegs, outcome, xray, hysteria, chain, disk, fire, told
<1>15. ASSUME NEW r \in Results, HIdles(r)
      PROVE  Blocks'
  BY <1>15 DEF HIdles, Unsaid, Costs, Spends, PairInv, Blocks, HasLegs,
         outcome, xray, hysteria, chain, disk, fire, told
<1>16. CASE InboundsBegin
  BY <1>16 DEF InboundsBegin, Inbounds, PairInv, Blocks, HasLegs, outcome,
         xray, hysteria, chain, disk, fire, told
<1>17. ASSUME NEW r \in Results, HApplies(r)
      PROVE  Blocks'
  BY <1>17 DEF HApplies, Refuses, HRenders, Said, Costs, Spends, PairInv, Blocks,
         HasLegs, outcome, xray, hysteria, chain, disk, fire, told
<1>18. ASSUME NEW r \in Results, XRetains(r)
      PROVE  Blocks'
  BY <1>18 DEF XRetains, XRenders, Unsaid, Costs, Spends, PairInv, Blocks,
         HasLegs, outcome, xray, hysteria, chain, disk, fire, told
<1>19. ASSUME NEW i \in XrayIds, NEW r \in Results, XApplies(i, r)
      PROVE  Blocks'
  BY <1>19 DEF XApplies, Refuses, XRenders, Said, Costs, Spends, PairInv, Blocks,
         HasLegs, outcome, xray, hysteria, chain, disk, fire, told
<1>20. CASE PersistAccepted
  BY <1>20 DEF PersistAccepted, PairInv, Blocks, HasLegs, AcceptedPush,
         AcceptedChain, InForce, Handoff, Settled, outcome, xray, hysteria,
         chain, disk, fire, told
<1>21. CASE PersistFails
  BY <1>21, EmptyChain DEF PersistFails, Ends, Spends, PairInv, Blocks,
         HasLegs, outcome, xray, hysteria, chain, disk, fire, told
<1>22. CASE CloseDroppedPorts
  BY <1>22, EmptyChain DEF CloseDroppedPorts, Ends, PairInv, Blocks, HasLegs,
         outcome, xray, hysteria, chain, disk, fire, told
<1>23. CASE Crash
  BY <1>23, EmptyChain DEF Crash, Ends, Spends, PairInv, Blocks, HasLegs,
         outcome, xray, hysteria, chain, disk, fire, told
<1>24. CASE Boot
  BY <1>24 DEF Boot, Begins, PairInv, Blocks, HasLegs, outcome, xray,
         hysteria, chain, disk, fire, told
<1>25. CASE RestoreEnds
  BY <1>25, EmptyChain DEF RestoreEnds, Ends, PairInv, Blocks, HasLegs,
         outcome, xray, hysteria, chain, disk, fire, told
<1>26. CASE UNCHANGED vars
  BY <1>26 DEF vars, PairInv, Blocks, HasLegs, outcome, xray, hysteria, chain,
         disk, fire, told
<1>. QED  BY <1>1, <1>2, <1>3, <1>4, <1>5, <1>6, <1>7, <1>8, <1>9, <1>10,
         <1>11, <1>12, <1>13, <1>14, <1>15, <1>16, <1>17, <1>18, <1>19, <1>20,
         <1>21, <1>22, <1>23, <1>24, <1>25, <1>26 DEF Next

\* The block in force is the pushed one, unless refused.
LEMMA InForceStep ==
  ASSUME TypeOK, WallInv, ChainInv, PairInv, [Next]_vars
  PROVE  InForce'
<1> USE XrayIdsAssumption DEF None
<1>r. Results \subseteq {"ok", "refused", "failed"}
  BY FailuresAssumption DEF Results
<1>1. ASSUME NEW p \in Pushes, Receive(p)
      PROVE  InForce'
  BY <1>1 DEF Receive, Begins, PairInv, InForce, ChainInv, HandoffIsForce,
         Settled, Handoff, Cores, outcome, xray, hysteria, chain, disk, fire,
         told
<1>2. ASSUME NEW b \in NodeBlocks, NEW r \in Results, ApplyBlock(b, r)
      PROVE  InForce'
  BY <1>2 DEF ApplyBlock, XRenders, Said, Costs, Spends, PairInv, InForce,
         ChainInv, HandoffIsForce, Settled, Handoff, Cores, outcome, xray,
         hysteria, chain, disk, fire, told
<1>3. CASE ChainStops
  BY <1>3 DEF ChainStops, InChain, PairInv, InForce, ChainInv, HandoffIsForce,
         Settled, Handoff, Cores, outcome, xray, hysteria, chain, disk, fire,
         told
<1>4. CASE ChainKeeps
  BY <1>4 DEF ChainKeeps, InChain, Unchanged, PairInv, InForce, ChainInv,
         HandoffIsForce, Settled, Handoff, Cores, outcome, xray, hysteria,
         chain, disk, fire, told
<1>5. CASE ChainRefuses
  BY <1>5 DEF ChainRefuses, InChain, Unchanged, Spends, PairInv, InForce,
         ChainInv, HandoffIsForce, Settled, Handoff, Cores, outcome, xray,
         hysteria, chain, disk, fire, told
<1>6. CASE ChainAccepts
  BY <1>6 DEF ChainAccepts, InChain, Unchanged, PairInv, InForce, ChainInv,
         HandoffIsForce, Settled, Handoff, Cores, outcome, xray, hysteria,
         chain, disk, fire, told
<1>7. CASE ChainStarts
  BY <1>7 DEF ChainStarts, PairInv, InForce, ChainInv, HandoffIsForce,
         Settled, Handoff, Cores, outcome, xray, hysteria, chain, disk, fire,
         told
<1>8. CASE ChainStartFails
  BY <1>8 DEF ChainStartFails, Spends, PairInv, InForce, ChainInv,
         HandoffIsForce, Settled, Handoff, Cores, outcome, xray, hysteria,
         chain, disk, fire, told
<1>9. CASE ChainDies
  BY <1>9 DEF ChainDies, Spends, PairInv, InForce, ChainInv, HandoffIsForce,
         Settled, Handoff, Cores, outcome, xray, hysteria, chain, disk, fire,
         told
<1>10. CASE Settle
  BY <1>10 DEF Settle, Handoff, PairInv, InForce, ChainInv, HandoffIsForce,
         Settled, Cores, outcome, xray, hysteria, chain, disk, fire, told
<1>11. ASSUME NEW r \in Results, XCascade(r)
      PROVE  InForce'
  BY <1>11 DEF XCascade, Drawing, XRenders, Unsaid, Costs, Spends, PairInv,
         InForce, ChainInv, HandoffIsForce, Settled, Handoff, Cores, outcome,
         xray, hysteria, chain, disk, fire, told
<1>12. ASSUME NEW r \in Results, HCascade(r)
      PROVE  InForce'
  BY <1>12 DEF HCascade, Drawing, HRenders, Unsaid, Costs, Spends, PairInv,
         InForce, ChainInv, HandoffIsForce, Settled, Handoff, Cores, outcome,
         xray, hysteria, chain, disk, fire, told
<1>13. CASE IdleUnnamed
  BY <1>13 DEF IdleUnnamed, PairInv, InForce, ChainInv, HandoffIsForce,
         Settled, Handoff, Cores, outcome, xray, hysteria, chain, disk, fire,
         told
<1>14. ASSUME NEW r \in Results, XIdles(r)
      PROVE  InForce'
  BY <1>14 DEF XIdles, XRenders, Unsaid, Costs, Spends, PairInv, InForce,
         ChainInv, HandoffIsForce, Settled, Handoff, Cores, outcome, xray,
         hysteria, chain, disk, fire, told
<1>15. ASSUME NEW r \in Results, HIdles(r)
      PROVE  InForce'
  BY <1>15 DEF HIdles, Unsaid, Costs, Spends, PairInv, InForce, ChainInv,
         HandoffIsForce, Settled, Handoff, Cores, outcome, xray, hysteria,
         chain, disk, fire, told
<1>16. CASE InboundsBegin
  BY <1>16 DEF InboundsBegin, Inbounds, PairInv, InForce, ChainInv,
         HandoffIsForce, Settled, Handoff, Cores, outcome, xray, hysteria,
         chain, disk, fire, told
<1>17. ASSUME NEW r \in Results, HApplies(r)
      PROVE  InForce'
  BY <1>17 DEF HApplies, Refuses, HRenders, Said, Costs, Spends, PairInv, InForce,
         ChainInv, HandoffIsForce, Settled, Handoff, Cores, outcome, xray,
         hysteria, chain, disk, fire, told
<1>18. ASSUME NEW r \in Results, XRetains(r)
      PROVE  InForce'
  BY <1>18 DEF XRetains, XRenders, Unsaid, Costs, Spends, PairInv, InForce,
         ChainInv, HandoffIsForce, Settled, Handoff, Cores, outcome, xray,
         hysteria, chain, disk, fire, told
<1>19. ASSUME NEW i \in XrayIds, NEW r \in Results, XApplies(i, r)
      PROVE  InForce'
  BY <1>19 DEF XApplies, Refuses, XRenders, Said, Costs, Spends, PairInv, InForce,
         ChainInv, HandoffIsForce, Settled, Handoff, Cores, outcome, xray,
         hysteria, chain, disk, fire, told
<1>20. CASE PersistAccepted
  BY <1>20 DEF PersistAccepted, PairInv, InForce, ChainInv, HandoffIsForce,
         Settled, Handoff, Cores, outcome, xray, hysteria, chain, disk, fire,
         told
<1>21. CASE PersistFails
  BY <1>21 DEF PersistFails, Ends, Spends, PairInv, InForce, ChainInv,
         HandoffIsForce, Settled, Handoff, Cores, outcome, xray, hysteria,
         chain, disk, fire, told
<1>22. CASE CloseDroppedPorts
  BY <1>22 DEF CloseDroppedPorts, Ends, PairInv, InForce, ChainInv,
         HandoffIsForce, Settled, Handoff, Cores, outcome, xray, hysteria,
         chain, disk, fire, told
<1>23. CASE Crash
  BY <1>23 DEF Crash, Ends, Spends, PairInv, InForce, ChainInv,
         HandoffIsForce, Settled, Handoff, Cores, outcome, xray, hysteria,
         chain, disk, fire, told
<1>24. CASE Boot
  BY <1>24 DEF Boot, Begins, PairInv, InForce, ChainInv, HandoffIsForce,
         Settled, Handoff, Cores, outcome, xray, hysteria, chain, disk, fire,
         told
<1>25. CASE RestoreEnds
  BY <1>25 DEF RestoreEnds, Ends, PairInv, InForce, ChainInv, HandoffIsForce,
         Settled, Handoff, Cores, outcome, xray, hysteria, chain, disk, fire,
         told
<1>26. CASE UNCHANGED vars
  BY <1>26 DEF vars, PairInv, InForce, ChainInv, HandoffIsForce, Settled,
         Handoff, Cores, outcome, xray, hysteria, chain, disk, fire, told
<1>. QED  BY <1>1, <1>2, <1>3, <1>4, <1>5, <1>6, <1>7, <1>8, <1>9, <1>10,
         <1>11, <1>12, <1>13, <1>14, <1>15, <1>16, <1>17, <1>18, <1>19, <1>20,
         <1>21, <1>22, <1>23, <1>24, <1>25, <1>26 DEF Next

\* The stored legs are those of the block in force.
LEMMA LegsStoredStep ==
  ASSUME TypeOK, WallInv, ChainInv, PairInv, [Next]_vars
  PROVE  LegsStored'
<1> USE XrayIdsAssumption DEF None
<1>r. Results \subseteq {"ok", "refused", "failed"}
  BY FailuresAssumption DEF Results
<1>1. ASSUME NEW p \in Pushes, Receive(p)
      PROVE  LegsStored'
  BY <1>1 DEF Receive, Begins, PairInv, InForce, LegsStored, Blocks, HasLegs,
         ChainInv, HandoffIsForce, Settled, Handoff, WallInv, RestoresStore,
         outcome, xray, hysteria, chain, disk, fire, told
<1>2. ASSUME NEW b \in NodeBlocks, NEW r \in Results, ApplyBlock(b, r)
      PROVE  LegsStored'
  BY <1>2 DEF ApplyBlock, XRenders, Said, Costs, Spends, PairInv, InForce,
         LegsStored, Blocks, HasLegs, ChainInv, HandoffIsForce, Settled,
         Handoff, WallInv, RestoresStore, outcome, xray, hysteria, chain,
         disk, fire, told
<1>3. CASE ChainStops
  BY <1>3 DEF ChainStops, InChain, PairInv, InForce, LegsStored, Blocks,
         HasLegs, ChainInv, HandoffIsForce, Settled, Handoff, WallInv,
         RestoresStore, outcome, xray, hysteria, chain, disk, fire, told
<1>4. CASE ChainKeeps
  BY <1>4 DEF ChainKeeps, InChain, Unchanged, PairInv, InForce, LegsStored,
         Blocks, HasLegs, ChainInv, HandoffIsForce, Settled, Handoff, WallInv,
         RestoresStore, outcome, xray, hysteria, chain, disk, fire, told
<1>5. CASE ChainRefuses
  BY <1>5 DEF ChainRefuses, InChain, Unchanged, Spends, PairInv, InForce,
         LegsStored, Blocks, HasLegs, ChainInv, HandoffIsForce, Settled,
         Handoff, WallInv, RestoresStore, outcome, xray, hysteria, chain,
         disk, fire, told
<1>6. CASE ChainAccepts
  BY <1>6 DEF ChainAccepts, InChain, Unchanged, PairInv, InForce, LegsStored,
         Blocks, HasLegs, ChainInv, HandoffIsForce, Settled, Handoff, WallInv,
         RestoresStore, outcome, xray, hysteria, chain, disk, fire, told
<1>7. CASE ChainStarts
  BY <1>7 DEF ChainStarts, PairInv, InForce, LegsStored, Blocks, HasLegs,
         ChainInv, HandoffIsForce, Settled, Handoff, WallInv, RestoresStore,
         outcome, xray, hysteria, chain, disk, fire, told
<1>8. CASE ChainStartFails
  BY <1>8 DEF ChainStartFails, Spends, PairInv, InForce, LegsStored, Blocks,
         HasLegs, ChainInv, HandoffIsForce, Settled, Handoff, WallInv,
         RestoresStore, outcome, xray, hysteria, chain, disk, fire, told
<1>9. CASE ChainDies
  BY <1>9 DEF ChainDies, Spends, PairInv, InForce, LegsStored, Blocks,
         HasLegs, ChainInv, HandoffIsForce, Settled, Handoff, WallInv,
         RestoresStore, outcome, xray, hysteria, chain, disk, fire, told
<1>10. CASE Settle
  BY <1>10 DEF Settle, Handoff, PairInv, InForce, LegsStored, Blocks, HasLegs,
         ChainInv, HandoffIsForce, Settled, WallInv, RestoresStore, outcome,
         xray, hysteria, chain, disk, fire, told
<1>11. ASSUME NEW r \in Results, XCascade(r)
      PROVE  LegsStored'
  BY <1>11 DEF XCascade, Drawing, XRenders, Unsaid, Costs, Spends, PairInv,
         InForce, LegsStored, Blocks, HasLegs, ChainInv, HandoffIsForce,
         Settled, Handoff, WallInv, RestoresStore, outcome, xray, hysteria,
         chain, disk, fire, told
<1>12. ASSUME NEW r \in Results, HCascade(r)
      PROVE  LegsStored'
  BY <1>12 DEF HCascade, Drawing, HRenders, Unsaid, Costs, Spends, PairInv,
         InForce, LegsStored, Blocks, HasLegs, ChainInv, HandoffIsForce,
         Settled, Handoff, WallInv, RestoresStore, outcome, xray, hysteria,
         chain, disk, fire, told
<1>13. CASE IdleUnnamed
  BY <1>13 DEF IdleUnnamed, PairInv, InForce, LegsStored, Blocks, HasLegs,
         ChainInv, HandoffIsForce, Settled, Handoff, WallInv, RestoresStore,
         outcome, xray, hysteria, chain, disk, fire, told
<1>14. ASSUME NEW r \in Results, XIdles(r)
      PROVE  LegsStored'
  BY <1>14 DEF XIdles, XRenders, Unsaid, Costs, Spends, PairInv, InForce,
         LegsStored, Blocks, HasLegs, ChainInv, HandoffIsForce, Settled,
         Handoff, WallInv, RestoresStore, outcome, xray, hysteria, chain,
         disk, fire, told
<1>15. ASSUME NEW r \in Results, HIdles(r)
      PROVE  LegsStored'
  BY <1>15 DEF HIdles, Unsaid, Costs, Spends, PairInv, InForce, LegsStored,
         Blocks, HasLegs, ChainInv, HandoffIsForce, Settled, Handoff, WallInv,
         RestoresStore, outcome, xray, hysteria, chain, disk, fire, told
<1>16. CASE InboundsBegin
  BY <1>16 DEF InboundsBegin, Inbounds, PairInv, InForce, LegsStored, Blocks,
         HasLegs, ChainInv, HandoffIsForce, Settled, Handoff, WallInv,
         RestoresStore, outcome, xray, hysteria, chain, disk, fire, told
<1>17. ASSUME NEW r \in Results, HApplies(r)
      PROVE  LegsStored'
  BY <1>17 DEF HApplies, Refuses, HRenders, Said, Costs, Spends, PairInv, InForce,
         LegsStored, Blocks, HasLegs, ChainInv, HandoffIsForce, Settled,
         Handoff, WallInv, RestoresStore, outcome, xray, hysteria, chain,
         disk, fire, told
<1>18. ASSUME NEW r \in Results, XRetains(r)
      PROVE  LegsStored'
  BY <1>18 DEF XRetains, XRenders, Unsaid, Costs, Spends, PairInv, InForce,
         LegsStored, Blocks, HasLegs, ChainInv, HandoffIsForce, Settled,
         Handoff, WallInv, RestoresStore, outcome, xray, hysteria, chain,
         disk, fire, told
<1>19. ASSUME NEW i \in XrayIds, NEW r \in Results, XApplies(i, r)
      PROVE  LegsStored'
  BY <1>19 DEF XApplies, Refuses, XRenders, Said, Costs, Spends, PairInv, InForce,
         LegsStored, Blocks, HasLegs, ChainInv, HandoffIsForce, Settled,
         Handoff, WallInv, RestoresStore, outcome, xray, hysteria, chain,
         disk, fire, told
<1>20. CASE PersistAccepted
  BY <1>20 DEF PersistAccepted, PairInv, InForce, LegsStored, Blocks, HasLegs,
         ChainInv, HandoffIsForce, Settled, Handoff, WallInv, RestoresStore,
         AcceptedPush, AcceptedChain, NoChain, outcome, xray, hysteria, chain,
         disk, fire, told
<1>21. CASE PersistFails
  BY <1>21 DEF PersistFails, Ends, Spends, PairInv, InForce, LegsStored,
         Blocks, HasLegs, ChainInv, HandoffIsForce, Settled, Handoff, WallInv,
         RestoresStore, outcome, xray, hysteria, chain, disk, fire, told
<1>22. CASE CloseDroppedPorts
  BY <1>22 DEF CloseDroppedPorts, Ends, PairInv, InForce, LegsStored, Blocks,
         HasLegs, ChainInv, HandoffIsForce, Settled, Handoff, WallInv,
         RestoresStore, outcome, xray, hysteria, chain, disk, fire, told
<1>23. CASE Crash
  BY <1>23 DEF Crash, Ends, Spends, PairInv, InForce, LegsStored, Blocks,
         HasLegs, ChainInv, HandoffIsForce, Settled, Handoff, WallInv,
         RestoresStore, outcome, xray, hysteria, chain, disk, fire, told
<1>24. CASE Boot
  <2>1. phase = "down" /\ UNCHANGED <<accepted, held, store>>
    BY <1>24 DEF Boot, chain, disk
  <2>2. accepted = NoChain /\ held = FALSE
    BY <2>1 DEF ChainInv, HandoffIsForce, TypeOK
  <2>3. phase' = "idle" /\ "chain" \notin behind' => store.chain = NoChain
    BY <1>24, EmptyChain DEF Boot, Begins
  <2>4. phase' \in {"idle", "blocks"}
    BY <1>24 DEF Boot, Begins
  <2>. QED  BY <2>1, <2>2, <2>3, <2>4 DEF LegsStored

<1>25. CASE RestoreEnds
  BY <1>25 DEF RestoreEnds, Ends, PairInv, InForce, LegsStored, Blocks,
         HasLegs, ChainInv, HandoffIsForce, Settled, Handoff, WallInv,
         RestoresStore, outcome, xray, hysteria, chain, disk, fire, told
<1>26. CASE UNCHANGED vars
  BY <1>26 DEF vars, PairInv, InForce, LegsStored, Blocks, HasLegs, ChainInv,
         HandoffIsForce, Settled, Handoff, WallInv, RestoresStore, outcome,
         xray, hysteria, chain, disk, fire, told
<1>. QED  BY <1>1, <1>2, <1>3, <1>4, <1>5, <1>6, <1>7, <1>8, <1>9, <1>10,
         <1>11, <1>12, <1>13, <1>14, <1>15, <1>16, <1>17, <1>18, <1>19, <1>20,
         <1>21, <1>22, <1>23, <1>24, <1>25, <1>26 DEF Next

\* A core keeps the stored drawing until it has another.
LEMMA PairKeptStep ==
  ASSUME TypeOK, WallInv, ChainInv, PairInv, [Next]_vars
  PROVE  PairKept'
<1> USE XrayIdsAssumption DEF None
<1>r. Results \subseteq {"ok", "refused", "failed"}
  BY FailuresAssumption DEF Results
<1>1. ASSUME NEW p \in Pushes, Receive(p)
      PROVE  PairKept'
  BY <1>1 DEF Receive, Begins, PairInv, InForce, PairKept, Hand, ChainInv,
         Drawn, HandoffIsForce, Settled, Handoff, Cores, WallInv,
         RestoresStore, Drawing, outcome, xray, hysteria, chain, disk, fire,
         told
<1>2. ASSUME NEW b \in NodeBlocks, NEW r \in Results, ApplyBlock(b, r)
      PROVE  PairKept'
  BY <1>2 DEF ApplyBlock, XRenders, Said, Costs, Spends, PairInv, InForce,
         PairKept, Hand, ChainInv, Drawn, HandoffIsForce, Settled, Handoff,
         Cores, WallInv, RestoresStore, Drawing, outcome, xray, hysteria,
         chain, disk, fire, told
<1>3. CASE ChainStops
  BY <1>3 DEF ChainStops, InChain, PairInv, InForce, PairKept, Hand, ChainInv,
         Drawn, HandoffIsForce, Settled, Handoff, Cores, WallInv,
         RestoresStore, Drawing, outcome, xray, hysteria, chain, disk, fire,
         told
<1>4. CASE ChainKeeps
  BY <1>4 DEF ChainKeeps, InChain, Unchanged, PairInv, InForce, PairKept,
         Hand, ChainInv, Drawn, HandoffIsForce, Settled, Handoff, Cores,
         WallInv, RestoresStore, Drawing, outcome, xray, hysteria, chain,
         disk, fire, told
<1>5. CASE ChainRefuses
  BY <1>5 DEF ChainRefuses, InChain, Unchanged, Spends, PairInv, InForce,
         PairKept, Hand, ChainInv, Drawn, HandoffIsForce, Settled, Handoff,
         Cores, WallInv, RestoresStore, Drawing, outcome, xray, hysteria,
         chain, disk, fire, told
<1>6. CASE ChainAccepts
  BY <1>6 DEF ChainAccepts, InChain, Unchanged, PairInv, InForce, PairKept,
         Hand, ChainInv, Drawn, HandoffIsForce, Settled, Handoff, Cores,
         WallInv, RestoresStore, Drawing, outcome, xray, hysteria, chain,
         disk, fire, told
<1>7. CASE ChainStarts
  BY <1>7 DEF ChainStarts, PairInv, InForce, PairKept, Hand, ChainInv, Drawn,
         HandoffIsForce, Settled, Handoff, Cores, WallInv, RestoresStore,
         Drawing, outcome, xray, hysteria, chain, disk, fire, told
<1>8. CASE ChainStartFails
  BY <1>8 DEF ChainStartFails, Spends, PairInv, InForce, PairKept, Hand,
         ChainInv, Drawn, HandoffIsForce, Settled, Handoff, Cores, WallInv,
         RestoresStore, Drawing, outcome, xray, hysteria, chain, disk, fire,
         told
<1>9. CASE ChainDies
  BY <1>9 DEF ChainDies, Spends, PairInv, InForce, PairKept, Hand, ChainInv,
         Drawn, HandoffIsForce, Settled, Handoff, Cores, WallInv,
         RestoresStore, Drawing, outcome, xray, hysteria, chain, disk, fire,
         told
<1>10. CASE Settle
  BY <1>10 DEF Settle, Handoff, PairInv, InForce, PairKept, Hand, ChainInv,
         Drawn, HandoffIsForce, Settled, Cores, WallInv, RestoresStore,
         Drawing, outcome, xray, hysteria, chain, disk, fire, told
<1>11. ASSUME NEW r \in Results, XCascade(r)
      PROVE  PairKept'
  BY <1>11 DEF XCascade, Drawing, XRenders, Unsaid, Costs, Spends, PairInv,
         InForce, PairKept, Hand, ChainInv, Drawn, HandoffIsForce, Settled,
         Handoff, Cores, WallInv, RestoresStore, outcome, xray, hysteria,
         chain, disk, fire, told
<1>12. ASSUME NEW r \in Results, HCascade(r)
      PROVE  PairKept'
  BY <1>12 DEF HCascade, Drawing, HRenders, Unsaid, Costs, Spends, PairInv,
         InForce, PairKept, Hand, ChainInv, Drawn, HandoffIsForce, Settled,
         Handoff, Cores, WallInv, RestoresStore, outcome, xray, hysteria,
         chain, disk, fire, told
<1>13. CASE IdleUnnamed
  BY <1>13 DEF IdleUnnamed, PairInv, InForce, PairKept, Hand, ChainInv, Drawn,
         HandoffIsForce, Settled, Handoff, Cores, WallInv, RestoresStore,
         Drawing, outcome, xray, hysteria, chain, disk, fire, told
<1>14. ASSUME NEW r \in Results, XIdles(r)
      PROVE  PairKept'
  BY <1>14 DEF XIdles, XRenders, Unsaid, Costs, Spends, PairInv, InForce,
         PairKept, Hand, ChainInv, Drawn, HandoffIsForce, Settled, Handoff,
         Cores, WallInv, RestoresStore, Drawing, outcome, xray, hysteria,
         chain, disk, fire, told
<1>15. ASSUME NEW r \in Results, HIdles(r)
      PROVE  PairKept'
  BY <1>15 DEF HIdles, Unsaid, Costs, Spends, PairInv, InForce, PairKept,
         Hand, ChainInv, Drawn, HandoffIsForce, Settled, Handoff, Cores,
         WallInv, RestoresStore, Drawing, outcome, xray, hysteria, chain,
         disk, fire, told
<1>16. CASE InboundsBegin
  BY <1>16 DEF InboundsBegin, Inbounds, PairInv, InForce, PairKept, Hand,
         ChainInv, Drawn, HandoffIsForce, Settled, Handoff, Cores, WallInv,
         RestoresStore, Drawing, outcome, xray, hysteria, chain, disk, fire,
         told
<1>17. ASSUME NEW r \in Results, HApplies(r)
      PROVE  PairKept'
  BY <1>17 DEF HApplies, Refuses, HRenders, Said, Costs, Spends, PairInv, InForce,
         PairKept, Hand, ChainInv, Drawn, HandoffIsForce, Settled, Handoff,
         Cores, WallInv, RestoresStore, Drawing, outcome, xray, hysteria,
         chain, disk, fire, told
<1>18. ASSUME NEW r \in Results, XRetains(r)
      PROVE  PairKept'
  BY <1>18 DEF XRetains, XRenders, Unsaid, Costs, Spends, PairInv, InForce,
         PairKept, Hand, ChainInv, Drawn, HandoffIsForce, Settled, Handoff,
         Cores, WallInv, RestoresStore, Drawing, outcome, xray, hysteria,
         chain, disk, fire, told
<1>19. ASSUME NEW i \in XrayIds, NEW r \in Results, XApplies(i, r)
      PROVE  PairKept'
  BY <1>19 DEF XApplies, Refuses, XRenders, Said, Costs, Spends, PairInv, InForce,
         PairKept, Hand, ChainInv, Drawn, HandoffIsForce, Settled, Handoff,
         Cores, WallInv, RestoresStore, Drawing, outcome, xray, hysteria,
         chain, disk, fire, told
<1>20. CASE PersistAccepted
  <2>1. /\ phase = "persist" /\ ~ boot /\ phase' = "close" /\ store'.chain = AcceptedChain
        /\ UNCHANGED <<boot, xLeg, hHand, xFromNode, behind, ucRefused>>
    BY <1>20 DEF PersistAccepted, AcceptedPush, outcome, xray, hysteria, told
  <2>2. SUFFICES ASSUME "chain" \notin behind, NEW c \in Cores \ behind,
                        AcceptedChain.to = c
                 PROVE  Hand(c) = AcceptedChain.v /\ (c = "xray" => xFromNode)
    BY <2>1 DEF PairKept, Hand
  <2>3. CASE AcceptedChain = handoff /\ held
    <3>1. ~ ucRefused /\ Drawing(c) = handoff.v
      BY <2>1, <2>2, <2>3 DEF ChainInv, HandoffIsForce, Settled, Cores, Drawing
    <3>. QED  BY <2>1, <2>2, <2>3, <3>1 DEF ChainInv, Drawn, Settled
  <2>4. CASE ~ chainRefused /\ ucRefused /\ req.chain # NoChain
    BY <2>1, <2>2, <2>4 DEF PairInv, PairKept, Settled, AcceptedChain
  <2>5. CASE ~ chainRefused /\ ~ (ucRefused /\ req.chain # NoChain)
    <3>1. AcceptedChain = req.chain /\ req.chain # NoChain
      BY <2>2, <2>5, EmptyChain DEF AcceptedChain
    <3>2. held /\ handoff = req.chain
      BY <2>1, <2>5, <3>1 DEF PairInv, InForce, Settled, Handoff
    <3>. QED  BY <2>3, <3>1, <3>2
  <2>6. CASE chainRefused
    BY <2>1, <2>3, <2>6 DEF AcceptedChain, PairInv, InForce, Settled
  <2>. QED  BY <2>4, <2>5, <2>6

<1>21. CASE PersistFails
  BY <1>21 DEF PersistFails, Ends, Spends, PairInv, InForce, PairKept, Hand,
         ChainInv, Drawn, HandoffIsForce, Settled, Handoff, Cores, WallInv,
         RestoresStore, Drawing, outcome, xray, hysteria, chain, disk, fire,
         told
<1>22. CASE CloseDroppedPorts
  BY <1>22 DEF CloseDroppedPorts, Ends, PairInv, InForce, PairKept, Hand,
         ChainInv, Drawn, HandoffIsForce, Settled, Handoff, Cores, WallInv,
         RestoresStore, Drawing, outcome, xray, hysteria, chain, disk, fire,
         told
<1>23. CASE Crash
  BY <1>23 DEF Crash, Ends, Spends, PairInv, InForce, PairKept, Hand,
         ChainInv, Drawn, HandoffIsForce, Settled, Handoff, Cores, WallInv,
         RestoresStore, Drawing, outcome, xray, hysteria, chain, disk, fire,
         told
<1>24. CASE Boot
  BY <1>24 DEF Boot, Begins, PairInv, InForce, PairKept, Hand, ChainInv,
         Drawn, HandoffIsForce, Settled, Handoff, Cores, WallInv,
         RestoresStore, Drawing, EmptyPush, NoChain, outcome, xray, hysteria,
         chain, disk, fire, told
<1>25. CASE RestoreEnds
  <2>1. /\ phase = "persist" /\ boot /\ phase' = "idle"
        /\ UNCHANGED <<xLeg, hHand, xFromNode, behind, store>>
    BY <1>25 DEF RestoreEnds, xray, hysteria, told
  <2>2. SUFFICES ASSUME "chain" \notin behind, NEW c \in Cores \ behind,
                        store.chain.to = c
                 PROVE  Hand(c) = store.chain.v /\ (c = "xray" => xFromNode)
    BY <2>1 DEF PairKept, Hand
  <2>3. req = store /\ req.chain # NoChain
    BY <2>1, <2>2, EmptyChain DEF WallInv, RestoresStore
  <2>4. held /\ handoff = req.chain
    BY <2>1, <2>2, <2>3 DEF PairInv, InForce, Settled, Handoff
  <2>5. ~ ucRefused /\ Drawing(c) = handoff.v
    BY <2>1, <2>2, <2>3, <2>4 DEF ChainInv, HandoffIsForce, Settled, Cores, Drawing
  <2>. QED  BY <2>1, <2>2, <2>3, <2>4, <2>5 DEF ChainInv, Drawn, Settled

<1>26. CASE UNCHANGED vars
  BY <1>26 DEF vars, PairInv, InForce, PairKept, Hand, ChainInv, Drawn,
         HandoffIsForce, Settled, Handoff, Cores, WallInv, RestoresStore,
         Drawing, outcome, xray, hysteria, chain, disk, fire, told
<1>. QED  BY <1>1, <1>2, <1>3, <1>4, <1>5, <1>6, <1>7, <1>8, <1>9, <1>10,
         <1>11, <1>12, <1>13, <1>14, <1>15, <1>16, <1>17, <1>18, <1>19, <1>20,
         <1>21, <1>22, <1>23, <1>24, <1>25, <1>26 DEF Next

LEMMA InitPair == Init => PairInv
  BY EmptyChain DEF Init, PairInv, Blocks, HasLegs, InForce, LegsStored, PairKept,
     Settled

LEMMA PairStep ==
  TypeOK /\ WallInv /\ ChainInv /\ PairInv /\ [Next]_vars => PairInv'
<1> SUFFICES ASSUME TypeOK, WallInv, ChainInv, PairInv, [Next]_vars PROVE PairInv'
  OBVIOUS
<1>. QED
  BY BlocksStep, InForceStep, LegsStoredStep, PairKeptStep DEF PairInv

\* A restart puts the chain and the cores back together as they were: the
\* stored block has the legs in force and the hand-off the cores draw
\* (acceptedPush, the three chain cases).
THEOREM StoreKeepsThePair == Spec => []StoredPair
<1>1. WallInv /\ PairInv => StoredPair
  BY DEF StoredPair, WallInv, RestoresStore, PairInv, LegsStored, PairKept, Idle
<1>2. Init => ChainInv /\ PairInv
  BY InitChain, InitPair
<1>3. TypeOK /\ WallInv /\ ChainInv /\ PairInv /\ [Next]_vars => (ChainInv /\ PairInv)'
  BY ChainStep, PairStep
<1>. QED  BY <1>1, <1>2, <1>3, WallAlways, PTL DEF Spec


-----------------------------------------------------------------------------
\* ---- an answered push ----

Late == {"inbounds", "persist", "close"}

\* What a push does not carry has left xray's memory when the push is stored.
GoneIsForgotten ==
  phase \in {"persist", "close"} => \A i \in XrayIds : req.x[i] = None => xIb[i] = None

\* Between the store and the answer memory holds what was taken of the push.
AnsweredMemory ==
  phase = "close" =>
    /\ "xray" \notin behind => \A i \in XrayIds : XTaken(i) => xIb[i] = req.x[i]
    /\ "hysteria" \notin behind /\ HTaken => hIb = req.h
    /\ "xray" \notin behind /\ polRefused = {} => xPol = req.pol

\* With no chain pushed, the legacy drawing is xray's, and an old one is gone
\* once an inbound was applied.
LegacyDrawn ==
  /\ /\ phase \in Settled /\ ~ held /\ "xray" \notin behind
     /\ ~ (phase = "cascade" /\ "xray" \in todo)
     => /\ req.leg # None => xFromNode /\ xLeg = req.leg
        /\ req.leg = None => ~ xFromNode
  /\ phase \in Late /\ ~ held /\ "xray" \notin behind /\ req.leg = None =>
       \A i \in XrayIds : XTaken(i) => xLeg = None
  /\ /\ phase \in Settled /\ ~ held /\ "hysteria" \notin behind
     /\ ~ (phase = "cascade" /\ "hysteria" \in todo)
     => hHand = None

\* An idled unit is down, and the unit of a push that does not name it is.
IdledIsDown ==
  /\ phase = "down" => ~ hIdled
  /\ hIdled /\ "hysteria" \notin behind => hRun = Down /\ hIb = None
UnnamedIsDown ==
  /\ phase \in Late \cup {"unnamed"} /\ "hysteria" \notin behind \cup todo
  /\ ~ chainRefused /\ ~ ucRefused /\ ~ Named("hysteria")
  => hRun = Down

AnswerInv ==
  GoneIsForgotten /\ AnsweredMemory /\ LegacyDrawn /\ IdledIsDown /\ UnnamedIsDown

\* The steps after which a push is being drawn, applied or stored.
DrawnSteps ==
  \/ Settle \/ IdleUnnamed \/ InboundsBegin \/ PersistAccepted
  \/ \E r \in Results : \/ XCascade(r) \/ HCascade(r) \/ XIdles(r) \/ HIdles(r)
                        \/ HApplies(r) \/ XRetains(r)
  \/ \E i \in XrayIds, r \in Results : XApplies(i, r)

StillSteps ==
  UNCHANGED <<phase, req, boot, todo, outcome, xray, hysteria, held, store, behind>>

LEMMA AnswerSteps ==
  ASSUME [Next]_vars
  PROVE  phase' \notin Settled \/ StillSteps \/ DrawnSteps
<1>1. ASSUME NEW p \in Pushes, Receive(p) PROVE phase' \notin Settled
  BY <1>1 DEF Receive, Begins, Settled
<1>2. ASSUME NEW b \in NodeBlocks, NEW r \in Results, ApplyBlock(b, r) PROVE phase' \notin Settled
  BY <1>2 DEF ApplyBlock, Settled
<1>3. ASSUME \/ ChainStops \/ ChainKeeps \/ ChainRefuses \/ ChainAccepts
             \/ ChainStarts \/ ChainStartFails
      PROVE  phase' \notin Settled
  BY <1>3 DEF ChainStops, ChainKeeps, ChainRefuses, ChainAccepts, ChainStarts,
              ChainStartFails, Settled
<1>4. ASSUME PersistFails \/ CloseDroppedPorts \/ Crash \/ RestoreEnds
      PROVE  phase' \notin Settled
  BY <1>4 DEF PersistFails, CloseDroppedPorts, Crash, RestoreEnds, Settled
<1>5. ASSUME Boot PROVE phase' \notin Settled
  BY <1>5 DEF Boot, Begins, Settled
<1>6. ASSUME ChainDies \/ UNCHANGED vars PROVE StillSteps
  BY <1>6 DEF ChainDies, vars, StillSteps, outcome, xray, hysteria, chain, disk, told
<1>. QED  BY <1>1, <1>2, <1>3, <1>4, <1>5, <1>6 DEF Next, DrawnSteps

\* What xray forgets, and what memory holds of a stored push.
LEMMA AnswerMemoryStep ==
  ASSUME TypeOK, WallInv, CoresInv, GoneIsForgotten, AnsweredMemory, [Next]_vars
  PROVE  GoneIsForgotten' /\ AnsweredMemory'
<1> USE DEF None
<1>1. CASE phase' \notin Settled
  BY <1>1 DEF GoneIsForgotten, AnsweredMemory, Settled
<1>2. CASE StillSteps
  BY <1>2 DEF StillSteps, GoneIsForgotten, AnsweredMemory, XTaken, HTaken, outcome, xray,
              hysteria
<1>3. ASSUME NEW r \in Results, XRetains(r) PROVE GoneIsForgotten' /\ AnsweredMemory'
  BY <1>3 DEF XRetains, GoneIsForgotten, AnsweredMemory
<1>4. CASE PersistAccepted
  <2>1. /\ phase = "persist" /\ phase' = "close" /\ ~ boot
        /\ UNCHANGED <<req, todo, refused, polRefused, xPol, xIb, hIb, behind>>
    BY <1>4 DEF PersistAccepted, outcome, xray, hysteria, told
  <2>2. GoneIsForgotten'
    BY <2>1 DEF GoneIsForgotten
  <2>3. "xray" \notin behind => \A i \in XrayIds : XTaken(i) => xIb[i] = req.x[i]
    BY <2>1 DEF CoresInv, XInbounds
  <2>4. "hysteria" \notin behind /\ HTaken => hIb = req.h
    BY <2>1 DEF CoresInv, HInbounds
  <2>5. "xray" \notin behind /\ polRefused = {} => xPol = req.pol
    <3> SUFFICES ASSUME "xray" \notin behind, polRefused = {} PROVE xPol = req.pol
      OBVIOUS
    <3>1. \A b \in NodeBlocks : xPol[b] = req.pol[b]
      BY <2>1 DEF CoresInv, Policies
    <3>2. xPol \in [NodeBlocks -> Nat] /\ req.pol \in [NodeBlocks -> Nat]
      BY DEF TypeOK, PushType
    <3>. QED  BY <3>1, <3>2
  <2>6. AnsweredMemory'
    BY <2>1, <2>3, <2>4, <2>5 DEF AnsweredMemory, XTaken, HTaken
  <2>. QED  BY <2>2, <2>6
<1>5. ASSUME DrawnSteps, ~ PersistAccepted, ~ \E r \in Results : XRetains(r)
      PROVE  phase' \notin {"persist", "close"}
  BY <1>5 DEF DrawnSteps, Settle, IdleUnnamed, InboundsBegin, XCascade, HCascade, XIdles,
              HIdles, HApplies, XApplies
<1>6. phase' \notin {"persist", "close"} => GoneIsForgotten' /\ AnsweredMemory'
  BY DEF GoneIsForgotten, AnsweredMemory
<1>. QED  BY <1>1, <1>2, <1>3, <1>4, <1>5, <1>6, AnswerSteps DEF DrawnSteps

\* The legacy drawing, and hysteria's without a chain.
LEMMA LegacyDrawnStep ==
  ASSUME TypeOK, WallInv, LegacyDrawn, [Next]_vars
  PROVE  LegacyDrawn'
<1> USE XrayIdsAssumption DEF None
<1>r. Results \subseteq {"ok", "refused", "failed"}
  BY FailuresAssumption DEF Results
<1>1. CASE phase' \notin Settled
  BY <1>1 DEF LegacyDrawn, Settled, Late
<1>2. CASE StillSteps
  BY <1>2 DEF StillSteps, LegacyDrawn, XTaken, outcome, xray, hysteria
<1>3. CASE Settle
  <2>1. phase' = "cascade" /\ (todo' = Cores \/ held') /\ UNCHANGED held
    BY <1>3 DEF Settle, chain
  <2>. QED  BY <2>1 DEF LegacyDrawn, Cores, Settled, Late
<1>4. ASSUME NEW r \in Results, XCascade(r) PROVE LegacyDrawn'
  <2>1. /\ phase = "cascade" /\ phase' = phase /\ todo' = todo \ {"xray"}
        /\ UNCHANGED <<req, held, hHand>> /\ behind \subseteq behind'
    BY <1>4 DEF XCascade, Unsaid, outcome, hysteria, chain
  <2>2. ~ held /\ "xray" \notin behind' =>
           /\ req.leg # None => xFromNode' /\ xLeg' = req.leg
           /\ req.leg = None => ~ xFromNode'
    <3> SUFFICES ASSUME ~ held, "xray" \notin behind'
                 PROVE  /\ req.leg # None => xFromNode' /\ xLeg' = req.leg
                        /\ req.leg = None => ~ xFromNode'
      OBVIOUS
    <3>1. r = "ok" /\ Drawing("xray") = req.leg
      BY <1>4 DEF XCascade, Unsaid, Drawing
    <3>2. xFromNode' = (req.leg # None)
      BY <1>4, <3>1 DEF XCascade
    <3>3. req.leg # None => xLeg' = req.leg
      BY <1>4, <3>1 DEF XCascade
    <3>. QED  BY <3>2, <3>3
  <2>. QED  BY <2>1, <2>2 DEF LegacyDrawn, Settled, Late
<1>5. ASSUME NEW r \in Results, HCascade(r) PROVE LegacyDrawn'
  <2>1. /\ phase = "cascade" /\ phase' = phase /\ todo' = todo \ {"hysteria"}
        /\ UNCHANGED <<req, held, xLeg, xFromNode>> /\ behind \subseteq behind'
    BY <1>5 DEF HCascade, Unsaid, outcome, xray, chain
  <2>2. ~ held /\ "hysteria" \notin behind' => hHand' = None
    BY <1>5 DEF HCascade, Unsaid, Drawing
  <2>. QED  BY <2>1, <2>2 DEF LegacyDrawn, Settled, Late
<1>6. CASE IdleUnnamed
  <2>1. /\ phase = "cascade" /\ todo = {} /\ phase' = "unnamed"
        /\ UNCHANGED <<req, held, xLeg, xFromNode, hHand, behind>>
    BY <1>6 DEF IdleUnnamed, xray, hysteria, chain, told
  <2>. QED  BY <2>1 DEF LegacyDrawn, Settled, Late
<1>7. ASSUME NEW r \in Results, XIdles(r) \/ HIdles(r) PROVE LegacyDrawn'
  <2>1. /\ phase = "unnamed" /\ phase' = phase
        /\ UNCHANGED <<req, held, xLeg, xFromNode, hHand>> /\ behind \subseteq behind'
    BY <1>7 DEF XIdles, HIdles, Unsaid, outcome, xray, hysteria, chain
  <2>. QED  BY <2>1 DEF LegacyDrawn, Settled, Late
<1>8. CASE InboundsBegin
  <2>1. /\ phase = "unnamed" /\ phase' = "inbounds" /\ todo' = Inbounds
        /\ UNCHANGED <<req, held, refused, xLeg, xFromNode, hHand, behind>>
    BY <1>8 DEF InboundsBegin, outcome, xray, hysteria, chain, told
  <2>2. \A i \in XrayIds : ~ XTaken(i)'
    BY <2>1 DEF Inbounds, XTaken
  <2>. QED  BY <2>1, <2>2 DEF LegacyDrawn, Settled, Late
<1>9. ASSUME NEW r \in Results, HApplies(r) PROVE LegacyDrawn'
  <2>1. /\ phase = "inbounds" /\ phase' = phase /\ todo' = todo \ {"hysteria"}
        /\ UNCHANGED <<req, held, xLeg, xFromNode, hHand>> /\ behind \subseteq behind'
        /\ refused \subseteq refused'
    BY <1>9 DEF HApplies, Said, Refuses, xray, chain
  <2>2. \A i \in XrayIds : XTaken(i)' => XTaken(i)
    BY <2>1 DEF XTaken
  <2>. QED  BY <2>1, <2>2 DEF LegacyDrawn, Settled, Late
<1>10. ASSUME NEW i \in XrayIds, NEW r \in Results, XApplies(i, r) PROVE LegacyDrawn'
  <2>1. /\ phase = "inbounds" /\ phase' = phase /\ todo' = todo \ {i} /\ i \in todo
        /\ UNCHANGED <<req, held, xFromNode, hHand>> /\ behind \subseteq behind'
        /\ refused \subseteq refused' /\ (r # "ok" => i \in refused')
    BY <1>10 DEF XApplies, Said, Refuses, hysteria, chain
  <2>2. xLeg' = xLeg \/ xLeg' = IF xFromNode THEN xLeg ELSE None
    BY <1>10 DEF XApplies
  <2>3. r = "ok" => xLeg' = IF xFromNode THEN xLeg ELSE None
    BY <1>10 DEF XApplies
  <2>4. \A j \in XrayIds : j # i /\ XTaken(j)' => XTaken(j)
    BY <2>1 DEF XTaken
  <2>5. XTaken(i)' => r = "ok"
    BY <2>1 DEF XTaken
  <2>6. ~ held /\ "xray" \notin behind' =>
           /\ req.leg # None => xFromNode' /\ xLeg' = req.leg
           /\ req.leg = None => ~ xFromNode'
    BY <2>1, <2>2 DEF LegacyDrawn, Settled
  <2>7. ~ held /\ "xray" \notin behind' /\ req.leg = None =>
           \A j \in XrayIds : XTaken(j)' => xLeg' = None
    BY <2>1, <2>2, <2>3, <2>4, <2>5, <2>6 DEF LegacyDrawn, Late
  <2>. QED  BY <2>1, <2>6, <2>7 DEF LegacyDrawn, Settled, Late
<1>11. ASSUME NEW r \in Results, XRetains(r) PROVE LegacyDrawn'
  <2>1. /\ phase = "inbounds" /\ phase' = "persist"
        /\ UNCHANGED <<req, held, todo, refused, xLeg, xFromNode, hHand>>
        /\ behind \subseteq behind'
    BY <1>11 DEF XRetains, Unsaid, outcome, hysteria, chain
  <2>. QED  BY <2>1 DEF LegacyDrawn, XTaken, Settled, Late
<1>12. CASE PersistAccepted
  <2>1. /\ phase = "persist" /\ phase' = "close"
        /\ UNCHANGED <<req, held, todo, refused, xLeg, xFromNode, hHand, behind>>
    BY <1>12 DEF PersistAccepted, outcome, xray, hysteria, chain, told
  <2>. QED  BY <2>1 DEF LegacyDrawn, XTaken, Settled, Late
<1>. QED  BY <1>1, <1>2, <1>3, <1>4, <1>5, <1>6, <1>7, <1>8, <1>9, <1>10, <1>11, <1>12,
             AnswerSteps DEF DrawnSteps

\* An idled unit stays down until an inbound is applied to it.
LEMMA IdledStep ==
  ASSUME TypeOK, IdledIsDown, [Next]_vars
  PROVE  IdledIsDown'
<1> USE DEF None
<1>r. Results \subseteq {"ok", "refused", "failed"}
  BY FailuresAssumption DEF Results
<1>1. ASSUME UNCHANGED <<hIdled, hRun, hIb>>, behind \subseteq behind', phase' # "down"
      PROVE  IdledIsDown'
  BY <1>1 DEF IdledIsDown
<1>2. ASSUME NEW r \in Results, HIdles(r) PROVE IdledIsDown'
  <2>1. phase' # "down"
    BY <1>2 DEF HIdles
  <2>2. CASE hIb = None /\ hIdled
    BY <1>2, <2>1, <2>2 DEF HIdles, IdledIsDown, Unsaid
  <2>3. CASE ~ (hIb = None /\ hIdled)
    <3>1. hIb' = None /\ hRun' = (IF r = "ok" THEN Down ELSE hRun)
      BY <1>2, <2>3 DEF HIdles
    <3>2. "hysteria" \notin behind' => r = "ok"
      BY <1>2 DEF HIdles, Unsaid
    <3>. QED  BY <2>1, <3>1, <3>2 DEF IdledIsDown
  <2>. QED  BY <2>2, <2>3
<1>3. ASSUME NEW r \in Results, HApplies(r) PROVE IdledIsDown'
  <2>1. phase' # "down" /\ behind \subseteq behind'
    BY <1>3 DEF HApplies, Said
  <2>2. CASE hIb = req.h \/ r = "refused"
    <3>1. UNCHANGED <<hIb, hIdled, hRun>>
      BY <1>3, <2>2 DEF HApplies, HRenders
    <3>. QED  BY <1>1, <2>1, <3>1
  <2>3. CASE ~ (hIb = req.h \/ r = "refused")
    <3>1. hIdled' = FALSE
      BY <1>3, <2>3 DEF HApplies
    <3>. QED  BY <3>1 DEF IdledIsDown
  <2>. QED  BY <2>2, <2>3
<1>4. ASSUME NEW r \in Results, HCascade(r) PROVE IdledIsDown'
  <2>1. phase' # "down" /\ behind \subseteq behind' /\ UNCHANGED <<hIb, hIdled>>
    BY <1>4 DEF HCascade, Unsaid
  <2>2. hIb = None => UNCHANGED hRun
    BY <1>4 DEF HCascade
  <2>. QED  BY <2>1, <2>2 DEF IdledIsDown
<1>5. CASE Crash
  BY <1>5 DEF Crash, IdledIsDown
<1>6. CASE Boot
  BY <1>6 DEF Boot, Begins, IdledIsDown, hysteria
<1>7. CASE PersistFails
  BY <1>7 DEF PersistFails, IdledIsDown, Cores
<1>8. CASE UNCHANGED vars \/ ChainDies
  BY <1>8 DEF ChainDies, vars, told, hysteria, IdledIsDown
<1>9. ASSUME NEW p \in Pushes, Receive(p) PROVE IdledIsDown'
  BY <1>1, <1>9 DEF Receive, Begins, hysteria, told
<1>10. ASSUME NEW b \in NodeBlocks, NEW r \in Results, ApplyBlock(b, r) PROVE IdledIsDown'
  <2>1. UNCHANGED hysteria /\ phase' = "blocks" /\ behind \subseteq behind'
    BY <1>10 DEF ApplyBlock, Said
  <2>. QED  BY <1>1, <2>1 DEF hysteria
<1>11. ASSUME \/ ChainStops \/ ChainKeeps \/ ChainRefuses \/ ChainAccepts
              \/ ChainStarts \/ ChainStartFails \/ Settle \/ IdleUnnamed
              \/ InboundsBegin \/ PersistAccepted \/ CloseDroppedPorts \/ RestoreEnds
       PROVE  IdledIsDown'
  <2>1. UNCHANGED hysteria /\ phase' # "down" /\ behind \subseteq behind'
    BY <1>11 DEF ChainStops, ChainKeeps, ChainRefuses, ChainAccepts, ChainStarts,
                 ChainStartFails, Settle, IdleUnnamed, InboundsBegin, PersistAccepted,
                 CloseDroppedPorts, RestoreEnds, told
  <2>. QED  BY <1>1, <2>1 DEF hysteria
<1>12. ASSUME NEW r \in Results, XCascade(r) \/ XIdles(r) \/ XRetains(r) PROVE IdledIsDown'
  <2>1. UNCHANGED hysteria /\ phase' # "down" /\ behind \subseteq behind'
    BY <1>12 DEF XCascade, XIdles, XRetains, Unsaid
  <2>. QED  BY <1>1, <2>1 DEF hysteria
<1>13. ASSUME NEW i \in XrayIds, NEW r \in Results, XApplies(i, r) PROVE IdledIsDown'
  <2>1. UNCHANGED hysteria /\ phase' # "down" /\ behind \subseteq behind'
    BY <1>13 DEF XApplies, Said
  <2>. QED  BY <1>1, <2>1 DEF hysteria
<1>. QED  BY <1>2, <1>3, <1>4, <1>5, <1>6, <1>7, <1>8, <1>9, <1>10, <1>11, <1>12, <1>13
          DEF Next

\* A push that does not name hysteria, and was refused nothing, stops it.
LEMMA UnnamedStep ==
  ASSUME TypeOK, WallInv, IdledIsDown, UnnamedIsDown, [Next]_vars
  PROVE  UnnamedIsDown'
<1> USE DEF None
<1>r. Results \subseteq {"ok", "refused", "failed"}
  BY FailuresAssumption DEF Results
<1>0. ASSUME UNCHANGED <<req, held, handoff>> PROVE Named("hysteria")' = Named("hysteria")
  BY <1>0 DEF Named, Drawing
<1>1. CASE phase' \notin Settled
  BY <1>1 DEF UnnamedIsDown, Settled, Late
<1>2. CASE StillSteps
  <2>1. UNCHANGED <<phase, req, todo, chainRefused, ucRefused, handoff, held, hRun, behind>>
    BY <1>2 DEF StillSteps, outcome, hysteria
  <2>. QED  BY <1>0, <2>1 DEF UnnamedIsDown
<1>3. ASSUME phase' = "cascade" PROVE UnnamedIsDown'
  BY <1>3 DEF UnnamedIsDown, Late
<1>4. CASE IdleUnnamed
  <2>1. /\ phase' = "unnamed" /\ UNCHANGED <<req, handoff, chainRefused, ucRefused, held>>
        /\ todo' = IF chainRefused \/ ucRefused THEN {} ELSE {c \in Cores : ~ Named(c)}
    BY <1>4 DEF IdleUnnamed, outcome, chain
  <2>2. ~ chainRefused /\ ~ ucRefused /\ ~ Named("hysteria") => "hysteria" \in todo'
    BY <2>1 DEF Cores
  <2>. QED  BY <1>0, <2>1, <2>2 DEF UnnamedIsDown
<1>5. ASSUME NEW r \in Results, XIdles(r) PROVE UnnamedIsDown'
  <2>1. /\ UNCHANGED <<phase, req, handoff, chainRefused, ucRefused, held, hRun>>
        /\ todo' = todo \ {"xray"} /\ behind \subseteq behind'
    BY <1>5 DEF XIdles, Unsaid, outcome, hysteria, chain
  <2>. QED  BY <1>0, <2>1 DEF UnnamedIsDown
<1>6. ASSUME NEW r \in Results, HIdles(r) PROVE UnnamedIsDown'
  <2>1. "hysteria" \notin behind' => r = "ok" /\ "hysteria" \notin behind
    BY <1>6 DEF HIdles, Unsaid
  <2>2. r = "ok" /\ "hysteria" \notin behind => hRun' = Down
    BY <1>6 DEF HIdles, IdledIsDown
  <2>. QED  BY <2>1, <2>2 DEF UnnamedIsDown
<1>7. CASE InboundsBegin
  <2>1. /\ phase = "unnamed" /\ todo = {}
        /\ UNCHANGED <<req, handoff, chainRefused, ucRefused, held, hRun, behind>>
    BY <1>7 DEF InboundsBegin, outcome, hysteria, chain, told
  <2>. QED  BY <1>0, <2>1 DEF UnnamedIsDown
<1>8. ASSUME NEW r \in Results, HApplies(r) PROVE UnnamedIsDown'
  <2>1. phase = "inbounds" /\ "hysteria" \in todo /\ UNCHANGED <<req, handoff, held>>
    BY <1>8 DEF HApplies, chain
  <2>2. Named("hysteria")
    BY <2>1 DEF WallInv, TodoIsAsked, Named
  <2>. QED  BY <1>0, <2>1, <2>2 DEF UnnamedIsDown
<1>9. ASSUME NEW i \in XrayIds, NEW r \in Results, XApplies(i, r) PROVE UnnamedIsDown'
  <2>1. /\ UNCHANGED <<phase, req, handoff, chainRefused, ucRefused, held, hRun>>
        /\ todo' = todo \ {i} /\ i # "hysteria" /\ behind \subseteq behind'
    BY <1>9, XrayIdsAssumption DEF XApplies, Said, hysteria, chain
  <2>. QED  BY <1>0, <2>1 DEF UnnamedIsDown
<1>10. ASSUME NEW r \in Results, XRetains(r) PROVE UnnamedIsDown'
  <2>1. /\ UNCHANGED <<todo, req, handoff, chainRefused, ucRefused, held, hRun>>
        /\ phase = "inbounds" /\ behind \subseteq behind'
    BY <1>10 DEF XRetains, Unsaid, outcome, hysteria, chain
  <2>. QED  BY <1>0, <2>1 DEF UnnamedIsDown, Late
<1>11. CASE PersistAccepted
  <2>1. /\ UNCHANGED <<todo, req, handoff, chainRefused, ucRefused, held, hRun, behind>>
        /\ phase = "persist"
    BY <1>11 DEF PersistAccepted, outcome, hysteria, chain, told
  <2>. QED  BY <1>0, <2>1 DEF UnnamedIsDown, Late
<1>12. ASSUME Settle \/ \E r \in Results : XCascade(r) \/ HCascade(r) PROVE phase' = "cascade"
  BY <1>12 DEF Settle, XCascade, HCascade
<1>. QED  BY <1>1, <1>2, <1>3, <1>4, <1>5, <1>6, <1>7, <1>8, <1>9, <1>10, <1>11, <1>12,
             AnswerSteps DEF DrawnSteps

\* When a whole push is about to be answered, each core serves it, or is a
\* hysteria the hand-off keeps.
LEMMA AnswerMeans ==
  ASSUME TypeOK, WallInv, CoresInv, ChainInv, AnswerInv, phase = "close", Whole
  PROVE  \A c \in Cores \ behind : Serves(c) \/ (c = "hysteria" /\ KeptByHandOff)
<1> USE DEF None
<1>1. /\ todo = {} /\ refused = {} /\ polRefused = {} /\ ~ chainRefused /\ ~ ucRefused
      /\ phase \in Settled /\ phase \in Late
  BY DEF Whole, WallInv, PersistIsDone, Settled, Late
<1>2. ASSUME "xray" \notin behind PROVE Serves("xray")
  <2>1. xRun = XServes(xPol, xIb, xLeg)
    BY <1>2 DEF CoresInv, RunsMemory
  <2>2. xIb = req.x
    <3>1. xIb \in [XrayIds -> Nat] /\ req.x \in [XrayIds -> Nat]
      BY DEF TypeOK, PushType
    <3>2. \A i \in XrayIds : xIb[i] = req.x[i]
      BY <1>1, <1>2 DEF AnswerInv, GoneIsForgotten, AnsweredMemory, XTaken
    <3>. QED  BY <3>1, <3>2
  <2>3. xPol = req.pol
    BY <1>1, <1>2 DEF AnswerInv, AnsweredMemory
  <2>4. Named("xray") => xLeg = Drawing("xray")
    <3>1. CASE held
      BY <1>1, <1>2, <3>1 DEF ChainInv, Drawn, Hand, Cores
    <3>2. CASE ~ held
      <4>1. Drawing("xray") = req.leg
        BY <3>2 DEF Drawing
      <4>2. CASE req.leg # None
        BY <1>1, <1>2, <3>2, <4>1, <4>2 DEF AnswerInv, LegacyDrawn
      <4>3. CASE req.leg = None /\ req.x # XIbNone
        <5>1. PICK i \in XrayIds : req.x[i] # None
          <6>1. req.x \in [XrayIds -> Nat]
            BY DEF TypeOK, PushType
          <6>. QED  BY <4>3, <6>1 DEF XIbNone
        <5>2. XTaken(i)
          BY <1>1, <5>1 DEF XTaken
        <5>3. xLeg = None
          BY <1>1, <1>2, <3>2, <4>3, <5>2 DEF AnswerInv, LegacyDrawn
        <5>. QED  BY <4>1, <4>3, <5>3
      <4>4. Named("xray") => req.leg # None \/ req.x # XIbNone
        BY <4>1 DEF Named
      <4>. QED  BY <4>2, <4>3, <4>4
    <3>. QED  BY <3>1, <3>2
  <2>5. CASE xIb = XIbNone /\ xLeg = None
    <3>1. xRun = Down /\ ~ xRun.up
      BY <2>1, <2>5 DEF XServes, Down
    <3>. QED  BY <2>2, <2>5, <3>1 DEF Serves
  <2>6. CASE ~ (xIb = XIbNone /\ xLeg = None)
    <3>1. xRun = [up |-> TRUE, pol |-> xPol, ib |-> xIb, leg |-> xLeg]
      BY <2>1, <2>6 DEF XServes
    <3>2. xRun.up /\ xRun.ib = xIb /\ xRun.pol = xPol /\ xRun.leg = xLeg
      BY <3>1
    <3>. QED  BY <2>2, <2>3, <2>4, <3>2 DEF Serves
  <2>. QED  BY <2>5, <2>6
<1>3. ASSUME "hysteria" \notin behind PROVE Serves("hysteria") \/ KeptByHandOff
  <2>1. hRun.up => Named("hysteria")
    <3>1. ~ Named("hysteria") => hRun = Down
      BY <1>1, <1>3 DEF AnswerInv, UnnamedIsDown
    <3>. QED  BY <3>1 DEF Down
  <2>2. hIb # None => hRun = [up |-> TRUE, ib |-> hIb, hand |-> hHand]
    BY <1>3 DEF CoresInv, RunsMemory
  <2>3. CASE req.h # None
    <3>1. hIb = req.h
      BY <1>1, <1>3, <2>3 DEF AnswerInv, AnsweredMemory, HTaken
    <3>2. hHand = Drawing("hysteria")
      <4>1. CASE held
        BY <1>1, <1>3, <4>1 DEF ChainInv, Drawn, Hand, Cores
      <4>2. CASE ~ held
        BY <1>1, <1>3, <4>2 DEF AnswerInv, LegacyDrawn, Drawing
      <4>. QED  BY <4>1, <4>2
    <3>3. hRun.up /\ hRun.ib = req.h /\ hRun.hand = Drawing("hysteria")
      BY <2>2, <2>3, <3>1, <3>2
    <3>. QED  BY <2>3, <3>3 DEF Serves
  <2>4. CASE req.h = None /\ ~ Named("hysteria")
    <3>1. ~ hRun.up
      BY <1>1, <1>3, <2>4 DEF AnswerInv, UnnamedIsDown, Down
    <3>. QED  BY <2>4, <3>1 DEF Serves
  <2>5. CASE req.h = None /\ Named("hysteria")
    <3>1. Drawing("hysteria") # None
      BY <2>5 DEF Named
    <3>2. held
      BY <3>1 DEF Drawing
    <3>3. hHand = Drawing("hysteria")
      BY <1>1, <1>3, <3>2 DEF ChainInv, Drawn, Hand, Cores
    <3>. QED  BY <2>2, <2>5, <3>1, <3>3 DEF KeptByHandOff
  <2>. QED  BY <2>3, <2>4, <2>5
<1>. QED  BY <1>2, <1>3 DEF Cores

\* A push the agent answers ok is what each core runs: its inbounds and blocks
\* and no others, with the drawing of its chain or of the legacy cascade, and a
\* hysteria it does not name is down. Left out are a core one of whose calls
\* ended in an error the agent only logs, and a hysteria named by the hand-off
\* alone, whose kept inbound is drawn to that hand-off. For any pushes,
\* inbounds, blocks and faults, after any earlier refusals, deaths and restores
\* (applyPushKept).
THEOREM OkPushIsServed == Spec => []AnsweredIsServed
<1>1. Init => CoresInv /\ ChainInv /\ AnswerInv
  <2>1. Init => AnswerInv
    BY DEF Init, AnswerInv, GoneIsForgotten, AnsweredMemory, LegacyDrawn, IdledIsDown,
           UnnamedIsDown, Settled, Late
  <2>. QED  BY <2>1, InitCores, InitChain
<1>2. TypeOK /\ WallInv /\ CoresInv /\ ChainInv /\ AnswerInv /\ [Next]_vars =>
        CoresInv' /\ ChainInv' /\ AnswerInv'
  <2> SUFFICES ASSUME TypeOK, WallInv, CoresInv, ChainInv, AnswerInv, [Next]_vars
               PROVE  CoresInv' /\ ChainInv' /\ AnswerInv'
    OBVIOUS
  <2>1. CoresInv' /\ ChainInv'
    BY CoresStep, ChainStep
  <2>2. GoneIsForgotten' /\ AnsweredMemory'
    BY AnswerMemoryStep DEF AnswerInv
  <2>3. LegacyDrawn' /\ IdledIsDown' /\ UnnamedIsDown'
    BY LegacyDrawnStep, IdledStep, UnnamedStep DEF AnswerInv
  <2>. QED  BY <2>1, <2>2, <2>3 DEF AnswerInv
<1>3. TypeOK /\ WallInv /\ CoresInv /\ ChainInv /\ AnswerInv => AnsweredIsServed
  BY AnswerMeans DEF AnsweredIsServed
<1>. QED  BY <1>1, <1>2, <1>3, WallAlways, PTL DEF Spec
=============================================================================
