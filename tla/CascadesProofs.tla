--------------------------- MODULE CascadesProofs ---------------------------
(***************************************************************************)
(* Proofs about Cascades.  While saves come one after another and nothing  *)
(* is lost, every node is accounted for (NodeOk): a push of it is asked    *)
(* for, or will be by a save or a mend that has committed, or is under way *)
(* and has not read anything stale, or the node is right.  What makes that *)
(* inductive is that a save disturbs the owner of no node outside the ones *)
(* it is going to announce itself to, neither under the dead set from      *)
(* before its commit nor under the one from after it.                      *)
(***************************************************************************)
EXTENDS Cascades, TLAPS

Alone == \A s, t \in Savers : ~Idle(s) /\ ~Idle(t) => s = t

\* What a request may be where.
Phase(s) ==
  /\ pc[s] = "gate" => req[s].op \in {"update", "create"}
  /\ pc[s] = "before" => req[s].op \in {"update", "delete"}
  /\ pc[s] = "commit" => req[s].op \in {"update", "create", "delete"}

\* Before its commit, what a save read is still so; a create has no row.
ReadOk(s) ==
  pc[s] \in {"gate", "before", "commit"} =>
    /\ req[s].old = mem[req[s].c] /\ req[s].was = on[req[s].c]
    /\ req[s].op = "create" => req[s].c \notin there

\* The gate still holds when the save commits.
Gated(s) ==
  pc[s] \in {"before", "commit"} /\ req[s].op # "delete" /\ Asked(s) => Free(s)

BeforeOk(s) == pc[s] = "commit" /\ req[s].op # "create" => before[s] = Dead

Moving(s) == pc[s] = "emit" /\ req[s].op \in {"update", "delete"}

\* After the commit, only the nodes to be told see a difference between the
\* dead sets from before and after it.
EmitOk(s) ==
  Moving(s) => \A n \in Nodes \ Told(s) : Owner(n, before[s]) = Owner(n, Dead)

\* The cached set is right, or it is the one from before a save that is about
\* to drop it.
CacheOk == warm => cache = Dead \/ \E s \in Savers : Moving(s) /\ cache = before[s]

ToBeTold(n) ==
  \/ n \in due
  \/ \E s \in Savers : pc[s] = "emit" /\ n \in Told(s)
  \/ \E m \in Nodes : m # n /\ \E c \in owes[m] : n \in mem[c]

NodeOk(n) ==
  \/ ToBeTold(n)
  \/ busy[n] = "mend"
  \/ busy[n] \in {"fill", "owner"} /\ Owner(n, seen[n]) = Owner(n, Dead)
  \/ busy[n] = "draw" /\ own[n] = Owner(n, Dead)
  \/ busy[n] = "no" /\ Right(n)

SaverOk(s) == Phase(s) /\ ReadOk(s) /\ Gated(s) /\ BeforeOk(s) /\ EmitOk(s)

Sound ==
  /\ Alone
  /\ \A s \in Savers : SaverOk(s)
  /\ CacheOk
  /\ \A n \in Nodes : NodeOk(n)

\* A cascade with a row, or with a transaction that creates it, has a time
\* of creation.
BornOk ==
  /\ clock > 0 /\ \A c \in there : born[c] > 0
  /\ \A s \in Savers :
       /\ pc[s] = "before" => req[s].op # "create"
       /\ pc[s] = "commit" /\ req[s].op = "create" => born[req[s].c] > 0

\* Only a push that mends owes an announcement.
MendOk == \A n \in Nodes : owes[n] # {} => busy[n] = "mend"

IInv == TypeOK /\ BornOk /\ MendOk /\ (~disturbed => Sound)

----------------------------------------------------------------------------
(* Types *)

LEMMA NoRequestTyped ==
  /\ NoRequest.c \in Cascades
  /\ NoRequest \in [op : {"none", "update", "create", "delete", "rotate"}, c : Cascades,
                    en : {"keep", "on", "off"}, was : BOOLEAN,
                    ns : SUBSET Nodes, old : SUBSET Nodes]
<1>1. (CHOOSE c \in Cascades : TRUE) \in Cascades
  BY InputsAssumption
<1>. QED  BY <1>1 DEF NoRequest

LEMMA OwnerTyped == \A n, D : Owner(n, D) \subseteq Cascades
  BY DEF Owner, Carrying

LEMMA DeadTyped == Dead \subseteq Cascades
  BY DEF Dead

LEMMA InitTyped == Init => TypeOK /\ BornOk
<1>. SUFFICES ASSUME Init PROVE TypeOK /\ BornOk
  OBVIOUS
<1>1. PICK db \in Stored :
        /\ mem = db.mem /\ on = db.on /\ born = db.born /\ plain = db.plain
        /\ there = {c \in Cascades : db.born[c] > 0}
        /\ clock = Start
        /\ warm = FALSE /\ cache = {}
        /\ pc = [s \in Savers |-> "idle"]
        /\ req = [s \in Savers |-> NoRequest]
        /\ before = [s \in Savers |-> {}]
        /\ due = {}
        /\ busy = [n \in Nodes |-> "no"]
        /\ legs = [n \in Nodes |-> {}] /\ owes = legs /\ seen = legs /\ own = legs
        /\ runs = [n \in Nodes |-> Owner(n, Dead)] /\ aged = {}
        /\ disturbed = FALSE /\ events = 0
  BY DEF Init
<1>2. /\ mem \in [Cascades -> SUBSET Nodes] /\ on \in [Cascades -> BOOLEAN]
      /\ born \in [Cascades -> Nat] /\ plain \subseteq there
      /\ \A c \in Cascades \ there : ~on[c] /\ mem[c] = {}
  BY <1>1, InputsAssumption
<1>3. runs \in [Nodes -> SUBSET Cascades]
  BY <1>1, OwnerTyped
<1>4. req \in [Savers -> [op : {"none", "update", "create", "delete", "rotate"}, c : Cascades,
                         en : {"keep", "on", "off"}, was : BOOLEAN,
                         ns : SUBSET Nodes, old : SUBSET Nodes]]
  BY <1>1, NoRequestTyped
<1>5. /\ legs \in [Nodes -> SUBSET Cascades] /\ owes \in [Nodes -> SUBSET Cascades]
      /\ seen \in [Nodes -> SUBSET Cascades] /\ own \in [Nodes -> SUBSET Cascades]
      /\ busy \in [Nodes -> {"no", "mend", "fill", "owner", "draw"}]
      /\ pc \in [Savers -> {"idle", "gate", "before", "commit", "emit"}]
      /\ before \in [Savers -> SUBSET Cascades]
  BY <1>1
<1>6. /\ there \subseteq Cascades /\ clock \in Nat /\ warm \in BOOLEAN /\ cache \subseteq Cascades
      /\ due \subseteq Nodes /\ aged \subseteq Nodes /\ disturbed \in BOOLEAN /\ events \in Nat
  BY <1>1, InputsAssumption
<1>7. TypeOK
  BY <1>2, <1>3, <1>4, <1>5, <1>6 DEF TypeOK
<1>8. BornOk
  BY <1>1, InputsAssumption DEF BornOk
<1>. QED  BY <1>7, <1>8

LEMMA ArrivesTyped ==
  ASSUME TypeOK, NEW s \in Savers, NEW r \in Requests,
         NEW at \in {"gate", "before", "emit"}, Arrives(s, r, at)
  PROVE  /\ pc' \in [Savers -> {"idle", "gate", "before", "commit", "emit"}]
         /\ req' \in [Savers -> [op : {"none", "update", "create", "delete", "rotate"}, c : Cascades,
                                 en : {"keep", "on", "off"}, was : BOOLEAN,
                                 ns : SUBSET Nodes, old : SUBSET Nodes]]
         /\ disturbed' \in BOOLEAN /\ events' \in Nat
<1>1. /\ r.op \in {"update", "create", "delete", "rotate"} /\ r.c \in Cascades
      /\ r.en \in {"keep", "on", "off"} /\ r.ns \in SUBSET Nodes
  BY InputsAssumption
<1>2. on[r.c] \in BOOLEAN /\ mem[r.c] \in SUBSET Nodes
  BY <1>1 DEF TypeOK
<1>3. [op |-> r.op, c |-> r.c, en |-> r.en, ns |-> r.ns, was |-> on[r.c], old |-> mem[r.c]] \in
        [op : {"none", "update", "create", "delete", "rotate"}, c : Cascades,
         en : {"keep", "on", "off"}, was : BOOLEAN, ns : SUBSET Nodes, old : SUBSET Nodes]
  BY <1>1, <1>2
<1>. QED  BY <1>3 DEF Arrives, Happens, TypeOK

LEMMA AnsweredTyped ==
  ASSUME TypeOK, NEW s \in Savers, Answered(s)
  PROVE  /\ pc' \in [Savers -> {"idle", "gate", "before", "commit", "emit"}]
         /\ req' \in [Savers -> [op : {"none", "update", "create", "delete", "rotate"}, c : Cascades,
                                 en : {"keep", "on", "off"}, was : BOOLEAN,
                                 ns : SUBSET Nodes, old : SUBSET Nodes]]
         /\ before' \in [Savers -> SUBSET Cascades]
  BY NoRequestTyped DEF Answered, TypeOK

LEMMA PushEndsTyped ==
  ASSUME TypeOK, NEW S, PushEnds(S)
  PROVE  /\ busy' \in [Nodes -> {"no", "mend", "fill", "owner", "draw"}]
         /\ legs' \in [Nodes -> SUBSET Cascades] /\ owes' \in [Nodes -> SUBSET Cascades]
         /\ seen' \in [Nodes -> SUBSET Cascades] /\ own' \in [Nodes -> SUBSET Cascades]
  BY DEF PushEnds, TypeOK

LEMMA ToldTyped ==
  ASSUME TypeOK, NEW s \in Savers
  PROVE  Told(s) \subseteq Nodes /\ req[s].c \in Cascades
<1>1. \A c \in Cascades : mem[c] \subseteq Nodes
  BY DEF TypeOK
<1>2. NodesOfDeadMoved(s) \subseteq Nodes
  BY <1>1, DeadTyped DEF NodesOfDeadMoved, DeadMoved, TypeOK
<1>. QED  BY <1>2 DEF Told, TypeOK

\* No step leaves the types, and every row has a time of creation.
LEMMA TypeStep == TypeOK /\ BornOk /\ [Next]_vars => TypeOK' /\ BornOk'
<1>. SUFFICES ASSUME TypeOK, BornOk, [Next]_vars PROVE TypeOK' /\ BornOk'
  OBVIOUS
<1>. USE DEF rowVars, textVars, saveVars, pushVars
<1>1. CASE UNCHANGED vars
  BY <1>1 DEF TypeOK, BornOk, vars
<1>2. ASSUME NEW s \in Savers, NEW r \in Requests, UpdateReads(s, r)
      PROVE  TypeOK' /\ BornOk'
  <2>1. Arrives(s, r, "gate") /\ UNCHANGED <<rowVars, plain, aged, warm, cache, before, due, pushVars>>
    BY <1>2 DEF UpdateReads, Arrives
  <2>2. TypeOK'
    BY <2>1, ArrivesTyped DEF TypeOK
  <2>3. BornOk'
    BY <1>2, <2>1 DEF UpdateReads, Arrives, TypeOK, BornOk
  <2>. QED  BY <2>2, <2>3
<1>3. ASSUME NEW s \in Savers, NEW r \in Requests, DeleteReads(s, r)
      PROVE  TypeOK' /\ BornOk'
  <2>1. Arrives(s, r, "before") /\ UNCHANGED <<rowVars, plain, aged, warm, cache, before, due, pushVars>>
    BY <1>3 DEF DeleteReads, Arrives
  <2>2. TypeOK'
    BY <2>1, ArrivesTyped DEF TypeOK
  <2>3. BornOk'
    BY <1>3, <2>1 DEF DeleteReads, Arrives, TypeOK, BornOk
  <2>. QED  BY <2>2, <2>3
<1>4. ASSUME NEW s \in Savers, NEW r \in Requests, CreateComes(s, r)
      PROVE  TypeOK' /\ BornOk'
  <2>1. Arrives(s, r, "gate") /\ UNCHANGED <<rowVars, plain, aged, warm, cache, before, due, pushVars>>
    BY <1>4 DEF CreateComes, Arrives
  <2>2. TypeOK'
    BY <2>1, ArrivesTyped DEF TypeOK
  <2>3. BornOk'
    BY <1>4, <2>1 DEF CreateComes, Arrives, TypeOK, BornOk
  <2>. QED  BY <2>2, <2>3
<1>5. ASSUME NEW s \in Savers, NEW r \in Requests, RotateCommits(s, r)
      PROVE  TypeOK' /\ BornOk'
  <2>1. Arrives(s, r, "emit") /\ UNCHANGED <<rowVars, plain, warm, cache, before, due, pushVars>>
    BY <1>5 DEF RotateCommits, Arrives
  <2>2. aged' \subseteq Nodes
    BY <1>5, InputsAssumption DEF RotateCommits, Rewrites, TypeOK
  <2>3. TypeOK'
    BY <2>1, <2>2, ArrivesTyped DEF TypeOK
  <2>4. BornOk'
    BY <2>1 DEF Arrives, TypeOK, BornOk
  <2>. QED  BY <2>3, <2>4
<1>6. ASSUME NEW s \in Savers, Gate(s)
      PROVE  TypeOK' /\ BornOk'
  <2>1. UNCHANGED <<there, on, mem, textVars, warm, cache, req, before, due, pushVars, disturbed, events>>
    BY <1>6 DEF Gate
  <2>2. CASE req[s].op = "create"
    <3>1. /\ born' = [born EXCEPT ![req[s].c] = clock] /\ clock' = clock + 1
          /\ pc' = [pc EXCEPT ![s] = "commit"]
      BY <1>6, <2>2 DEF Gate
    <3>2. /\ clock \in Nat /\ clock > 0 /\ born \in [Cascades -> Nat] /\ req[s].c \in Cascades
      BY ToldTyped DEF TypeOK, BornOk
    <3>3. /\ born' \in [Cascades -> Nat] /\ clock' \in Nat /\ clock' > 0
          /\ born'[req[s].c] > 0 /\ \A c \in Cascades : born[c] > 0 => born'[c] > 0
      BY <3>1, <3>2
    <3>4. TypeOK'
      BY <2>1, <3>1, <3>3 DEF TypeOK
    <3>5. BornOk'
      BY <2>1, <3>1, <3>3, ToldTyped DEF TypeOK, BornOk
    <3>. QED  BY <3>4, <3>5
  <2>3. CASE req[s].op # "create"
    <3>1. pc' = [pc EXCEPT ![s] = "before"] /\ UNCHANGED <<born, clock>>
      BY <1>6, <2>3 DEF Gate
    <3>. QED  BY <2>1, <2>3, <3>1 DEF TypeOK, BornOk
  <2>. QED  BY <2>2, <2>3
<1>7. ASSUME NEW s \in Savers, Refused(s)
      PROVE  TypeOK' /\ BornOk'
  <2>1. Answered(s) /\ UNCHANGED <<rowVars, textVars, warm, cache, due, pushVars, disturbed, events>>
    BY <1>7 DEF Refused
  <2>. QED  BY <2>1, AnsweredTyped DEF TypeOK, BornOk, Answered
<1>8. ASSUME NEW s \in Savers, DeadBefore(s)
      PROVE  TypeOK' /\ BornOk'
  BY <1>8, DeadTyped DEF DeadBefore, TypeOK, BornOk
<1>9. ASSUME NEW s \in Savers, UpdateCommits(s)
      PROVE  TypeOK' /\ BornOk'
  <2>1. /\ on' \in [Cascades -> BOOLEAN] /\ mem' \in [Cascades -> SUBSET Nodes]
        /\ \A c \in Cascades \ there : ~on'[c] /\ mem'[c] = {}
    BY <1>9, ToldTyped DEF UpdateCommits, Writes, TypeOK
  <2>2. /\ aged' \subseteq Nodes /\ plain' \subseteq there
        /\ pc' \in [Savers -> {"idle", "gate", "before", "commit", "emit"}]
        /\ UNCHANGED <<there, born, clock, warm, cache, req, before, due, pushVars, disturbed, events>>
    BY <1>9 DEF UpdateCommits, Writes, Rewrites, TypeOK
  <2>3. TypeOK'
    BY <2>1, <2>2 DEF TypeOK
  <2>4. BornOk'
    BY <1>9, <2>2 DEF UpdateCommits, Writes, TypeOK, BornOk
  <2>. QED  BY <2>3, <2>4
<1>10. ASSUME NEW s \in Savers, CreateCommits(s)
      PROVE  TypeOK' /\ BornOk'
  <2>1. /\ on' \in [Cascades -> BOOLEAN] /\ mem' \in [Cascades -> SUBSET Nodes]
        /\ there' \subseteq Cascades /\ plain \subseteq there'
        /\ \A c \in Cascades \ there' : ~on'[c] /\ mem'[c] = {}
        /\ \A c \in there' : born[c] > 0
    BY <1>10, ToldTyped DEF CreateCommits, TypeOK, BornOk
  <2>2. /\ pc' \in [Savers -> {"idle", "gate", "before", "commit", "emit"}]
        /\ UNCHANGED <<born, clock, textVars, warm, cache, req, before, due, pushVars, disturbed, events>>
    BY <1>10 DEF CreateCommits, TypeOK
  <2>3. TypeOK'
    BY <2>1, <2>2 DEF TypeOK
  <2>4. BornOk'
    BY <1>10, <2>1, <2>2 DEF CreateCommits, TypeOK, BornOk
  <2>. QED  BY <2>3, <2>4
<1>11. ASSUME NEW s \in Savers, DeleteCommits(s)
      PROVE  TypeOK' /\ BornOk'
  <2>1. /\ on' \in [Cascades -> BOOLEAN] /\ mem' \in [Cascades -> SUBSET Nodes]
        /\ there' \subseteq there /\ plain' \subseteq there'
        /\ \A c \in Cascades \ there' : ~on'[c] /\ mem'[c] = {}
    BY <1>11, ToldTyped DEF DeleteCommits, TypeOK
  <2>2. /\ pc' \in [Savers -> {"idle", "gate", "before", "commit", "emit"}]
        /\ UNCHANGED <<born, clock, aged, warm, cache, req, before, due, pushVars, disturbed, events>>
    BY <1>11 DEF DeleteCommits, TypeOK
  <2>3. TypeOK'
    BY <2>1, <2>2 DEF TypeOK
  <2>4. BornOk'
    BY <1>11, <2>1, <2>2 DEF DeleteCommits, TypeOK, BornOk
  <2>. QED  BY <2>3, <2>4
<1>12. ASSUME NEW s \in Savers, Emit(s)
      PROVE  TypeOK' /\ BornOk'
  <2>1. Answered(s) /\ UNCHANGED <<rowVars, textVars, pushVars>>
    BY <1>12 DEF Emit
  <2>2. /\ due' \subseteq Nodes /\ warm' \in BOOLEAN /\ cache' \subseteq Cascades
        /\ disturbed' \in BOOLEAN /\ events' \in Nat
    BY <1>12, ToldTyped DEF Emit, TypeOK
  <2>. QED  BY <2>1, <2>2, AnsweredTyped DEF TypeOK, BornOk, Answered
<1>13. ASSUME NEW s \in Savers, EmitFails(s)
      PROVE  TypeOK' /\ BornOk'
  <2>1. Answered(s) /\ UNCHANGED <<rowVars, textVars, pushVars>>
    BY <1>13 DEF EmitFails
  <2>2. /\ due' \subseteq Nodes /\ warm' \in BOOLEAN /\ cache' \subseteq Cascades
        /\ disturbed' \in BOOLEAN /\ events' \in Nat
    BY <1>13, ToldTyped DEF EmitFails, Happens, TypeOK
  <2>. QED  BY <2>1, <2>2, AnsweredTyped DEF TypeOK, BornOk, Answered
<1>14. ASSUME NEW n \in Nodes, PushStarts(n)
      PROVE  TypeOK' /\ BornOk'
  BY <1>14 DEF PushStarts, TypeOK, BornOk
<1>15. ASSUME NEW n \in Nodes, NEW c \in Cascades, MendsLegs(n, c)
      PROVE  TypeOK' /\ BornOk'
  <2>1. /\ legs' \in [Nodes -> SUBSET Cascades] /\ owes' \in [Nodes -> SUBSET Cascades]
        /\ plain' \subseteq there /\ aged' \subseteq Nodes
    BY <1>15 DEF MendsLegs, Rewrites, TypeOK
  <2>2. UNCHANGED <<rowVars, warm, cache, saveVars, due, busy, seen, own, runs, disturbed, events>>
    BY <1>15 DEF MendsLegs
  <2>. QED  BY <2>1, <2>2 DEF TypeOK, BornOk
<1>16. ASSUME NEW n \in Nodes, TellsOthers(n)
      PROVE  TypeOK' /\ BornOk'
  BY <1>16 DEF TellsOthers, TypeOK, BornOk
<1>17. ASSUME NEW n \in Nodes, AsksDead(n)
      PROVE  TypeOK' /\ BornOk'
  BY <1>17, DeadTyped DEF AsksDead, TypeOK, BornOk
<1>18. ASSUME NEW n \in Nodes, FillsCache(n)
      PROVE  TypeOK' /\ BornOk'
  BY <1>18 DEF FillsCache, TypeOK, BornOk
<1>19. ASSUME NEW n \in Nodes, FindsOwner(n)
      PROVE  TypeOK' /\ BornOk'
  BY <1>19, OwnerTyped DEF FindsOwner, TypeOK, BornOk
<1>20. ASSUME NEW n \in Nodes, Draws(n)
      PROVE  TypeOK' /\ BornOk'
  <2>1. /\ PushEnds({n}) /\ UNCHANGED <<rowVars, plain, warm, cache, saveVars, due, disturbed, events>>
        /\ runs' \in [Nodes -> SUBSET Cascades] /\ aged' \subseteq Nodes
    BY <1>20 DEF Draws, TypeOK
  <2>. QED  BY <2>1, PushEndsTyped DEF TypeOK, BornOk
<1>21. ASSUME NEW n \in Nodes, PushFails(n)
      PROVE  TypeOK' /\ BornOk'
  <2>1. /\ PushEnds({n}) /\ UNCHANGED <<rowVars, textVars, warm, cache, saveVars, runs>>
        /\ due' \subseteq Nodes /\ disturbed' \in BOOLEAN /\ events' \in Nat
    BY <1>21 DEF PushFails, Happens, TypeOK
  <2>. QED  BY <2>1, PushEndsTyped DEF TypeOK, BornOk
<1>22. ASSUME CacheExpires
      PROVE  TypeOK' /\ BornOk'
  BY <1>22 DEF CacheExpires, TypeOK, BornOk
<1>23. ASSUME NEW n \in Nodes, DrawingCheck(n)
      PROVE  TypeOK' /\ BornOk'
  BY <1>23 DEF DrawingCheck, TypeOK, BornOk
<1>24. ASSUME PanelRestarts
      PROVE  TypeOK' /\ BornOk'
  <2>1. PushEnds(Nodes) /\ UNCHANGED <<rowVars, textVars, runs>>
    BY <1>24 DEF PanelRestarts
  <2>2. /\ pc' \in [Savers -> {"idle", "gate", "before", "commit", "emit"}]
        /\ req' \in [Savers -> [op : {"none", "update", "create", "delete", "rotate"}, c : Cascades,
                                en : {"keep", "on", "off"}, was : BOOLEAN,
                                ns : SUBSET Nodes, old : SUBSET Nodes]]
        /\ before' \in [Savers -> SUBSET Cascades]
    BY <1>24, NoRequestTyped DEF PanelRestarts
  <2>3. /\ due' \subseteq Nodes /\ warm' = FALSE /\ cache' = {} /\ events' \in Nat
    BY <1>24 DEF PanelRestarts, Happens, TypeOK
  <2>7. disturbed' \in BOOLEAN
    BY <1>24 DEF PanelRestarts
  <2>4. TypeOK'
    BY <2>1, <2>2, <2>3, <2>7, PushEndsTyped DEF TypeOK
  <2>5. pc' = [s \in Savers |-> "idle"]
    BY <1>24 DEF PanelRestarts
  <2>6. BornOk'
    BY <2>1, <2>5 DEF BornOk
  <2>. QED  BY <2>4, <2>6
<1>. QED  BY <1>1, <1>2, <1>3, <1>4, <1>5, <1>6, <1>7, <1>8, <1>9, <1>10, <1>11, <1>12, <1>13, <1>14, <1>15, <1>16, <1>17, <1>18, <1>19, <1>20, <1>21, <1>22, <1>23, <1>24 DEF Next, SaverSteps, PushSteps

----------------------------------------------------------------------------
(* What does not move *)

\* Who is dead and who owns a node is read off the enabled cascades only.
LEMMA RowsSame ==
  ASSUME on' = on, mem' = mem, \A c \in Cascades : on[c] => born'[c] = born[c]
  PROVE  Dead' = Dead /\ \A n, D : Owner(n, D)' = Owner(n, D)
<1>1. Dead' = Dead
  BY DEF Dead, Older, Shares
<1>2. ASSUME NEW n, NEW D PROVE Owner(n, D)' = Owner(n, D)
  <2>1. Carrying(n, D)' = Carrying(n, D)
    BY DEF Carrying
  <2>2. \A c \in Carrying(n, D) : c \in Cascades /\ on[c]
    BY DEF Carrying
  <2>. QED  BY <2>1, <2>2 DEF Owner, Older
<1>. QED  BY <1>1, <1>2

\* An owner is enabled, has the node and is not in the dead set asked about.
LEMMA OwnerHas ==
  ASSUME NEW n, NEW D, NEW c \in Owner(n, D)
  PROVE  c \in Cascades /\ on[c] /\ n \in mem[c]
  BY DEF Owner, Carrying

\* A step that leaves the rows and one saver alone leaves that saver right.
LEMMA SaverFrame ==
  ASSUME NEW s \in Savers, SaverOk(s), on' = on, mem' = mem, there' = there,
         Dead' = Dead, \A n, D : Owner(n, D)' = Owner(n, D),
         pc'[s] = pc[s], req'[s] = req[s], before'[s] = before[s]
  PROVE  SaverOk(s)' /\ Told(s)' = Told(s) /\ (Moving(s)' <=> Moving(s))
<1>1. Told(s)' = Told(s)
  BY DEF Told, NodesOfDeadMoved, DeadMoved
<1>2. Moving(s)' <=> Moving(s)
  BY DEF Moving
<1>3. Phase(s)' /\ ReadOk(s)' /\ BeforeOk(s)'
  BY DEF SaverOk, Phase, ReadOk, BeforeOk
<1>4. Gated(s)'
  BY DEF SaverOk, Gated, Asked, WillBeOn, Free, Target
<1>5. EmitOk(s)'
  <2>. SUFFICES ASSUME Moving(s), NEW n \in Nodes \ Told(s)
                PROVE  Owner(n, before[s])' = Owner(n, Dead)'
    BY <1>1, <1>2 DEF EmitOk
  <2>1. Owner(n, before[s]) = Owner(n, Dead)
    BY DEF SaverOk, EmitOk
  <2>. QED  BY <2>1
<1>. QED  BY <1>1, <1>2, <1>3, <1>4, <1>5 DEF SaverOk

\* The steps of pushes, of the cache and of the drawing check leave the rows
\* and the savers alone.
LEMMA SaversKept ==
  ASSUME Sound, UNCHANGED <<rowVars, saveVars>>
  PROVE  /\ Dead' = Dead /\ \A n, D : Owner(n, D)' = Owner(n, D)
         /\ Alone'
         /\ \A s \in Savers : SaverOk(s)' /\ Told(s)' = Told(s) /\ (Moving(s)' <=> Moving(s))
<1>1. Dead' = Dead /\ \A n, D : Owner(n, D)' = Owner(n, D)
  BY RowsSame DEF rowVars
<1>2. Alone'
  BY DEF Sound, Alone, Idle, saveVars
<1>3. \A s \in Savers : SaverOk(s)' /\ Told(s)' = Told(s) /\ (Moving(s)' <=> Moving(s))
  BY <1>1, SaverFrame DEF Sound, rowVars, saveVars
<1>. QED  BY <1>1, <1>2, <1>3

LEMMA CacheKept ==
  ASSUME Sound, UNCHANGED <<rowVars, saveVars, warm, cache>>
  PROVE  CacheOk'
<1>1. UNCHANGED <<rowVars, saveVars>>
  OBVIOUS
<1>2. Dead' = Dead /\ \A s \in Savers : Moving(s)' <=> Moving(s)
  BY <1>1, SaversKept
<1>3. before' = before /\ warm' = warm /\ cache' = cache
  BY DEF saveVars
<1>. QED  BY <1>2, <1>3 DEF Sound, CacheOk

\* A node the step does not touch stays accounted for.
LEMMA NodeFrame ==
  ASSUME NEW n \in Nodes, NodeOk(n), ToBeTold(n) => ToBeTold(n)',
         Owner(n, Dead)' = Owner(n, Dead), \A D : Owner(n, D)' = Owner(n, D),
         busy'[n] = busy[n], seen'[n] = seen[n], own'[n] = own[n], runs'[n] = runs[n],
         Right(n) /\ n \in aged' => n \in aged
  PROVE  NodeOk(n)'
<1>1. CASE ToBeTold(n)
  BY <1>1 DEF NodeOk
<1>2. CASE busy[n] = "mend"
  BY <1>2 DEF NodeOk
<1>3. CASE busy[n] \in {"fill", "owner"} /\ Owner(n, seen[n]) = Owner(n, Dead)
  <2>1. Owner(n, seen[n])' = Owner(n, seen[n])
    OBVIOUS
  <2>. QED  BY <1>3, <2>1 DEF NodeOk
<1>4. CASE busy[n] = "draw" /\ own[n] = Owner(n, Dead)
  BY <1>4 DEF NodeOk
<1>5. CASE busy[n] = "no" /\ Right(n)
  BY <1>5 DEF NodeOk, Right
<1>. QED  BY <1>1, <1>2, <1>3, <1>4, <1>5 DEF NodeOk

\* Who is to be told, when the rows and the savers stay.
LEMMA TellFrame ==
  ASSUME Sound, UNCHANGED <<rowVars, saveVars>>, NEW n \in Nodes, ToBeTold(n),
         n \in due => n \in due',
         \A m \in Nodes \ {n} : owes[m] \subseteq owes'[m]
  PROVE  ToBeTold(n)'
<1>1. \A s \in Savers : Told(s)' = Told(s) /\ pc'[s] = pc[s]
  BY SaversKept DEF saveVars
<1>2. mem' = mem
  BY DEF rowVars
<1>3. CASE n \in due
  BY <1>3 DEF ToBeTold
<1>4. CASE \E s \in Savers : pc[s] = "emit" /\ n \in Told(s)
  BY <1>1, <1>4 DEF ToBeTold
<1>5. CASE \E m \in Nodes : m # n /\ \E c \in owes[m] : n \in mem[c]
  BY <1>2, <1>5 DEF ToBeTold
<1>. QED  BY <1>3, <1>4, <1>5 DEF ToBeTold

----------------------------------------------------------------------------
(* The steps of pushes *)

LEMMA PushStartsSound ==
  ASSUME TypeOK, Sound, NEW n \in Nodes, PushStarts(n)
  PROVE  Sound'
<1>1. UNCHANGED <<rowVars, saveVars>> /\ UNCHANGED <<rowVars, saveVars, warm, cache>>
  BY DEF PushStarts
<1>2. ASSUME NEW m \in Nodes PROVE NodeOk(m)'
  <2>1. CASE m = n
    BY <2>1 DEF PushStarts, NodeOk, TypeOK
  <2>2. CASE m # n
    <3>1. /\ m \in due => m \in due'
          /\ \A k \in Nodes \ {m} : owes[k] \subseteq owes'[k]
          /\ busy'[m] = busy[m] /\ seen'[m] = seen[m] /\ own'[m] = own[m] /\ runs'[m] = runs[m]
          /\ aged' = aged
      BY <2>2 DEF PushStarts, TypeOK, textVars
    <3>. QED  BY <1>1, <3>1, TellFrame, NodeFrame, SaversKept DEF Sound
  <2>. QED  BY <2>1, <2>2
<1>. QED  BY <1>1, <1>2, SaversKept, CacheKept DEF Sound

\* A mend ages the nodes of its cascade: the one being pushed is going to read
\* it, the others are to be told.
LEMMA MendsLegsSound ==
  ASSUME TypeOK, Sound, NEW n \in Nodes, NEW c \in Cascades, MendsLegs(n, c)
  PROVE  Sound'
<1>1. UNCHANGED <<rowVars, saveVars>> /\ UNCHANGED <<rowVars, saveVars, warm, cache>>
  BY DEF MendsLegs
<1>2. UNCHANGED <<due, busy, seen, own, runs>> /\ mem' = mem
  BY DEF MendsLegs, rowVars
<1>3. /\ \A k \in Nodes : owes[k] \subseteq owes'[k]
      /\ c \in plain => owes'[n] = {c} /\ aged' = aged \cup {m \in Nodes : c \in runs[m]}
      /\ c \notin plain => aged' = aged
  BY DEF MendsLegs, Rewrites, TypeOK
<1>4. ASSUME NEW m \in Nodes PROVE NodeOk(m)'
  <2>1. CASE m = n
    BY <2>1, <1>2 DEF MendsLegs, NodeOk
  <2>2. CASE m # n /\ ~ToBeTold(m) /\ m \in aged' /\ m \notin aged /\ busy[m] = "no"
    <3>1. Right(m) /\ c \in plain /\ c \in runs[m]
      BY <2>2, <1>3 DEF Sound, NodeOk
    <3>2. m \in mem'[c] /\ c \in owes'[n]
      BY <3>1, <1>2, <1>3, OwnerHas DEF Right
    <3>. QED  BY <2>2, <3>2 DEF NodeOk, ToBeTold
  <2>3. CASE m # n /\ (ToBeTold(m) \/ m \notin aged' \/ m \in aged)
    BY <2>3, <1>1, <1>2, <1>3, TellFrame, NodeFrame, SaversKept DEF Sound, NodeOk
  <2>4. CASE m # n /\ ~ToBeTold(m) /\ busy[m] # "no"
    <3>1. Dead' = Dead /\ \A D : Owner(m, D)' = Owner(m, D)
      BY <1>1, SaversKept
    <3>2. \/ busy[m] = "mend"
          \/ busy[m] \in {"fill", "owner"} /\ Owner(m, seen[m]) = Owner(m, Dead)
          \/ busy[m] = "draw" /\ own[m] = Owner(m, Dead)
      BY <2>4 DEF Sound, NodeOk
    <3>3. Owner(m, seen[m])' = Owner(m, seen[m]) /\ Owner(m, Dead)' = Owner(m, Dead)
      BY <3>1, <1>2
    <3>. QED  BY <3>2, <3>3, <1>2 DEF NodeOk
  <2>. QED  BY <2>1, <2>2, <2>3, <2>4
<1>. QED  BY <1>1, <1>4, SaversKept, CacheKept DEF Sound

LEMMA TellsOthersSound ==
  ASSUME TypeOK, Sound, NEW n \in Nodes, TellsOthers(n)
  PROVE  Sound'
<1>1. UNCHANGED <<rowVars, saveVars>> /\ UNCHANGED <<rowVars, saveVars, warm, cache>>
  BY DEF TellsOthers
<1>2. /\ UNCHANGED <<busy, seen, own, runs, aged>> /\ due \subseteq due'
      /\ \A k \in Nodes \ {n} : owes'[k] = owes[k]
  BY DEF TellsOthers, textVars, TypeOK
<1>3. ASSUME NEW m \in Nodes PROVE NodeOk(m)'
  <2>1. CASE m # n /\ \E c \in owes[n] : m \in mem[c]
    <3>1. m \in due'
      BY <2>1 DEF TellsOthers
    <3>. QED  BY <3>1 DEF NodeOk, ToBeTold
  <2>2. CASE ~(m # n /\ \E c \in owes[n] : m \in mem[c])
    <3>1. ToBeTold(m) => ToBeTold(m)'
      <4>. SUFFICES ASSUME ToBeTold(m) PROVE ToBeTold(m)'
        OBVIOUS
      <4>1. \A s \in Savers : Told(s)' = Told(s) /\ pc'[s] = pc[s]
        BY <1>1, SaversKept DEF saveVars
      <4>2. mem' = mem
        BY <1>1 DEF rowVars
      <4>3. CASE m \in due
        BY <4>3, <1>2 DEF ToBeTold
      <4>4. CASE \E s \in Savers : pc[s] = "emit" /\ m \in Told(s)
        BY <4>1, <4>4 DEF ToBeTold
      <4>5. CASE \E k \in Nodes : k # m /\ \E c \in owes[k] : m \in mem[c]
        <5>1. PICK k \in Nodes : k # m /\ \E c \in owes[k] : m \in mem[c]
          BY <4>5
        <5>2. k # n /\ owes'[k] = owes[k]
          BY <5>1, <2>2, <1>2
        <5>. QED  BY <4>2, <5>1, <5>2 DEF ToBeTold
      <4>. QED  BY <4>3, <4>4, <4>5 DEF ToBeTold
    <3>. QED  BY <3>1, <1>1, <1>2, NodeFrame, SaversKept DEF Sound
  <2>. QED  BY <2>1, <2>2
<1>. QED  BY <1>1, <1>3, SaversKept, CacheKept DEF Sound

\* The cached set may be the one from before a save that has committed: it
\* misleads only the nodes that save is going to tell.
LEMMA AsksDeadSound ==
  ASSUME TypeOK, Sound, NEW n \in Nodes, AsksDead(n)
  PROVE  Sound'
<1>1. UNCHANGED <<rowVars, saveVars>> /\ UNCHANGED <<rowVars, saveVars, warm, cache>>
  BY DEF AsksDead
<1>2. UNCHANGED <<due, owes, own, runs, aged>>
  BY DEF AsksDead, textVars
<1>3. Dead' = Dead /\ \A D : Owner(n, D)' = Owner(n, D)
  BY <1>1, SaversKept
<1>4. /\ seen'[n] = (IF warm THEN cache ELSE Dead)
      /\ busy'[n] \in {"fill", "owner"}
  BY DEF AsksDead, TypeOK
<1>5. NodeOk(n)'
  <2>1. CASE seen'[n] = Dead
    <3>1. Owner(n, seen[n])' = Owner(n, Dead)'
      BY <2>1, <1>3
    <3>. QED  BY <1>4, <3>1 DEF NodeOk
  <2>2. CASE seen'[n] # Dead
    <3>1. PICK s \in Savers : Moving(s) /\ cache = before[s]
      BY <2>2, <1>4 DEF Sound, CacheOk
    <3>2. seen'[n] = before[s]
      BY <2>2, <3>1, <1>4
    <3>3. CASE n \in Told(s)
      <4>1. n \in Told(s)' /\ pc'[s] = "emit"
        BY <3>1, <3>3, <1>1, SaversKept DEF Moving
      <4>. QED  BY <4>1 DEF NodeOk, ToBeTold
    <3>4. CASE n \notin Told(s)
      <4>1. Owner(n, before[s]) = Owner(n, Dead)
        BY <3>1, <3>4 DEF Sound, SaverOk, EmitOk
      <4>2. Owner(n, seen[n])' = Owner(n, Dead)'
        BY <3>2, <4>1, <1>3
      <4>. QED  BY <1>4, <4>2 DEF NodeOk
    <3>. QED  BY <3>3, <3>4
  <2>. QED  BY <2>1, <2>2
<1>6. ASSUME NEW m \in Nodes, m # n PROVE NodeOk(m)'
  <2>1. busy'[m] = busy[m] /\ seen'[m] = seen[m]
    BY <1>6 DEF AsksDead, TypeOK
  <2>. QED  BY <2>1, <1>1, <1>2, TellFrame, NodeFrame, SaversKept DEF Sound
<1>. QED  BY <1>1, <1>5, <1>6, SaversKept, CacheKept DEF Sound

LEMMA FillsCacheSound ==
  ASSUME TypeOK, Sound, NEW n \in Nodes, FillsCache(n), ~disturbed'
  PROVE  Sound'
<1>1. UNCHANGED <<rowVars, saveVars>>
  BY DEF FillsCache
<1>2. UNCHANGED <<due, owes, seen, own, runs, aged>>
  BY DEF FillsCache, textVars
<1>3. Dead' = Dead /\ \A D : Owner(n, D)' = Owner(n, D)
  BY <1>1, SaversKept
<1>4. CacheOk'
  <2>1. cache' = Dead
    BY DEF FillsCache
  <2>. QED  BY <2>1, <1>3 DEF CacheOk
<1>5. NodeOk(n)'
  <2>1. busy[n] = "fill" /\ busy'[n] = "owner"
    BY DEF FillsCache, TypeOK
  <2>2. ToBeTold(n) => ToBeTold(n)'
    BY <1>1, <1>2, TellFrame
  <2>3. Owner(n, seen[n]) = Owner(n, Dead) => Owner(n, seen[n])' = Owner(n, Dead)'
    BY <1>2, <1>3
  <2>. QED  BY <2>1, <2>2, <2>3 DEF Sound, NodeOk
<1>6. ASSUME NEW m \in Nodes, m # n PROVE NodeOk(m)'
  <2>1. busy'[m] = busy[m]
    BY <1>6 DEF FillsCache, TypeOK
  <2>. QED  BY <2>1, <1>1, <1>2, TellFrame, NodeFrame, SaversKept DEF Sound
<1>. QED  BY <1>1, <1>4, <1>5, <1>6, SaversKept DEF Sound

LEMMA FindsOwnerSound ==
  ASSUME TypeOK, Sound, NEW n \in Nodes, FindsOwner(n)
  PROVE  Sound'
<1>1. UNCHANGED <<rowVars, saveVars>> /\ UNCHANGED <<rowVars, saveVars, warm, cache>>
  BY DEF FindsOwner
<1>2. UNCHANGED <<due, owes, runs, aged>>
  BY DEF FindsOwner, textVars
<1>3. Owner(n, Dead)' = Owner(n, Dead)
  BY <1>1, SaversKept
<1>4. NodeOk(n)'
  <2>1. busy[n] = "owner" /\ busy'[n] = "draw" /\ own'[n] = Owner(n, seen[n])
    BY DEF FindsOwner, TypeOK
  <2>2. ToBeTold(n) => ToBeTold(n)'
    BY <1>1, <1>2, TellFrame
  <2>. QED  BY <1>3, <2>1, <2>2 DEF Sound, NodeOk
<1>5. ASSUME NEW m \in Nodes, m # n PROVE NodeOk(m)'
  <2>1. busy'[m] = busy[m] /\ seen'[m] = seen[m] /\ own'[m] = own[m]
    BY <1>5 DEF FindsOwner, TypeOK
  <2>. QED  BY <2>1, <1>1, <1>2, TellFrame, NodeFrame, SaversKept DEF Sound
<1>. QED  BY <1>1, <1>4, <1>5, SaversKept, CacheKept DEF Sound

\* Nobody owes an announcement for a mend but a push that mends.
LEMMA DrawsSound ==
  ASSUME TypeOK, Sound, NEW n \in Nodes, Draws(n), owes[n] = {}
  PROVE  Sound'
<1>1. UNCHANGED <<rowVars, saveVars>> /\ UNCHANGED <<rowVars, saveVars, warm, cache>>
  BY DEF Draws
<1>2. /\ due' = due /\ aged' = aged \ {n} /\ runs' = [runs EXCEPT ![n] = own[n] \cap there]
      /\ \A k \in Nodes \ {n} : busy'[k] = busy[k] /\ owes'[k] = owes[k] /\ seen'[k] = seen[k] /\ own'[k] = own[k]
      /\ busy[n] = "draw" /\ busy'[n] = "no"
  BY DEF Draws, PushEnds
<1>3. Owner(n, Dead)' = Owner(n, Dead)
  BY <1>1, SaversKept
<1>4. NodeOk(n)'
  <2>1. ToBeTold(n) => ToBeTold(n)'
    BY <1>1, <1>2, TellFrame
  <2>2. own[n] = Owner(n, Dead) => runs'[n] = Owner(n, Dead)
    <3>1. Owner(n, Dead) \subseteq there
      BY OwnerHas DEF TypeOK
    <3>. QED  BY <3>1, <1>2 DEF TypeOK
  <2>. QED  BY <1>2, <1>3, <2>1, <2>2 DEF Sound, NodeOk, Right
<1>5. ASSUME NEW m \in Nodes, m # n PROVE NodeOk(m)'
  <2>1. /\ busy'[m] = busy[m] /\ seen'[m] = seen[m] /\ own'[m] = own[m]
        /\ runs'[m] = runs[m] /\ (m \in aged' => m \in aged)
    BY <1>2, <1>5 DEF TypeOK
  <2>2. \A k \in Nodes \ {m} : owes[k] \subseteq owes'[k]
    BY <1>2
  <2>. QED  BY <2>1, <2>2, <1>1, <1>2, TellFrame, NodeFrame, SaversKept DEF Sound
<1>. QED  BY <1>1, <1>4, <1>5, SaversKept, CacheKept DEF Sound

LEMMA PushFailsSound ==
  ASSUME TypeOK, Sound, NEW n \in Nodes, PushFails(n), ~disturbed'
  PROVE  Sound'
<1>1. UNCHANGED <<rowVars, saveVars>> /\ UNCHANGED <<rowVars, saveVars, warm, cache>>
  BY DEF PushFails
<1>2. /\ due' = due \cup {n} /\ UNCHANGED <<aged, runs>> /\ owes[n] = {}
      /\ \A k \in Nodes \ {n} : busy'[k] = busy[k] /\ owes'[k] = owes[k] /\ seen'[k] = seen[k] /\ own'[k] = own[k]
  BY DEF PushFails, PushEnds, textVars
<1>3. NodeOk(n)'
  BY <1>2 DEF NodeOk, ToBeTold
<1>4. ASSUME NEW m \in Nodes, m # n PROVE NodeOk(m)'
  <2>1. /\ busy'[m] = busy[m] /\ seen'[m] = seen[m] /\ own'[m] = own[m]
        /\ \A k \in Nodes \ {m} : owes[k] \subseteq owes'[k]
    BY <1>2, <1>4
  <2>. QED  BY <2>1, <1>1, <1>2, TellFrame, NodeFrame, SaversKept DEF Sound
<1>. QED  BY <1>1, <1>3, <1>4, SaversKept, CacheKept DEF Sound

LEMMA TimeSound ==
  ASSUME TypeOK, Sound, CacheExpires \/ \E n \in Nodes : DrawingCheck(n)
  PROVE  Sound'
<1>1. UNCHANGED <<rowVars, saveVars>> /\ (warm' = FALSE \/ UNCHANGED <<rowVars, saveVars, warm, cache>>)
  BY DEF CacheExpires, DrawingCheck
<1>2. UNCHANGED <<busy, owes, seen, own, runs, aged>> /\ due \subseteq due'
  BY DEF CacheExpires, DrawingCheck, pushVars, textVars
<1>3. \A m \in Nodes : NodeOk(m)'
  BY <1>1, <1>2, TellFrame, NodeFrame, SaversKept DEF Sound
<1>4. CacheOk'
  BY <1>1, CacheKept DEF CacheOk
<1>. QED  BY <1>1, <1>3, <1>4, SaversKept DEF Sound

----------------------------------------------------------------------------
(* The steps of saves *)

\* While savers do not overlap, a step of one finds the others idle.
LEMMA OthersIdle ==
  ASSUME NEW s \in Savers, \A t \in Savers \ {s} : pc[t] = "idle" /\ pc'[t] = "idle"
  PROVE  /\ Alone'
         /\ \A t \in Savers \ {s} : SaverOk(t)' /\ ~Moving(t) /\ ~Moving(t)'
<1>1. Alone'
  BY DEF Alone, Idle
<1>2. ASSUME NEW t \in Savers \ {s} PROVE SaverOk(t)' /\ ~Moving(t) /\ ~Moving(t)'
  BY DEF SaverOk, Phase, ReadOk, Gated, BeforeOk, EmitOk, Moving
<1>. QED  BY <1>1, <1>2

LEMMA AloneSo ==
  ASSUME TypeOK, Sound, NEW s \in Savers, pc[s] # "idle", NEW p, pc' = [pc EXCEPT ![s] = p]
  PROVE  pc'[s] = p /\ \A t \in Savers \ {s} : pc[t] = "idle" /\ pc'[t] = "idle"
  BY DEF Sound, Alone, Idle, TypeOK

LEMMA ArrivesSo ==
  ASSUME TypeOK, NEW s \in Savers, NEW r \in Requests, NEW p, Arrives(s, r, p), ~disturbed'
  PROVE  /\ \A t \in Savers \ {s} : pc[t] = "idle" /\ pc'[t] = "idle"
         /\ pc[s] = "idle" /\ pc'[s] = p
         /\ req'[s] = [op |-> r.op, c |-> r.c, en |-> r.en, ns |-> r.ns,
                       was |-> on[r.c], old |-> mem[r.c]]
  BY DEF Arrives, Idle, TypeOK

\* A step before the commit moves no row a node is drawn from.
LEMMA QuietStep ==
  ASSUME TypeOK, Sound, NEW s \in Savers,
         \A t \in Savers \ {s} : pc[t] = "idle" /\ pc'[t] = "idle",
         pc[s] # "emit", pc'[s] # "emit", SaverOk(s)',
         on' = on, mem' = mem, \A c \in Cascades : on[c] => born'[c] = born[c],
         UNCHANGED <<aged, warm, cache, due, pushVars>>
  PROVE  Sound'
<1>1. Dead' = Dead /\ \A n, D : Owner(n, D)' = Owner(n, D)
  BY RowsSame
<1>2. Alone' /\ \A t \in Savers : SaverOk(t)' /\ ~Moving(t)
  BY OthersIdle DEF Moving
<1>3. CacheOk'
  BY <1>1, <1>2 DEF Sound, CacheOk
<1>4. ASSUME NEW n \in Nodes PROVE NodeOk(n)'
  <2>1. ToBeTold(n) => ToBeTold(n)'
    BY DEF ToBeTold, pushVars
  <2>2. Owner(n, Dead)' = Owner(n, Dead)
    BY <1>1
  <2>. QED  BY <1>1, <2>1, <2>2, NodeFrame DEF Sound, pushVars
<1>. QED  BY <1>2, <1>3, <1>4 DEF Sound

LEMMA ArrivesSound ==
  ASSUME TypeOK, Sound, NEW s \in Savers, NEW r \in Requests, ~disturbed',
         UpdateReads(s, r) \/ DeleteReads(s, r) \/ CreateComes(s, r), BornOk
  PROVE  Sound'
<1>1. PICK p \in {"gate", "before"} :
        /\ Arrives(s, r, p) /\ aged' = aged
        /\ p = "gate" => r.op \in {"update", "create"}
        /\ p = "before" => r.op = "delete"
        /\ r.op = "create" => r.c \notin there
  BY DEF UpdateReads, DeleteReads, CreateComes, BornOk
<1>2. /\ \A t \in Savers \ {s} : pc[t] = "idle" /\ pc'[t] = "idle"
      /\ pc[s] = "idle" /\ pc'[s] = p
      /\ req'[s] = [op |-> r.op, c |-> r.c, en |-> r.en, ns |-> r.ns,
                    was |-> on[r.c], old |-> mem[r.c]]
  BY <1>1, ArrivesSo
<1>3. UNCHANGED <<rowVars, warm, cache, due, pushVars>>
  BY <1>1 DEF Arrives
<1>4. /\ req'[s].op = r.op /\ req'[s].c = r.c /\ req'[s].was = on[r.c] /\ req'[s].old = mem[r.c]
  BY <1>2
<1>5. SaverOk(s)'
  <2>1. Phase(s)' /\ BeforeOk(s)' /\ EmitOk(s)'
    BY <1>1, <1>2, <1>4 DEF Phase, BeforeOk, EmitOk, Moving
  <2>2. ReadOk(s)'
    BY <1>1, <1>3, <1>4 DEF ReadOk, rowVars
  <2>3. Gated(s)'
    BY <1>1, <1>2, <1>4 DEF Gated
  <2>. QED  BY <2>1, <2>2, <2>3 DEF SaverOk
<1>. QED  BY <1>1, <1>2, <1>3, <1>5, QuietStep DEF rowVars

LEMMA RotateSound ==
  ASSUME TypeOK, Sound, NEW s \in Savers, NEW r \in Requests, ~disturbed', RotateCommits(s, r)
  PROVE  Sound'
<1>1. Arrives(s, r, "emit") /\ aged' = aged \cup {n \in r.ns : r.c \in runs[n]} /\ r.op = "rotate"
  BY DEF RotateCommits, Rewrites
<1>2. /\ \A t \in Savers \ {s} : pc[t] = "idle" /\ pc'[t] = "idle"
      /\ pc[s] = "idle" /\ pc'[s] = "emit"
      /\ req'[s] = [op |-> r.op, c |-> r.c, en |-> r.en, ns |-> r.ns,
                    was |-> on[r.c], old |-> mem[r.c]]
  BY <1>1, ArrivesSo
<1>3. UNCHANGED <<rowVars, warm, cache, due, pushVars>>
  BY <1>1 DEF Arrives
<1>4. Dead' = Dead /\ \A n, D : Owner(n, D)' = Owner(n, D)
  BY <1>3, RowsSame DEF rowVars
<1>5. req'[s].op = "rotate" /\ req'[s].ns = r.ns
  BY <1>1, <1>2
<1>6. Told(s)' = r.ns
  BY <1>5 DEF Told
<1>7. SaverOk(s)'
  BY <1>2, <1>5 DEF SaverOk, Phase, ReadOk, Gated, BeforeOk, EmitOk, Moving
<1>8. Alone' /\ \A t \in Savers : SaverOk(t)' /\ ~Moving(t)
  BY <1>2, <1>7, OthersIdle DEF Moving
<1>9. CacheOk'
  BY <1>3, <1>4, <1>8 DEF Sound, CacheOk
<1>10. ASSUME NEW n \in Nodes PROVE NodeOk(n)'
  <2>1. CASE n \in r.ns
    BY <2>1, <1>2, <1>6 DEF NodeOk, ToBeTold
  <2>2. CASE n \notin r.ns
    <3>1. ToBeTold(n) => ToBeTold(n)'
      BY <1>2, <1>3 DEF ToBeTold, pushVars, rowVars
    <3>2. Owner(n, Dead)' = Owner(n, Dead)
      BY <1>4
    <3>. QED  BY <2>2, <1>1, <1>3, <1>4, <3>1, <3>2, NodeFrame DEF Sound, pushVars
  <2>. QED  BY <2>1, <2>2
<1>. QED  BY <1>8, <1>9, <1>10 DEF Sound

LEMMA GateSound ==
  ASSUME TypeOK, Sound, NEW s \in Savers, Gate(s)
  PROVE  Sound'
<1>. DEFINE p == IF req[s].op = "create" THEN "commit" ELSE "before"
<1>1. /\ pc[s] = "gate" /\ pc' = [pc EXCEPT ![s] = p] /\ (Asked(s) => Free(s))
      /\ UNCHANGED <<there, on, mem, textVars, warm, cache, req, before, due, pushVars>>
  BY DEF Gate
<1>2. pc'[s] = p /\ \A t \in Savers \ {s} : pc[t] = "idle" /\ pc'[t] = "idle"
  BY <1>1, AloneSo
<1>3. /\ req[s].op \in {"update", "create"} /\ req[s].old = mem[req[s].c]
      /\ req[s].was = on[req[s].c] /\ (req[s].op = "create" => req[s].c \notin there)
  BY <1>1 DEF Sound, SaverOk, Phase, ReadOk
<1>4. \A c \in Cascades : on[c] => born'[c] = born[c]
  BY <1>3 DEF Gate, TypeOK
<1>5. SaverOk(s)'
  <2>1. Phase(s)' /\ EmitOk(s)'
    BY <1>1, <1>2, <1>3 DEF Phase, EmitOk, Moving
  <2>4. BeforeOk(s)'
    BY <1>1, <1>2, <1>3 DEF BeforeOk
  <2>2. ReadOk(s)'
    BY <1>1, <1>3 DEF ReadOk
  <2>3. Gated(s)'
    BY <1>1 DEF Gated, Asked, WillBeOn, Free, Target
  <2>. QED  BY <2>1, <2>2, <2>3, <2>4 DEF SaverOk
<1>6. pc'[s] # "emit"
  BY <1>2
<1>. QED  BY <1>1, <1>2, <1>4, <1>5, <1>6, QuietStep DEF textVars

LEMMA RefusedSound ==
  ASSUME TypeOK, Sound, NEW s \in Savers, Refused(s)
  PROVE  Sound'
<1>1. /\ pc[s] \in {"gate", "before", "commit"} /\ pc' = [pc EXCEPT ![s] = "idle"]
      /\ UNCHANGED <<rowVars, textVars, warm, cache, due, pushVars>>
  BY DEF Refused, Answered
<1>2. pc'[s] = "idle" /\ \A t \in Savers \ {s} : pc[t] = "idle" /\ pc'[t] = "idle"
  BY <1>1, AloneSo
<1>3. SaverOk(s)'
  BY <1>2 DEF SaverOk, Phase, ReadOk, Gated, BeforeOk, EmitOk, Moving
<1>. QED  BY <1>1, <1>2, <1>3, QuietStep DEF textVars, rowVars

LEMMA DeadBeforeSound ==
  ASSUME TypeOK, Sound, NEW s \in Savers, DeadBefore(s)
  PROVE  Sound'
<1>1. /\ pc[s] = "before" /\ pc' = [pc EXCEPT ![s] = "commit"] /\ before'[s] = Dead
      /\ UNCHANGED <<rowVars, textVars, warm, cache, req, due, pushVars>>
  BY DEF DeadBefore, TypeOK
<1>2. pc'[s] = "commit" /\ \A t \in Savers \ {s} : pc[t] = "idle" /\ pc'[t] = "idle"
  BY <1>1, AloneSo
<1>3. Dead' = Dead
  BY <1>1, RowsSame DEF rowVars
<1>4. SaverOk(s)'
  <2>1. Phase(s)' /\ EmitOk(s)' /\ BeforeOk(s)'
    BY <1>1, <1>2, <1>3 DEF Sound, SaverOk, Phase, EmitOk, BeforeOk, Moving
  <2>2. ReadOk(s)'
    BY <1>1, <1>2 DEF Sound, SaverOk, ReadOk, rowVars
  <2>3. Gated(s)'
    BY <1>1, <1>2 DEF Sound, SaverOk, Gated, Asked, WillBeOn, Free, Target, rowVars
  <2>. QED  BY <2>1, <2>2, <2>3 DEF SaverOk
<1>. QED  BY <1>1, <1>2, <1>4, QuietStep DEF textVars, rowVars

\* A save of cascade c moves the owner of no node outside the old and the new
\* nodes of c and those of the cascades it revives or kills.
LEMMA SaveMoves ==
  ASSUME NEW c, NEW n \in Nodes, born' = born, n \notin mem[c], n \notin mem'[c],
         \A d \in Cascades \ {c} : on'[d] = on[d] /\ mem'[d] = mem[d],
         \A d \in (Dead \ Dead') \cup (Dead' \ Dead) : n \notin mem'[d]
  PROVE  /\ \A D : Owner(n, D)' = Owner(n, D)
         /\ Owner(n, Dead)' = Owner(n, Dead)
<1>1. ASSUME NEW D PROVE Carrying(n, D)' = Carrying(n, D)
  BY DEF Carrying
<1>2. ASSUME NEW D PROVE Owner(n, D)' = Owner(n, D)
  BY <1>1 DEF Owner, Older
<1>3. Carrying(n, Dead)' = Carrying(n, Dead)
  <2>1. ASSUME NEW d \in Cascades PROVE d \in Carrying(n, Dead)' <=> d \in Carrying(n, Dead)
    <3>1. CASE n \in mem[d]
      <4>1. d # c /\ n \in mem'[d] /\ on'[d] = on[d]
        BY <3>1
      <4>2. d \in Dead' <=> d \in Dead
        BY <4>1
      <4>. QED  BY <3>1, <4>1, <4>2 DEF Carrying
    <3>2. CASE n \notin mem[d]
      <4>1. n \notin mem'[d]
        BY <3>2
      <4>. QED  BY <3>2, <4>1 DEF Carrying
    <3>. QED  BY <3>1, <3>2
  <2>2. Carrying(n, Dead)' \subseteq Cascades /\ Carrying(n, Dead) \subseteq Cascades
    BY DEF Carrying
  <2>. QED  BY <2>1, <2>2
<1>4. Owner(n, Dead)' = Owner(n, Dead)
  BY <1>3 DEF Owner, Older
<1>. QED  BY <1>2, <1>4

\* The commit of an update or a deletion.
LEMMA CommitSound ==
  ASSUME TypeOK, Sound, NEW s \in Savers, UpdateCommits(s) \/ DeleteCommits(s)
  PROVE  Sound'
<1>. DEFINE c == req[s].c
<1>1. /\ pc[s] = "commit" /\ req[s].op \in {"update", "delete"} /\ pc' = [pc EXCEPT ![s] = "emit"]
      /\ UNCHANGED <<born, warm, cache, req, before, due, pushVars>>
  BY DEF UpdateCommits, Writes, DeleteCommits
<1>2. /\ \A d \in Cascades \ {c} : on'[d] = on[d] /\ mem'[d] = mem[d]
      /\ c \in Cascades /\ mem'[c] \subseteq mem[c] \cup req[s].ns
  BY ToldTyped DEF UpdateCommits, Writes, DeleteCommits, TypeOK
<1>3. aged' \subseteq aged \cup {n \in Nodes : c \in runs[n]}
  BY DEF UpdateCommits, Writes, Rewrites, DeleteCommits
<1>4. pc'[s] = "emit" /\ \A t \in Savers \ {s} : pc[t] = "idle" /\ pc'[t] = "idle"
  BY <1>1, AloneSo
<1>5. before'[s] = Dead /\ req[s].old = mem[c] /\ req'[s] = req[s]
  BY <1>1 DEF Sound, SaverOk, BeforeOk, ReadOk
<1>6. Told(s)' = mem[c] \cup req[s].ns \cup NodesOfDeadMoved(s)'
  BY <1>1, <1>5 DEF Told
<1>7. ASSUME NEW n \in Nodes, n \notin Told(s)'
      PROVE  (\A D : Owner(n, D)' = Owner(n, D)) /\ Owner(n, Dead)' = Owner(n, Dead)
  <2>1. n \notin mem[c] /\ n \notin mem'[c]
    BY <1>2, <1>6, <1>7
  <2>2. DeadMoved(s)' = (Dead \ Dead') \cup (Dead' \ Dead)
    BY <1>5 DEF DeadMoved
  <2>3. ASSUME NEW d \in DeadMoved(s)' PROVE n \notin mem'[d]
    BY <1>6, <1>7 DEF NodesOfDeadMoved
  <2>. QED  BY <1>1, <1>2, <2>1, <2>2, <2>3, SaveMoves
<1>8. SaverOk(s)'
  <2>1. Phase(s)' /\ ReadOk(s)' /\ Gated(s)' /\ BeforeOk(s)'
    BY <1>4 DEF Phase, ReadOk, Gated, BeforeOk
  <2>2. EmitOk(s)'
    <3>1. ASSUME NEW n \in Nodes, n \notin Told(s)' PROVE Owner(n, before[s])' = Owner(n, Dead)'
      <4>1. Owner(n, before[s])' = Owner(n, Dead)
        BY <1>5, <1>7, <3>1
      <4>. QED  BY <4>1, <1>7, <3>1
    <3>. QED  BY <3>1 DEF EmitOk
  <2>. QED  BY <2>1, <2>2 DEF SaverOk
<1>9. Alone' /\ \A t \in Savers : SaverOk(t)' /\ ~Moving(t)
  BY <1>1, <1>4, <1>8, OthersIdle DEF Moving
<1>10. CacheOk'
  <2>1. warm => cache = Dead
    BY <1>9 DEF Sound, CacheOk
  <2>2. Moving(s)'
    BY <1>1, <1>4 DEF Moving
  <2>. QED  BY <1>1, <1>5, <2>1, <2>2 DEF CacheOk
<1>11. ASSUME NEW n \in Nodes PROVE NodeOk(n)'
  <2>1. CASE n \in Told(s)'
    BY <2>1, <1>4 DEF NodeOk, ToBeTold
  <2>2. CASE n \notin Told(s)'
    <3>1. /\ n \notin mem[c] /\ n \notin mem'[c]
      BY <2>2, <1>2, <1>6
    <3>2. \A d \in Cascades : n \in mem[d] => n \in mem'[d]
      BY <3>1, <1>2
    <3>3. ToBeTold(n) => ToBeTold(n)'
      BY <3>2, <1>1, <1>4 DEF ToBeTold, pushVars, TypeOK
    <3>4. Right(n) /\ n \in aged' => n \in aged
      BY <3>1, <1>3, OwnerHas DEF Right
    <3>. QED  BY <2>2, <1>1, <1>7, <3>3, <3>4, NodeFrame DEF Sound, pushVars
  <2>. QED  BY <2>1, <2>2
<1>. QED  BY <1>9, <1>10, <1>11 DEF Sound

\* A create passed the gate: the new cascade shares no node with an enabled
\* one, so it revives and kills nobody.
LEMMA CreateSound ==
  ASSUME TypeOK, Sound, NEW s \in Savers, CreateCommits(s)
  PROVE  Sound'
<1>. DEFINE c == req[s].c
<1>1. /\ pc[s] = "commit" /\ req[s].op = "create" /\ pc' = [pc EXCEPT ![s] = "emit"]
      /\ UNCHANGED <<born, aged, warm, cache, req, before, due, pushVars>>
  BY DEF CreateCommits, textVars
<1>2. /\ \A d \in Cascades \ {c} : on'[d] = on[d] /\ mem'[d] = mem[d]
      /\ c \in Cascades /\ mem'[c] = req[s].ns /\ (on'[c] <=> req[s].en = "on")
  BY ToldTyped DEF CreateCommits, TypeOK
<1>3. pc'[s] = "emit" /\ \A t \in Savers \ {s} : pc[t] = "idle" /\ pc'[t] = "idle"
  BY <1>1, AloneSo
<1>4. ~on[c] /\ mem[c] = {} /\ ~req[s].was /\ req[s].old = {}
  BY <1>1, <1>2 DEF Sound, SaverOk, ReadOk, TypeOK
<1>5. on'[c] => \A d \in Cascades \ {c} : on[d] => mem[d] \cap mem'[c] = {}
  <2>1. on'[c] => Asked(s)
    BY <1>2, <1>4 DEF Asked, WillBeOn
  <2>2. Asked(s) => Free(s)
    BY <1>1 DEF Sound, SaverOk, Gated
  <2>3. Target(s) = mem'[c]
    BY <1>2, <1>4 DEF Target
  <2>. QED  BY <2>1, <2>2, <2>3 DEF Free
<1>6. Dead' = Dead
  <2>1. ASSUME NEW d \in Cascades, NEW e \in Cascades
        PROVE  (on'[d] /\ on'[e] /\ Older(e, d)' /\ Shares(d, e)') <=>
               (on[d] /\ on[e] /\ Older(e, d) /\ Shares(d, e))
    <3>1. CASE d # c /\ e # c
      BY <3>1, <1>1, <1>2 DEF Older, Shares
    <3>2. CASE d = c /\ e # c
      BY <3>2, <1>2, <1>4, <1>5 DEF Shares
    <3>3. CASE e = c /\ d # c
      BY <3>3, <1>2, <1>4, <1>5 DEF Shares
    <3>4. CASE d = c /\ e = c
      <4>1. e = d
        BY <3>4
      <4>2. ~Older(e, d) /\ ~Older(e, d)'
        BY <4>1, <1>1 DEF Older, TypeOK
      <4>. QED  BY <4>2
    <3>. QED  BY <3>1, <3>2, <3>3, <3>4
  <2>. QED  BY <2>1 DEF Dead
<1>7. Told(s)' = req[s].ns
  BY <1>1 DEF Told
<1>8. SaverOk(s)'
  BY <1>1, <1>3 DEF SaverOk, Phase, ReadOk, Gated, BeforeOk, EmitOk, Moving
<1>9. Alone' /\ \A t \in Savers : SaverOk(t)' /\ ~Moving(t)
  BY <1>1, <1>3, <1>8, OthersIdle DEF Moving
<1>10. CacheOk'
  BY <1>1, <1>6, <1>9 DEF Sound, CacheOk
<1>11. ASSUME NEW n \in Nodes PROVE NodeOk(n)'
  <2>1. CASE n \in req[s].ns
    BY <2>1, <1>3, <1>7 DEF NodeOk, ToBeTold
  <2>2. CASE n \notin req[s].ns
    <3>1. n \notin mem[c] /\ n \notin mem'[c]
      BY <2>2, <1>2, <1>4
    <3>2. (\A D : Owner(n, D)' = Owner(n, D)) /\ Owner(n, Dead)' = Owner(n, Dead)
      BY <3>1, <1>1, <1>2, <1>6, SaveMoves
    <3>3. \A d \in Cascades : n \in mem[d] => n \in mem'[d]
      BY <3>1, <1>2
    <3>4. ToBeTold(n) => ToBeTold(n)'
      BY <3>3, <1>1, <1>3 DEF ToBeTold, pushVars, TypeOK
    <3>. QED  BY <1>1, <3>2, <3>4, NodeFrame DEF Sound, pushVars
  <2>. QED  BY <2>1, <2>2
<1>. QED  BY <1>9, <1>10, <1>11 DEF Sound

\* The announcement: who was to be told by the save is asked for, and the dead
\* set from before it is dropped.
LEMMA EmitSound ==
  ASSUME TypeOK, Sound, NEW s \in Savers, Emit(s)
  PROVE  Sound'
<1>1. /\ pc[s] = "emit" /\ due' = due \cup Told(s) /\ pc' = [pc EXCEPT ![s] = "idle"]
      /\ UNCHANGED <<rowVars, textVars, pushVars>>
      /\ warm' = FALSE \/ (req[s].op = "rotate" /\ UNCHANGED <<warm, cache>>)
  BY DEF Emit, Answered
<1>2. pc'[s] = "idle" /\ \A t \in Savers \ {s} : pc[t] = "idle" /\ pc'[t] = "idle"
  BY <1>1, AloneSo
<1>3. Dead' = Dead /\ \A n, D : Owner(n, D)' = Owner(n, D)
  BY <1>1, RowsSame DEF rowVars
<1>4. SaverOk(s)'
  BY <1>2 DEF SaverOk, Phase, ReadOk, Gated, BeforeOk, EmitOk, Moving
<1>5. Alone' /\ (\A t \in Savers : SaverOk(t)') /\ \A t \in Savers \ {s} : ~Moving(t)
  BY <1>2, <1>4, OthersIdle
<1>6. CacheOk'
  BY <1>1, <1>3, <1>5 DEF Sound, CacheOk, Moving
<1>7. ASSUME NEW n \in Nodes PROVE NodeOk(n)'
  <2>1. ToBeTold(n) => ToBeTold(n)'
    BY <1>1, <1>2 DEF ToBeTold, pushVars, rowVars
  <2>2. Owner(n, Dead)' = Owner(n, Dead)
    BY <1>3
  <2>. QED  BY <1>1, <1>3, <2>1, <2>2, NodeFrame DEF Sound, pushVars, textVars
<1>. QED  BY <1>5, <1>6, <1>7 DEF Sound

\* A restart that loses no announcement: every push that ran is asked for.
LEMMA RestartSound ==
  ASSUME TypeOK, Sound, PanelRestarts, ~disturbed'
  PROVE  Sound'
<1>1. /\ pc' = [s \in Savers |-> "idle"] /\ warm' = FALSE
      /\ due' = due \cup {n \in Nodes : busy[n] # "no"}
      /\ UNCHANGED <<rowVars, textVars, runs>>
  BY DEF PanelRestarts
<1>2. (\A s \in Savers : pc[s] # "emit") /\ \A n \in Nodes : owes[n] = {}
  BY DEF PanelRestarts
<1>3. \A n \in Nodes : busy'[n] = "no"
  BY DEF PanelRestarts, PushEnds
<1>4. Dead' = Dead /\ \A n, D : Owner(n, D)' = Owner(n, D)
  BY <1>1, RowsSame DEF rowVars
<1>5. Alone' /\ CacheOk'
  BY <1>1 DEF Alone, Idle, CacheOk
<1>6. \A s \in Savers : SaverOk(s)'
  BY <1>1 DEF SaverOk, Phase, ReadOk, Gated, BeforeOk, EmitOk, Moving
<1>7. ASSUME NEW n \in Nodes PROVE NodeOk(n)'
  <2>1. CASE n \in due'
    BY <2>1 DEF NodeOk, ToBeTold
  <2>2. CASE n \notin due'
    <3>1. n \notin due /\ busy[n] = "no"
      BY <2>2, <1>1
    <3>2. ~ToBeTold(n)
      BY <3>1, <1>2 DEF ToBeTold
    <3>3. Right(n)
      BY <3>1, <3>2 DEF Sound, NodeOk
    <3>4. Right(n)'
      BY <3>3, <1>1, <1>4 DEF Right, textVars
    <3>. QED  BY <3>4, <1>3 DEF NodeOk
  <2>. QED  BY <2>1, <2>2
<1>. QED  BY <1>5, <1>6, <1>7 DEF Sound


----------------------------------------------------------------------------
(* The theorems *)

LEMMA MendStep == TypeOK /\ MendOk /\ [Next]_vars => MendOk'
<1>. SUFFICES ASSUME TypeOK, MendOk, [Next]_vars PROVE MendOk'
  OBVIOUS
<1>1. CASE UNCHANGED vars
  BY <1>1 DEF MendOk, vars, pushVars
<1>2. ASSUME NEW s \in Savers,
             \/ \E r \in Requests :
                  UpdateReads(s, r) \/ CreateComes(s, r) \/ DeleteReads(s, r) \/ RotateCommits(s, r)
             \/ SaverSteps(s) \/ Refused(s) \/ EmitFails(s)
      PROVE  MendOk'
  <2>1. UNCHANGED pushVars
    BY <1>2 DEF UpdateReads, CreateComes, DeleteReads, RotateCommits, Arrives, SaverSteps, Gate,
                DeadBefore, UpdateCommits, Writes, CreateCommits, DeleteCommits, Emit, Refused, EmitFails
  <2>. QED  BY <2>1 DEF MendOk, pushVars
<1>3. ASSUME NEW n \in Nodes, PushSteps(n)
      PROVE  MendOk'
  <2>1. CASE PushStarts(n)
    BY <2>1 DEF PushStarts, MendOk, TypeOK
  <2>2. ASSUME NEW c \in Cascades, MendsLegs(n, c) PROVE MendOk'
    BY <2>2 DEF MendsLegs, MendOk, TypeOK
  <2>3. CASE TellsOthers(n)
    BY <2>3 DEF TellsOthers, MendOk, TypeOK
  <2>4. CASE AsksDead(n)
    BY <2>4 DEF AsksDead, MendOk, TypeOK
  <2>5. CASE FillsCache(n)
    BY <2>5 DEF FillsCache, MendOk, TypeOK
  <2>6. CASE FindsOwner(n)
    BY <2>6 DEF FindsOwner, MendOk, TypeOK
  <2>7. CASE Draws(n)
    BY <2>7 DEF Draws, PushEnds, MendOk, TypeOK
  <2>. QED  BY <1>3, <2>1, <2>2, <2>3, <2>4, <2>5, <2>6, <2>7 DEF PushSteps
<1>4. ASSUME NEW n \in Nodes, PushFails(n) PROVE MendOk'
  BY <1>4 DEF PushFails, PushEnds, MendOk, TypeOK
<1>5. ASSUME NEW n \in Nodes, DrawingCheck(n) PROVE MendOk'
  BY <1>5 DEF DrawingCheck, MendOk, pushVars
<1>6. CASE CacheExpires
  BY <1>6 DEF CacheExpires, MendOk, pushVars
<1>7. CASE PanelRestarts
  BY <1>7 DEF PanelRestarts, PushEnds, MendOk
<1>. QED  BY <1>1, <1>2, <1>3, <1>4, <1>5, <1>6, <1>7 DEF Next

LEMMA InitSound == Init => Sound /\ MendOk
<1>. SUFFICES ASSUME Init PROVE Sound /\ MendOk
  OBVIOUS
<1>1. /\ pc = [s \in Savers |-> "idle"] /\ warm = FALSE /\ busy = [n \in Nodes |-> "no"]
      /\ owes = [n \in Nodes |-> {}] /\ runs = [n \in Nodes |-> Owner(n, Dead)] /\ aged = {}
  BY DEF Init
<1>2. Alone /\ CacheOk /\ MendOk
  BY <1>1 DEF Alone, Idle, CacheOk, MendOk
<1>3. \A s \in Savers : SaverOk(s)
  BY <1>1 DEF SaverOk, Phase, ReadOk, Gated, BeforeOk, EmitOk, Moving
<1>4. ASSUME NEW n \in Nodes PROVE NodeOk(n)
  <2>1. Right(n)
    BY <1>1 DEF Right
  <2>. QED  BY <1>1, <2>1 DEF NodeOk
<1>. QED  BY <1>2, <1>3, <1>4 DEF Sound

\* Once disturbed, a history stays so.
LEMMA DisturbedStays == TypeOK /\ [Next]_vars /\ ~disturbed' => ~disturbed
<1>. SUFFICES ASSUME TypeOK, [Next]_vars, ~disturbed' PROVE ~disturbed
  OBVIOUS
<1>1. ASSUME NEW s \in Savers, NEW r \in Requests,
             UpdateReads(s, r) \/ CreateComes(s, r) \/ DeleteReads(s, r) \/ RotateCommits(s, r)
      PROVE  ~disturbed
  BY <1>1 DEF UpdateReads, CreateComes, DeleteReads, RotateCommits, Arrives
<1>2. ASSUME NEW s \in Savers, SaverSteps(s) \/ Refused(s) \/ EmitFails(s)
      PROVE  ~disturbed
  BY <1>2 DEF SaverSteps, Gate, DeadBefore, UpdateCommits, Writes, CreateCommits, DeleteCommits, Emit,
              Refused, EmitFails
<1>3. ASSUME NEW n \in Nodes, PushSteps(n) \/ DrawingCheck(n)
      PROVE  ~disturbed
  BY <1>3 DEF PushSteps, PushStarts, MendsLegs, TellsOthers, AsksDead, FillsCache, FindsOwner, Draws,
              DrawingCheck
<1>4. ASSUME NEW n \in Nodes, PushFails(n) PROVE ~disturbed
  BY <1>4 DEF PushFails
<1>5. CASE CacheExpires \/ PanelRestarts \/ UNCHANGED vars
  BY <1>5 DEF CacheExpires, PanelRestarts, vars
<1>. QED  BY <1>1, <1>2, <1>3, <1>4, <1>5 DEF Next

LEMMA SoundStep ==
  ASSUME TypeOK, BornOk, MendOk, Sound, [Next]_vars, ~disturbed'
  PROVE  Sound'
<1>1. CASE UNCHANGED vars
  <2>1. /\ UNCHANGED <<rowVars, saveVars>> /\ UNCHANGED <<rowVars, saveVars, warm, cache>>
        /\ UNCHANGED <<busy, owes, seen, own, runs, aged, due>>
    BY <1>1 DEF vars, pushVars, textVars
  <2>2. \A m \in Nodes : NodeOk(m)'
    BY <2>1, TellFrame, NodeFrame, SaversKept DEF Sound
  <2>. QED  BY <2>1, <2>2, SaversKept, CacheKept DEF Sound
<1>2. ASSUME NEW s \in Savers, NEW r \in Requests,
             UpdateReads(s, r) \/ CreateComes(s, r) \/ DeleteReads(s, r) \/ RotateCommits(s, r)
      PROVE  Sound'
  BY <1>2, ArrivesSound, RotateSound
<1>3. ASSUME NEW s \in Savers, SaverSteps(s) PROVE Sound'
  BY <1>3, GateSound, DeadBeforeSound, CommitSound, CreateSound, EmitSound DEF SaverSteps
<1>4. ASSUME NEW s \in Savers, Refused(s) PROVE Sound'
  BY <1>4, RefusedSound
<1>5. ASSUME NEW s \in Savers, EmitFails(s) PROVE Sound'
  BY <1>5 DEF EmitFails
<1>6. ASSUME NEW n \in Nodes, PushSteps(n) PROVE Sound'
  <2>1. Draws(n) => owes[n] = {}
    BY DEF Draws, MendOk
  <2>. QED  BY <1>6, <2>1, PushStartsSound, MendsLegsSound, TellsOthersSound, AsksDeadSound,
               FillsCacheSound, FindsOwnerSound, DrawsSound DEF PushSteps
<1>7. ASSUME NEW n \in Nodes, PushFails(n) PROVE Sound'
  BY <1>7, PushFailsSound
<1>8. CASE CacheExpires \/ \E n \in Nodes : DrawingCheck(n)
  BY <1>8, TimeSound
<1>9. CASE PanelRestarts
  BY <1>9, RestartSound
<1>. QED  BY <1>1, <1>2, <1>3, <1>4, <1>5, <1>6, <1>7, <1>8, <1>9 DEF Next

\* The inductive invariant holds of every behaviour.
THEOREM Invariant == Spec => []IInv
<1>1. Init => IInv
  BY InitTyped, InitSound DEF IInv
<1>2. IInv /\ [Next]_vars => IInv'
  <2>. SUFFICES ASSUME IInv, [Next]_vars PROVE IInv'
    OBVIOUS
  <2>1. TypeOK' /\ BornOk' /\ MendOk'
    BY TypeStep, MendStep DEF IInv
  <2>2. ~disturbed' => Sound'
    BY SoundStep, DisturbedStays DEF IInv
  <2>. QED  BY <2>1, <2>2 DEF IInv
<1>. QED  BY <1>1, <1>2, PTL DEF Spec

\* The rows, the requests and the jobs keep their types, and only a cascade
\* with a row is enabled, has nodes or legs (the update of a row that is gone
\* is rolled back).
THEOREM TypeCorrect == Spec => []TypeOK
<1>1. IInv => TypeOK
  BY DEF IInv
<1>. QED  BY <1>1, Invariant, PTL

\* A save asks for enough pushes: with saves one after another and no
\* announcement lost, a node nobody is about to push runs what the database
\* says, for any number of cascades, nodes and saves.
THEOREM EnoughIsPushed == Spec => []PushedEnough
<1>1. IInv => PushedEnough
  <2>. SUFFICES ASSUME IInv, ~disturbed, NEW n \in Nodes, Settled(n) PROVE Right(n)
    BY DEF PushedEnough
  <2>1. ~ToBeTold(n)
    BY DEF Settled, ToBeTold
  <2>. QED  BY <2>1 DEF IInv, Sound, NodeOk, Settled
<1>. QED  BY <1>1, Invariant, PTL

\* The commit of a save that passed the gate puts no node into a second enabled
\* cascade.
LEMMA CommitNoPair ==
  ASSUME TypeOK, Sound, NEW s \in Savers, UpdateCommits(s) \/ CreateCommits(s) \/ DeleteCommits(s),
         NEW c \in Cascades, NEW d \in Cascades, Pair(c, d)'
  PROVE  Pair(c, d)
<1>. DEFINE e == req[s].c
<1>1. pc[s] = "commit" /\ e \in Cascades /\ (\A x \in Cascades \ {e} : on'[x] = on[x] /\ mem'[x] = mem[x])
  BY ToldTyped DEF UpdateCommits, Writes, CreateCommits, DeleteCommits, TypeOK
<1>2. req[s].old = mem[e] /\ req[s].was = on[e]
  BY <1>1 DEF Sound, SaverOk, ReadOk
<1>3. ASSUME on'[e], ~(on[e] /\ mem'[e] = mem[e])
      PROVE  \A x \in Cascades \ {e} : on[x] => mem[x] \cap mem'[e] = {}
  <2>1. ~DeleteCommits(s)
    BY <1>1, <1>3 DEF DeleteCommits, TypeOK
  <2>2. CASE UpdateCommits(s)
    <3>1. /\ req[s].op = "update" /\ mem'[e] = Target(s)
          /\ on'[e] = (IF req[s].en = "keep" THEN on[e] ELSE req[s].en = "on")
          /\ req[s].ns = {} => mem'[e] = mem[e]
      BY <2>2, <1>1, <1>2 DEF UpdateCommits, Writes, Target, TypeOK
    <3>2. Asked(s)
      BY <3>1, <1>2, <1>3 DEF Asked, WillBeOn
    <3>. QED  BY <3>1, <3>2, <1>1 DEF Sound, SaverOk, Gated, Free
  <2>3. CASE CreateCommits(s)
    <3>1. /\ req[s].op = "create" /\ mem'[e] = req[s].ns /\ (on'[e] => req[s].en = "on")
      BY <2>3, <1>1 DEF CreateCommits, TypeOK
    <3>2. ~on[e] /\ mem[e] = {}
      BY <3>1, <1>1 DEF Sound, SaverOk, ReadOk, TypeOK
    <3>3. Asked(s) /\ Target(s) = mem'[e]
      BY <3>1, <3>2, <1>2, <1>3 DEF Asked, WillBeOn, Target
    <3>. QED  BY <3>1, <3>3, <1>1 DEF Sound, SaverOk, Gated, Free
  <2>. QED  BY <2>1, <2>2, <2>3
<1>4. CASE c # e /\ d # e
  BY <1>4, <1>1 DEF Pair, Shares
<1>5. CASE c = e /\ d # e
  BY <1>5, <1>1, <1>3 DEF Pair, Shares
<1>6. CASE d = e /\ c # e
  BY <1>6, <1>1, <1>3 DEF Pair, Shares
<1>7. CASE c = e /\ d = e
  BY <1>7 DEF Pair
<1>. QED  BY <1>4, <1>5, <1>6, <1>7

\* A-101 for any number of cascades, nodes and saves: with saves one after
\* another no step makes two enabled cascades share a node that did not share
\* one before.
THEOREM GateKeepsPairsOut == Spec => NoNewPair
<1>1. IInv /\ [Next]_vars => [~disturbed => \A c, d \in Cascades : Pair(c, d)' => Pair(c, d)]_vars
  <2>. SUFFICES ASSUME IInv, Next, ~disturbed, NEW c \in Cascades, NEW d \in Cascades, Pair(c, d)'
                PROVE  Pair(c, d)
    OBVIOUS
  <2>1. CASE \E s \in Savers : UpdateCommits(s) \/ CreateCommits(s) \/ DeleteCommits(s)
    BY <2>1, CommitNoPair DEF IInv
  <2>2. CASE UNCHANGED <<on, mem>>
    BY <2>2 DEF Pair, Shares
  <2>. USE DEF rowVars
  <2>3. ASSUME NEW s \in Savers, NEW r \in Requests,
               UpdateReads(s, r) \/ CreateComes(s, r) \/ DeleteReads(s, r) \/ RotateCommits(s, r)
        PROVE  UNCHANGED <<on, mem>>
    BY <2>3 DEF UpdateReads, CreateComes, DeleteReads, RotateCommits, Arrives
  <2>4. ASSUME NEW s \in Savers, Gate(s) \/ DeadBefore(s) \/ Emit(s) \/ Refused(s) \/ EmitFails(s)
        PROVE  UNCHANGED <<on, mem>>
    BY <2>4 DEF Gate, DeadBefore, Emit, Refused, EmitFails
  <2>5. ASSUME NEW n \in Nodes, PushSteps(n) \/ PushFails(n) \/ DrawingCheck(n)
        PROVE  UNCHANGED <<on, mem>>
    BY <2>5 DEF PushSteps, PushStarts, MendsLegs, TellsOthers, AsksDead, FillsCache, FindsOwner, Draws,
                PushFails, DrawingCheck
  <2>6. CacheExpires \/ PanelRestarts => UNCHANGED <<on, mem>>
    BY DEF CacheExpires, PanelRestarts
  <2>. QED  BY <2>1, <2>2, <2>3, <2>4, <2>5, <2>6 DEF Next, SaverSteps
<1>. QED  BY <1>1, Invariant, PTL DEF Spec, NoNewPair

=============================================================================
