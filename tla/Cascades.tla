------------------------------ MODULE Cascades ------------------------------
(***************************************************************************)
(* Which cascade a node carries: the saves of cascades and the pushes they *)
(* ask for (cascade.service.ts, cascade-exclusive.ts).                     *)
(*                                                                         *)
(* A cascade is a set of nodes.  A node carries one enabled cascade (A-101)*)
(* and a save that would put it into a second one is refused; pairs stored *)
(* before that rule stay, the OLDEST cascade of a pair holds the node, and *)
(* the other is DEAD: it is drawn nowhere, its other nodes included.  So a *)
(* save of one cascade may revive or kill another (A-223), whose nodes     *)
(* then have to be pushed too.  The set of the dead is read through a      *)
(* cache of a minute that every save drops.                                *)
(*                                                                         *)
(* Saves are requests to one process and interleave at every await; pushes *)
(* are the jobs of NodePush, at most one of a node at a time, of which     *)
(* this module keeps what they READ: the legs to mend, the dead set, the   *)
(* owner and its rows, in queries of their own.  A push that is asked for  *)
(* while one of its node runs is run after it, and one that fails is tried *)
(* again: NodePush is about that.                                          *)
(***************************************************************************)
EXTENDS Naturals

CONSTANTS
  Cascades,     \* ids of cascades, stored ones and ones to be created
  Nodes,
  Savers,       \* numbers of the requests that may be under way at once
  Stored,       \* the possible contents of the database at the start:
                \* records of mem (members), on, born and plain
  Start,        \* the time at the start; an id with born 0 is not used yet
  Requests,     \* the requests operators make: records of op, the cascade c,
                \* enabled as sent (en, "keep" when it is not) and the nodes of
                \* the topology as sent (ns, {} when it is not)
  MaxEvents     \* bound on saves, failed pushes, lost announcements and
                \* restarts, together

ASSUME InputsAssumption ==
  /\ Cascades # {} /\ Savers \subseteq Nat /\ MaxEvents \in Nat /\ Start \in Nat \ {0}
  /\ Requests \subseteq [op : {"update", "create", "delete", "rotate"}, c : Cascades,
                         en : {"keep", "on", "off"}, ns : SUBSET Nodes]
  /\ \A r \in Requests : r.op = "create" => r.ns # {} /\ r.en # "keep"
  /\ \A db \in Stored :
       /\ db.mem \in [Cascades -> SUBSET Nodes] /\ db.on \in [Cascades -> BOOLEAN]
       /\ db.born \in [Cascades -> 0 .. Start - 1] /\ db.plain \in SUBSET Cascades
       /\ \A c \in Cascades : db.born[c] = 0 => ~db.on[c] /\ db.mem[c] = {} /\ c \notin db.plain
       /\ \A c, d \in Cascades : db.born[c] = db.born[d] /\ c # d => db.born[c] = 0

VARIABLES
  there,        \* the cascades that have a row
  on,           \* Cascade.enabled
  mem,          \* the nodes of its positions and directions
  born,         \* Cascade.createdAt
  plain,        \* the cascades with a vless leg stored without REALITY
  clock,
  warm, cache,  \* deadCache: is there one, and its ids
  pc, req,      \* of each saver: where it is, and its request with what it
                \* read first: enabled and the nodes as stored (was, old)
  before,       \* deadBefore
  due,          \* the nodes a push is asked for
  busy,         \* of each node: what its push does next
  legs, owes,   \* the cascades it still has to mend, and one to announce
  seen, own,    \* the dead set and the owner it read
  runs,         \* the cascade the node was last pushed, as the set of it
  aged,         \* the nodes whose cascade's rows changed after that
  disturbed,    \* history: two saves overlapped, an announcement was lost,
                \* or a dead set was cached that a save had changed
  events

rowVars  == <<there, on, mem, born, clock>>
textVars == <<plain, aged>>
saveVars == <<pc, req, before>>
pushVars == <<busy, legs, owes, seen, own, runs>>
vars == <<rowVars, textVars, warm, cache, saveVars, due, pushVars, disturbed, events>>

----------------------------------------------------------------------------
(* What the database says *)

\* CASCADE_OWNERSHIP_ORDER; no two cascades have the same createdAt here, so the
\* id never decides.
Older(c, d) == born[c] < born[d]

Shares(c, d) == mem[c] \cap mem[d] # {}

\* deadCascadeIdsNow: the enabled cascades one of whose nodes an older enabled
\* cascade has, dead or not.
Dead == {c \in Cascades : on[c] /\ \E d \in Cascades : on[d] /\ Older(d, c) /\ Shares(c, d)}

\* The enabled cascades with node n and outside the set D.
Carrying(n, D) == {c \in Cascades \ D : on[c] /\ n \in mem[c]}

\* The owner readTopologyForNode finds with the dead set D, as the set of it.
Owner(n, D) == {c \in Carrying(n, D) : \A d \in Carrying(n, D) : ~Older(d, c)}

\* The node n was pushed what the database says.
Right(n) == runs[n] = Owner(n, Dead) /\ n \notin aged

Idle(s) == pc[s] = "idle"

NoRequest == [op |-> "none", c |-> CHOOSE c \in Cascades : TRUE, en |-> "keep", was |-> FALSE,
              ns |-> {}, old |-> {}]

----------------------------------------------------------------------------
Init ==
  \E db \in Stored :
    /\ mem = db.mem /\ on = db.on /\ born = db.born /\ plain = db.plain
    /\ there = {c \in Cascades : db.born[c] > 0}
    /\ clock = Start
    /\ warm = FALSE /\ cache = {}
    /\ pc = [s \in Savers |-> "idle"]
    /\ req = [s \in Savers |-> NoRequest]
    /\ before = [s \in Savers |-> {}]
    /\ due = {}
    /\ busy = [n \in Nodes |-> "no"]
    /\ legs = [n \in Nodes |-> {}] /\ owes = legs /\ seen = legs /\ own = legs
    /\ runs = [n \in Nodes |-> Owner(n, Dead)] /\ aged = {}
    /\ disturbed = FALSE /\ events = 0

----------------------------------------------------------------------------
(* Saves *)

Happens == events < MaxEvents /\ events' = events + 1

\* A request comes in, under the first free number, and what is stored of its
\* cascade is read.
Arrives(s, r, at) ==
  /\ Idle(s) /\ \A t \in Savers : Idle(t) => s <= t
  /\ Happens
  /\ pc'  = [pc EXCEPT ![s] = at]
  /\ req' = [req EXCEPT ![s] = [op |-> r.op, c |-> r.c, en |-> r.en, ns |-> r.ns,
                                was |-> on[r.c], old |-> mem[r.c]]]
  /\ disturbed' = (disturbed \/ \E t \in Savers : ~Idle(t))
  /\ UNCHANGED <<rowVars, plain, warm, cache, before, due, pushVars>>

\* updateCascade.
UpdateReads(s, r) ==
  /\ r.op = "update" /\ r.c \in there
  /\ Arrives(s, r, "gate")
  /\ UNCHANGED aged

\* deleteCascade.
DeleteReads(s, r) ==
  /\ r.op = "delete" /\ r.c \in there
  /\ Arrives(s, r, "before")
  /\ UNCHANGED aged

\* createCascade, of an id nobody has yet: there is nothing to read.
CreateComes(s, r) ==
  /\ r.op = "create" /\ born[r.c] = 0
  /\ \A t \in Savers : req[t].c # r.c \/ Idle(t)
  /\ Arrives(s, r, "gate")
  /\ UNCHANGED aged

\* The request ends and what it read is gone.
Answered(s) ==
  /\ pc'  = [pc EXCEPT ![s] = "idle"]
  /\ req' = [req EXCEPT ![s] = NoRequest]
  /\ before' = [before EXCEPT ![s] = {}]

\* willBeEnabled.
WillBeOn(s) == req[s].en = "on" \/ (req[s].en = "keep" /\ req[s].was)

\* Mutated form: the gate is asked about a sent topology only (A-126).
AskedOfPayload(s) == WillBeOn(s) /\ req[s].ns # {}

\* When the gate of A-101 is asked: this save switches the cascade on or
\* changes its members.
Asked(s) == WillBeOn(s) /\ (~req[s].was \/ req[s].ns # {})

\* What it is asked about: the topology that was sent, else the stored one.
Target(s) == IF req[s].ns # {} THEN req[s].ns ELSE req[s].old

\* assertNodesInNoOtherCascade lets the save pass.
Free(s) == \A d \in Cascades \ {req[s].c} : on[d] => mem[d] \cap Target(s) = {}

\* The gates have passed.  A create opens its transaction, whose time is the
\* new row's createdAt; the others go on to read the dead set.
Gate(s) ==
  /\ pc[s] = "gate"
  /\ Asked(s) => Free(s)
  /\ IF req[s].op = "create"
     THEN /\ pc' = [pc EXCEPT ![s] = "commit"]
          /\ born' = [born EXCEPT ![req[s].c] = clock]
          /\ clock' = clock + 1
     ELSE /\ pc' = [pc EXCEPT ![s] = "before"]
          /\ UNCHANGED <<born, clock>>
  /\ UNCHANGED <<there, on, mem, textVars, warm, cache, req, before,
                 due, pushVars, disturbed, events>>

\* This gate or another one refuses, or the transaction is rolled back (the
\* name is taken, the row is gone): nothing was written.
Refused(s) ==
  /\ pc[s] \in {"gate", "before", "commit"}
  /\ Answered(s)
  /\ UNCHANGED <<rowVars, textVars, warm, cache,
                 due, pushVars, disturbed, events>>

DeadBefore(s) ==
  /\ pc[s] = "before"
  /\ before' = [before EXCEPT ![s] = Dead]
  /\ pc' = [pc EXCEPT ![s] = "commit"]
  /\ UNCHANGED <<rowVars, textVars, warm, cache, req,
                 due, pushVars, disturbed, events>>

\* The rows of c that n's drawing is made of are written, for every n in S.
Rewrites(c, S) == aged' = aged \cup {n \in S : c \in runs[n]}

\* What the transaction of updateCascade writes: the columns that were sent,
\* and a topology that was sent whole (writeTopologyV4), whose vless legs have
\* REALITY.
Writes(s) ==
  LET c == req[s].c IN
  /\ pc[s] = "commit" /\ req[s].op = "update"
  /\ on'  = [on EXCEPT ![c] = IF req[s].en = "keep" THEN @ ELSE req[s].en = "on"]
  /\ Rewrites(c, Nodes)
  /\ IF req[s].ns # {}
     THEN mem' = [mem EXCEPT ![c] = req[s].ns] /\ plain' = plain \ {c}
     ELSE UNCHANGED <<mem, plain>>
  /\ pc' = [pc EXCEPT ![s] = "emit"]
  /\ UNCHANGED <<there, born, clock, warm, cache, req, before,
                 due, pushVars, disturbed, events>>

\* Mutated form: the row is not looked for.
UpsertCommits(s) == Writes(s)

UpdateCommits(s) == req[s].c \in there /\ Writes(s)

CreateCommits(s) ==
  LET c == req[s].c IN
  /\ pc[s] = "commit" /\ req[s].op = "create"
  /\ there' = there \cup {c}
  /\ on'  = [on EXCEPT ![c] = req[s].en = "on"]
  /\ mem' = [mem EXCEPT ![c] = req[s].ns]
  /\ pc' = [pc EXCEPT ![s] = "emit"]
  /\ UNCHANGED <<born, clock, textVars, warm, cache, req, before,
                 due, pushVars, disturbed, events>>

DeleteCommits(s) ==
  LET c == req[s].c IN
  /\ pc[s] = "commit" /\ req[s].op = "delete"
  /\ c \in there
  /\ there' = there \ {c}
  /\ on'  = [on EXCEPT ![c] = FALSE]
  /\ mem' = [mem EXCEPT ![c] = {}]
  /\ plain' = plain \ {c}
  /\ pc' = [pc EXCEPT ![s] = "emit"]
  /\ UNCHANGED <<born, clock, aged, warm, cache, req, before,
                 due, pushVars, disturbed, events>>

\* rotateCascadeTunnels gives the tunnels between the nodes ns new keys.
RotateCommits(s, r) ==
  /\ r.op = "rotate" /\ r.c \in there /\ r.ns \subseteq mem[r.c]
  /\ Arrives(s, r, "emit")
  /\ Rewrites(r.c, r.ns)

\* Mutated form: as it was before A-223.
NobodyMoved(s) == {}

\* nodesOfDeadMoved: the nodes of the cascades this save revived or killed.
DeadMoved(s) == (before[s] \ Dead) \cup (Dead \ before[s])
NodesOfDeadMoved(s) == UNION {mem[c] : c \in DeadMoved(s)}

\* The nodes the save has to announce itself to.
Told(s) ==
  IF req[s].op \in {"update", "delete"}
  THEN req[s].old \cup req[s].ns \cup NodesOfDeadMoved(s)
  ELSE req[s].ns

\* The announcement, and with it the end of the cached dead set; a rotation
\* leaves that alone.
Emit(s) ==
  /\ pc[s] = "emit"
  /\ due' = due \cup Told(s)
  /\ IF req[s].op = "rotate" THEN UNCHANGED <<warm, cache>> ELSE warm' = FALSE /\ cache' = {}
  /\ Answered(s)
  /\ UNCHANGED <<rowVars, textVars, pushVars, disturbed, events>>

\* The reads after the commit fail, and the answer is an error after all.
EmitFails(s) ==
  /\ pc[s] = "emit"
  /\ Happens
  /\ Answered(s)
  /\ disturbed' = TRUE
  /\ UNCHANGED <<rowVars, textVars, warm, cache, due, pushVars>>

----------------------------------------------------------------------------
(* Pushes *)

\* The job of n starts: giveCascadeLegsReality lists what it may have to mend.
PushStarts(n) ==
  /\ n \in due /\ busy[n] = "no"
  /\ due' = due \ {n}
  /\ busy' = [busy EXCEPT ![n] = "mend"]
  /\ legs' = [legs EXCEPT ![n] = {c \in plain : on[c] /\ n \in mem[c]}]
  /\ UNCHANGED <<rowVars, textVars, warm, cache, saveVars, owes, seen, own, runs,
                 disturbed, events>>

\* The legs of one of them get REALITY, under the cascade's lock and read
\* again inside it.
MendsLegs(n, c) ==
  /\ busy[n] = "mend" /\ c \in legs[n] /\ owes[n] = {}
  /\ legs' = [legs EXCEPT ![n] = @ \ {c}]
  /\ IF c \in plain
     THEN /\ plain' = plain \ {c}
          /\ Rewrites(c, Nodes)
          /\ owes' = [owes EXCEPT ![n] = {c}]
     ELSE UNCHANGED <<plain, aged, owes>>
  /\ UNCHANGED <<rowVars, warm, cache, saveVars, due, busy, seen, own, runs,
                 disturbed, events>>

\* And the other nodes of that cascade are pushed.
TellsOthers(n) ==
  /\ owes[n] # {}
  /\ due' = due \cup {m \in Nodes \ {n} : \E c \in owes[n] : m \in mem[c]}
  /\ owes' = [owes EXCEPT ![n] = {}]
  /\ UNCHANGED <<rowVars, textVars, warm, cache, saveVars, busy, legs, seen, own, runs,
                 disturbed, events>>

\* deadCascadeIds, from the cache or from the database.
AsksDead(n) ==
  /\ busy[n] = "mend" /\ legs[n] = {} /\ owes[n] = {}
  /\ seen' = [seen EXCEPT ![n] = IF warm THEN cache ELSE Dead]
  /\ busy' = [busy EXCEPT ![n] = IF warm THEN "owner" ELSE "fill"]
  /\ UNCHANGED <<rowVars, textVars, warm, cache, saveVars, due, legs, owes, own, runs,
                 disturbed, events>>

\* What came from the database is cached, however long the query took.
FillsCache(n) ==
  /\ busy[n] = "fill"
  /\ warm' = TRUE /\ cache' = seen[n]
  /\ busy' = [busy EXCEPT ![n] = "owner"]
  /\ disturbed' = (disturbed \/ seen[n] # Dead)
  /\ UNCHANGED <<rowVars, textVars, saveVars, due, legs, owes, seen, own, runs, events>>

FindsOwner(n) ==
  /\ busy[n] = "owner"
  /\ own' = [own EXCEPT ![n] = Owner(n, seen[n])]
  /\ seen' = [seen EXCEPT ![n] = {}]
  /\ busy' = [busy EXCEPT ![n] = "draw"]
  /\ UNCHANGED <<rowVars, textVars, warm, cache, saveVars, due, legs, owes, runs,
                 disturbed, events>>

\* The jobs of the nodes S end, and what they read is gone.
PushEnds(S) ==
  /\ busy' = [n \in Nodes |-> IF n \in S THEN "no" ELSE busy[n]]
  /\ legs' = [n \in Nodes |-> IF n \in S THEN {} ELSE legs[n]]
  /\ owes' = [n \in Nodes |-> IF n \in S THEN {} ELSE owes[n]]
  /\ seen' = [n \in Nodes |-> IF n \in S THEN {} ELSE seen[n]]
  /\ own'  = [n \in Nodes |-> IF n \in S THEN {} ELSE own[n]]

\* The owner's rows are read, and what they draw is delivered.
Draws(n) ==
  /\ busy[n] = "draw"
  /\ runs' = [runs EXCEPT ![n] = own[n] \cap there]
  /\ aged' = aged \ {n}
  /\ PushEnds({n})
  /\ UNCHANGED <<rowVars, plain, warm, cache, saveVars, due, disturbed, events>>

\* The push fails somewhere and will be tried again.  What it had mended and
\* not announced stays unannounced.
PushFails(n) ==
  /\ busy[n] # "no"
  /\ Happens
  /\ PushEnds({n})
  /\ due' = due \cup {n}
  /\ disturbed' = (disturbed \/ owes[n] # {})
  /\ UNCHANGED <<rowVars, textVars, warm, cache, saveVars, runs>>

----------------------------------------------------------------------------
(* Time and the process *)

\* Mutated form: a cache only a save drops.
NeverExpires == FALSE /\ UNCHANGED vars

\* DEAD_TTL_MS.
CacheExpires ==
  /\ warm
  /\ warm' = FALSE /\ cache' = {}
  /\ UNCHANGED <<rowVars, textVars, saveVars, due, pushVars, disturbed, events>>

\* checkNodeDrawings, hourly and at the start: what would be drawn now against
\* what was pushed last.
DrawingCheck(n) ==
  /\ n \notin due /\ busy[n] = "no"
  /\ Owner(n, IF warm THEN cache ELSE Dead) # runs[n] \/ n \in aged
  /\ due' = due \cup {n}
  /\ UNCHANGED <<rowVars, textVars, warm, cache, saveVars, pushVars, disturbed, events>>

\* The backend dies and starts: requests and the cache are gone, the jobs that
\* ran are run again.
PanelRestarts ==
  /\ Happens
  /\ pc' = [s \in Savers |-> "idle"]
  /\ req' = [s \in Savers |-> NoRequest]
  /\ before' = [s \in Savers |-> {}]
  /\ warm' = FALSE /\ cache' = {}
  /\ due' = due \cup {n \in Nodes : busy[n] # "no"}
  /\ PushEnds(Nodes)
  /\ disturbed' = (disturbed \/ (\E s \in Savers : pc[s] = "emit") \/ (\E n \in Nodes : owes[n] # {}))
  /\ UNCHANGED <<rowVars, textVars, runs>>

----------------------------------------------------------------------------
SaverSteps(s) ==
  \/ Gate(s) \/ DeadBefore(s)
  \/ UpdateCommits(s) \/ CreateCommits(s) \/ DeleteCommits(s)
  \/ Emit(s)

PushSteps(n) ==
  \/ PushStarts(n) \/ (\E c \in Cascades : MendsLegs(n, c)) \/ TellsOthers(n)
  \/ AsksDead(n) \/ FillsCache(n) \/ FindsOwner(n) \/ Draws(n)

Next ==
  \/ \E s \in Savers :
       \/ \E r \in Requests :
            UpdateReads(s, r) \/ CreateComes(s, r) \/ DeleteReads(s, r) \/ RotateCommits(s, r)
       \/ SaverSteps(s) \/ Refused(s) \/ EmitFails(s)
  \/ \E n \in Nodes : PushSteps(n) \/ PushFails(n) \/ DrawingCheck(n)
  \/ CacheExpires
  \/ PanelRestarts

Spec == Init /\ [][Next]_vars

\* The queries of a save and of a push return, one way or the other; a minute
\* ends; the drawing check comes every hour.
FairSpec ==
  /\ Spec
  /\ \A s \in Savers : WF_vars(SaverSteps(s) \/ Refused(s))
  /\ \A n \in Nodes : WF_vars(PushSteps(n)) /\ WF_vars(DrawingCheck(n))
  /\ WF_vars(CacheExpires)

----------------------------------------------------------------------------
(* Properties *)

\* Every variable has its type, and only a cascade with a row is enabled, has
\* nodes or legs.
TypeOK ==
  /\ there \subseteq Cascades /\ plain \subseteq there
  /\ on \in [Cascades -> BOOLEAN] /\ mem \in [Cascades -> SUBSET Nodes]
  /\ \A c \in Cascades \ there : ~on[c] /\ mem[c] = {}
  /\ born \in [Cascades -> Nat] /\ clock \in Nat
  /\ warm \in BOOLEAN /\ cache \subseteq Cascades
  /\ pc \in [Savers -> {"idle", "gate", "before", "commit", "emit"}]
  /\ req \in [Savers -> [op : {"none", "update", "create", "delete", "rotate"}, c : Cascades,
                         en : {"keep", "on", "off"}, was : BOOLEAN,
                         ns : SUBSET Nodes, old : SUBSET Nodes]]
  /\ before \in [Savers -> SUBSET Cascades]
  /\ due \subseteq Nodes
  /\ busy \in [Nodes -> {"no", "mend", "fill", "owner", "draw"}]
  /\ legs \in [Nodes -> SUBSET Cascades] /\ owes \in [Nodes -> SUBSET Cascades]
  /\ seen \in [Nodes -> SUBSET Cascades] /\ own \in [Nodes -> SUBSET Cascades]
  /\ runs \in [Nodes -> SUBSET Cascades] /\ aged \subseteq Nodes
  /\ disturbed \in BOOLEAN /\ events \in Nat

\* Nothing about n is on its way: no push is asked for or under way, and no
\* save or mend has yet to announce itself.
Settled(n) ==
  /\ n \notin due /\ busy[n] = "no"
  /\ \A s \in Savers : pc[s] # "emit"
  /\ \A m \in Nodes : owes[m] = {}

\* A save asks for enough pushes: with saves one after another and no
\* announcement lost, a node nobody is about to push runs what the database
\* says, also when its cascade was revived, killed or mended by the save or
\* the push of another (nodesOfDeadMoved, giveCascadeLegsReality).
PushedEnough == ~disturbed => \A n \in Nodes : Settled(n) => Right(n)

Pair(c, d) == c # d /\ on[c] /\ on[d] /\ Shares(c, d)

\* A-101: no step makes two enabled cascades share a node that did not share
\* one before, whatever is switched on, moved or created, with saves one after
\* another.
NoNewPair == [][~disturbed => \A c, d \in Cascades : Pair(c, d)' => Pair(c, d)]_vars

\* However saves overlap and whatever was lost, failed or cached too long: once
\* nobody saves any more, every node ends up with what the database says.
Converges == <>[](\A n \in Nodes : Right(n))

=============================================================================
