--------------------------- MODULE TrafficProofs ---------------------------
(***************************************************************************)
(* Proofs about Traffic, for every set of users, roster, ceiling, set of   *)
(* troubles and bound: nobody is billed a byte they did not move, every    *)
(* byte is accounted for, and the node's history counts none twice.  What  *)
(* an answer holds, what a handler has dumped and what the panel saved are *)
(* tied to the counters they were read from, per adapter and user, and for *)
(* the node's totals through the sums over users.                          *)
(***************************************************************************)
EXTENDS Traffic, FiniteSetTheorems, WellFoundedInduction, TLAPS

\* The types the accounting of users rests on.
Typed ==
  /\ carried \in Bytes /\ ctr \in Bytes /\ running \subseteq Cores
  /\ last \in [Users -> Nat \cup {Unseen}]
  /\ left \in [Handlers -> SUBSET Cores]
  /\ dump \in [Handlers -> [Users -> Nat] \cup {Unseen}]
  /\ got \in [Cores -> {"none", "tagged", "rows", "noData"}]
  /\ val \in Bytes
  /\ snap \in [Cores -> [Users -> Nat \cup {Unseen}]]
  /\ billed \in Bytes /\ lost \in Bytes /\ kept \subseteq Cores

-----------------------------------------------------------------------------
\* The two differences.

\* computeUserDeltas never exceeds the counter, and follows it byte by byte.
LEMMA GrownFacts ==
  ASSUME NEW a \in Nat, NEW b \in Nat \cup {Unseen}
  PROVE  /\ Grown(a, b) \in Nat /\ Grown(a, b) <= a
         /\ Grown(a + 1, b) <= Grown(a, b) + 1
         /\ Grown(0, b) = 0 /\ Grown(a, a) = 0
  BY UnseenAssumption DEF Grown

\* statsOne likewise.
LEMMA GainedFacts ==
  ASSUME NEW a \in Nat, NEW b \in Nat \cup {Unseen}
  PROVE  /\ Gained(a, b) \in Nat /\ Gained(a, b) <= a
         /\ Gained(a + 1, b) <= Gained(a, b) + 1
         /\ Gained(0, b) = 0 /\ Gained(a, a) = 0
  BY UnseenAssumption DEF Gained

LEMMA ZerosTyped == Zeros \in Bytes /\ Nothing \in [Users -> Nat]
                    /\ \A c \in Cores : Zeros[c] = [u \in Users |-> 0]
  BY DEF Zeros, Bytes, Nothing, Cores

LEMMA OfRosterTyped ==
  ASSUME NEW c \in Cores, NEW v \in [Users -> Nat]
  PROVE  /\ OfRoster(c, v) \in [Users -> Nat]
         /\ \A u \in Users : OfRoster(c, v)[u] <= v[u]
         /\ \A u \in Roster[c] : OfRoster(c, v)[u] = v[u]
  BY RosterAssumption DEF OfRoster

LEMMA DroppedTyped == ASSUME Typed PROVE Dropped \in Bytes
  BY DEF Typed, Bytes, Dropped

\* What a commit writes of one user is a number, never above the delta.
LEMMA BillsFacts ==
  ASSUME Typed, NEW c \in Cores, NEW u \in Users
  PROVE  /\ Delta(c, u) \in Nat /\ Delta(c, u) <= val[c][u]
         /\ Bills(c, u) \in Nat /\ Bills(c, u) <= Delta(c, u)
         /\ Waived(c, u) \in Nat
         /\ u \notin Roster[c] => Bills(c, u) = 0
<1>1. val[c][u] \in Nat /\ snap[c][u] \in Nat \cup {Unseen}
  BY DEF Typed, Bytes
<1>2. Delta(c, u) \in Nat /\ Delta(c, u) <= val[c][u]
  <2>1. CASE AsCumulative(c)
    BY <1>1, <2>1, GrownFacts DEF Delta
  <2>2. CASE ~AsCumulative(c)
    BY <1>1, <2>2 DEF Delta
  <2>. QED  BY <2>1, <2>2
<1>. QED
  BY <1>1, <1>2, BoundsAssumption DEF Bills, Waived, Rows

-----------------------------------------------------------------------------
\* Types.

LEMMA TypedInit == Init => Typed
  BY ZerosTyped DEF Init, Typed, NoDump, NoAnswer, Bytes

LEMMA PollEndsTyped == ASSUME PollEnds PROVE got' \in [Cores -> {"none", "tagged", "rows", "noData"}] /\ val' \in Bytes
  BY ZerosTyped DEF PollEnds, NoAnswer

LEMMA GivesTyped ==
  ASSUME Typed, NEW h \in Handlers, NEW c \in Cores, NEW g \in {"tagged", "rows", "noData"},
         NEW v \in [Users -> Nat], NEW t, Gives(h, c, g, v, t)
  PROVE  got' \in [Cores -> {"none", "tagged", "rows", "noData"}] /\ val' \in Bytes
  BY DEF Typed, Gives, Bytes, answer

LEMMA AskedTyped ==
  ASSUME Typed, NEW h \in Handlers, NEW c \in Cores, Asked(h, c)
  PROVE  left' \in [Handlers -> SUBSET Cores]
  BY DEF Typed, Asked

LEMMA AskXrayTyped ==
  ASSUME Typed, NEW h \in Handlers, NEW r \in {"ok"} \cup Trouble, AskXray(h, r)
  PROVE  Typed'
<1>1. /\ left' \in [Handlers -> SUBSET Cores]
      /\ UNCHANGED <<network, last, dump, poll, panel, lost, kept>>
  BY AskedTyped DEF AskXray, Cores
<1>2. \E g \in {"tagged", "rows", "noData"}, v \in [Users -> Nat] : \E t :
        Gives(h, "xray", g, v, t)
  <2>1. Nothing \in [Users -> Nat] /\ OfRoster("xray", ctr["xray"]) \in [Users -> Nat]
    BY ZerosTyped, OfRosterTyped DEF Typed, Bytes, Cores
  <2>. QED  BY <2>1 DEF AskXray
<1>3. got' \in [Cores -> {"none", "tagged", "rows", "noData"}] /\ val' \in Bytes
  BY <1>2, GivesTyped DEF Cores
<1>. QED  BY <1>1, <1>3 DEF Typed, network, panel

LEMMA DrainedTyped ==
  ASSUME Typed, NEW h \in Handlers, Drained(h)
  PROVE  ctr' \in Bytes /\ lost' \in Bytes /\ UNCHANGED <<carried, running>>
  BY ZerosTyped DEF Typed, Bytes, Drained, Cores

LEMMA AskHysteriaTyped ==
  ASSUME Typed, NEW h \in Handlers, NEW r \in {"ok"} \cup Trouble, AskHysteria(h, r)
  PROVE  Typed'
<1>1. /\ left' \in [Handlers -> SUBSET Cores]
      /\ UNCHANGED <<last, dump, poll, panel, kept>>
  BY AskedTyped DEF AskHysteria, Cores
<1>2. \E g \in {"tagged", "rows", "noData"}, v \in [Users -> Nat] : \E t :
        Gives(h, "hysteria", g, v, t)
  <2>1. Nothing \in [Users -> Nat] /\ OfRoster("hysteria", ctr["hysteria"]) \in [Users -> Nat]
    BY ZerosTyped, OfRosterTyped DEF Typed, Bytes, Cores
  <2>. QED  BY <2>1 DEF AskHysteria
<1>3. got' \in [Cores -> {"none", "tagged", "rows", "noData"}] /\ val' \in Bytes
  BY <1>2, GivesTyped DEF Cores
<1>4. Drained(h) \/ Drained("late") \/ UNCHANGED <<network, lost>>
  BY DEF AskHysteria
<1>5. ctr' \in Bytes /\ lost' \in Bytes /\ UNCHANGED <<carried, running>>
  BY <1>4, DrainedTyped DEF Typed, network, Handlers
<1>. QED  BY <1>1, <1>3, <1>5 DEF Typed, panel

LEMMA AccountDumpTyped ==
  ASSUME Typed, NEW h \in Handlers, AccountDump(h)
  PROVE  Typed'
<1>. DEFINE gain == [u \in Users |-> Gained(dump[h][u], last[u])]
<1>1. dump[h] \in [Users -> Nat] /\ "amneziawg" \in Cores
  BY DEF Typed, AccountDump, Cores
<1>2. gain \in [Users -> Nat]
  BY <1>1, GainedFacts DEF Typed
<1>3. OfRoster("amneziawg", gain) \in [Users -> Nat]
  BY <1>1, <1>2, OfRosterTyped
<1>4. got' \in [Cores -> {"none", "tagged", "rows", "noData"}] /\ val' \in Bytes
  BY <1>1, <1>3, GivesTyped DEF AccountDump
<1>5. lost' \in Bytes
  <2>. DEFINE users == OfRoster("amneziawg", gain)
              more(u) == IF last[u] = Unseen THEN dump[h][u]
                         ELSE IF h = "late" THEN users[u] ELSE 0
  <2>1. \A u \in Users : more(u) \in Nat
    BY <1>1, <1>3
  <2>2. lost' = [lost EXCEPT !["amneziawg"] = [u \in Users |-> @[u] + more(u)]]
    BY DEF AccountDump
  <2>. HIDE DEF more
  <2>. QED  BY <1>1, <2>1, <2>2 DEF Typed, Bytes
<1>6. left' \in [Handlers -> SUBSET Cores]
  BY <1>1, AskedTyped DEF AccountDump
<1>7. last' \in [Users -> Nat \cup {Unseen}] /\ dump' \in [Handlers -> [Users -> Nat] \cup {Unseen}]
  BY <1>1 DEF AccountDump, Typed
<1>. QED  BY <1>4, <1>5, <1>6, <1>7 DEF AccountDump, Typed, network, panel

LEMMA DumpFailsTyped ==
  ASSUME Typed, NEW h \in Handlers, DumpFails(h)
  PROVE  Typed'
<1>1. left' \in [Handlers -> SUBSET Cores]
  BY AskedTyped DEF DumpFails, Cores
<1>2. got' \in [Cores -> {"none", "tagged", "rows", "noData"}] /\ val' \in Bytes
  BY ZerosTyped, GivesTyped DEF DumpFails, Cores
<1>. QED  BY <1>1, <1>2 DEF DumpFails, Typed, network, panel

LEMMA CommitTyped ==
  ASSUME Typed, Commit
  PROVE  Typed'
<1>1. billed' \in Bytes /\ lost' \in Bytes
  BY BillsFacts DEF Commit, Typed, Bytes
<1>2. snap' \in [Cores -> [Users -> Nat \cup {Unseen}]]
  BY DEF Commit, SavesSnapshots, Typed, Bytes
<1>. QED  BY <1>1, <1>2, PollEndsTyped DEF Commit, Typed, network, agent

LEMMA TypedStep ==
  ASSUME Typed, [Next]_vars
  PROVE  Typed'
<1>1. ASSUME NEW c \in Cores, NEW u \in Users, Move(c, u) PROVE Typed'
  BY <1>1 DEF Typed, Bytes, Move, agent, answer, panel
<1>2. CASE Relay
  BY <1>2 DEF Typed, Relay, agent, answer, panel
<1>3. ASSUME NEW c \in Cores, Stop(c) PROVE Typed'
  <2>1. ctr' \in Bytes
    BY <1>3, ZerosTyped DEF Typed, Bytes, Stop
  <2>2. lost' \in Bytes
    BY <1>3 DEF Typed, Bytes, Stop
  <2>. QED  BY <1>3, <2>1, <2>2 DEF Typed, Stop, agent, answer, panel
<1>4. ASSUME NEW c \in Cores, Start(c) PROVE Typed'
  BY <1>4 DEF Typed, Start, agent, answer, panel
<1>5. ASSUME NEW h \in Handlers, ReadDump(h) PROVE Typed'
  BY <1>5 DEF Typed, Bytes, ReadDump, network, answer, panel, Cores
<1>6. CASE AgentRestarts
  BY <1>6, DroppedTyped, PollEndsTyped, ZerosTyped
     DEF Typed, AgentRestarts, panel, NoDump, Bytes, Cores
<1>7. CASE Poll
  BY <1>7 DEF Typed, Poll, network, answer, panel
<1>8. CASE Answer
  BY <1>8 DEF Typed, Answer, network, agent, answer, panel
<1>9. ASSUME LeavesBehind, UNCHANGED <<network, last, snap, billed, kept>> PROVE Typed'
  <2>1. left' \in [Handlers -> SUBSET Cores] /\ dump' \in [Handlers -> [Users -> Nat] \cup {Unseen}]
    BY <1>9 DEF Typed, LeavesBehind, Handlers
  <2>. QED  BY <1>9, <2>1, DroppedTyped, PollEndsTyped DEF Typed, LeavesBehind, network
<1>10. CASE GivesUp  BY <1>9, <1>10 DEF GivesUp, panel
<1>11. CASE PanelRestarts  BY <1>9, <1>11 DEF PanelRestarts
<1>12. CASE CommitFails
  BY <1>12, DroppedTyped, PollEndsTyped DEF Typed, CommitFails, network, agent, panel
<1>13. CASE UNCHANGED vars
  BY <1>13 DEF Typed, vars, network, agent, answer, panel
<1>. QED
  BY <1>1, <1>2, <1>3, <1>4, <1>5, <1>6, <1>7, <1>8, <1>10, <1>11, <1>12, <1>13,
     AskXrayTyped, AskHysteriaTyped, AccountDumpTyped, DumpFailsTyped, CommitTyped DEF Next

-----------------------------------------------------------------------------
\* Nobody is billed a byte they did not move.

\* Users an adapter does not hold are billed nothing through it.
OnlyRoster == \A c \in Cores : \A u \in Users \ Roster[c] : billed[c][u] = 0

\* What is billed, with what a commit of the answer in hand and of the next
\* one would add, never exceeds what was moved.
XrayBound ==
  \A u \in Roster["xray"] :
    /\ billed["xray"][u] + Grown(ctr["xray"][u], snap["xray"][u]) <= carried["xray"][u]
    /\ got["xray"] = "tagged" =>
         billed["xray"][u] + Grown(val["xray"][u], snap["xray"][u])
         + Grown(ctr["xray"][u], val["xray"][u]) <= carried["xray"][u]
    /\ got["xray"] # "tagged" => val["xray"][u] = 0

\* A drained counter is in the core or in the answer.
HysteriaBound ==
  \A u \in Roster["hysteria"] :
    billed["hysteria"][u] + val["hysteria"][u] + ctr["hysteria"][u] <= carried["hysteria"][u]

\* A dump in a handler's hands is between lastStats and the counter.
AwgBound ==
  \A u \in Roster["amneziawg"] :
    /\ billed["amneziawg"][u] + val["amneziawg"][u]
       + Gained(ctr["amneziawg"][u], last[u]) <= carried["amneziawg"][u]
    /\ \A h \in Handlers : dump[h] # Unseen =>
         billed["amneziawg"][u] + val["amneziawg"][u] + Gained(dump[h][u], last[u])
         + Gained(ctr["amneziawg"][u], dump[h][u]) <= carried["amneziawg"][u]

\* At most one handler is between the dump and the lock.
OneDump == \A h, i \in Handlers : dump[h] # Unseen /\ dump[i] # Unseen => h = i

Bound == OnlyRoster /\ XrayBound /\ HysteriaBound /\ AwgBound /\ OneDump

\* Where an adapter stands, for one that a step leaves alone.
Same(c) ==
  UNCHANGED <<carried[c], ctr[c], snap[c], billed[c], got[c], val[c], lost[c]>>

LEMMA RosterUsers == \A c \in Cores : Roster[c] \subseteq Users
  BY RosterAssumption

LEMMA CoresAre == "xray" \in Cores /\ "hysteria" \in Cores /\ "amneziawg" \in Cores
  BY DEF Cores

\* An answer is written by the live handler only, and for one adapter.
LEMMA GivesAt ==
  ASSUME Typed, NEW h \in Handlers, NEW c \in Cores, NEW g, NEW v, NEW t, Gives(h, c, g, v, t)
  PROVE  /\ \A d \in Cores \ {c} : got'[d] = got[d] /\ val'[d] = val[d]
         /\ h = "live" => got'[c] = g /\ val'[c] = v
         /\ h = "late" => got'[c] = got[c] /\ val'[c] = val[c]
  BY DEF Typed, Gives, Bytes, answer

LEMMA PollEndsAt ==
  ASSUME PollEnds
  PROVE  \A c \in Cores : got'[c] = "none" /\ \A u \in Users : val'[c][u] = 0
  BY DEF PollEnds, NoAnswer, Zeros

\* Reading an adapter leaves the others alone.
LEMMA AskXrayAt ==
  ASSUME Typed, NEW h \in Handlers, NEW r \in {"ok"} \cup Trouble, AskXray(h, r)
  PROVE  /\ \A c \in Cores \ {"xray"} : Same(c)
         /\ UNCHANGED <<network, snap, billed, lost, kept, last, dump, poll>>
         /\ left' = [left EXCEPT ![h] = @ \ {"xray"}]
         /\ \/ Same("xray")
            \/ got'["xray"] # "tagged" /\ \A u \in Users : val'["xray"][u] = 0
            \/ /\ got'["xray"] = "tagged"
               /\ \A u \in Roster["xray"] : val'["xray"][u] = ctr["xray"][u]
<1>1. /\ UNCHANGED <<network, snap, billed, lost, kept, last, dump, poll>>
      /\ left' = [left EXCEPT ![h] = @ \ {"xray"}]
  BY DEF AskXray, Asked, panel
<1>2. \E t : \/ Gives(h, "xray", "rows", Nothing, t)
             \/ Gives(h, "xray", "noData", Nothing, t)
             \/ Gives(h, "xray", "tagged", OfRoster("xray", ctr["xray"]), t)
  BY DEF AskXray
<1>3. \A u \in Users : Nothing[u] = 0
  BY DEF Nothing, Zeros, Cores
<1>4. \A u \in Roster["xray"] : OfRoster("xray", ctr["xray"])[u] = ctr["xray"][u]
  BY OfRosterTyped, CoresAre DEF Typed, Bytes
<1>5. \A c \in Cores \ {"xray"} : got'[c] = got[c] /\ val'[c] = val[c]
  BY <1>2, GivesAt, CoresAre
<1>6. CASE h = "live"
  <2>1. \/ got'["xray"] \in {"rows", "noData"} /\ val'["xray"] = Nothing
        \/ got'["xray"] = "tagged" /\ val'["xray"] = OfRoster("xray", ctr["xray"])
    BY <1>2, <1>6, GivesAt, CoresAre
  <2>. QED  BY <1>1, <1>3, <1>4, <1>5, <2>1 DEF Same, network
<1>7. CASE h = "late"
  <2>1. got'["xray"] = got["xray"] /\ val'["xray"] = val["xray"]
    BY <1>2, <1>7, GivesAt, CoresAre
  <2>. QED  BY <1>1, <1>5, <2>1 DEF Same, network
<1>. QED  BY <1>6, <1>7 DEF Handlers

LEMMA AskHysteriaAt ==
  ASSUME Typed, NEW h \in Handlers, NEW r \in {"ok"} \cup Trouble, AskHysteria(h, r)
  PROVE  /\ \A c \in Cores \ {"hysteria"} : Same(c)
         /\ UNCHANGED <<carried, snap, billed, kept, last, dump, poll>>
         /\ left' = [left EXCEPT ![h] = @ \ {"hysteria"}]
         /\ "hysteria" \in left[h]
         /\ \/ Same("hysteria")
            \/ /\ h = "live" /\ \A u \in Users : val'["hysteria"][u] = 0
               /\ got'["hysteria"] \in {"rows", "noData"}
               /\ UNCHANGED <<ctr["hysteria"], lost["hysteria"]>>
            \/ /\ h = "live" /\ got'["hysteria"] = "rows"
               /\ \A u \in Roster["hysteria"] : val'["hysteria"][u] = ctr["hysteria"][u]
               /\ \A u \in Users : ctr'["hysteria"][u] = 0
               /\ UNCHANGED lost["hysteria"]
            \/ /\ h = "live" => \A u \in Users : val'["hysteria"][u] = 0
               /\ h = "live" => got'["hysteria"] = "noData"
               /\ h = "late" => UNCHANGED <<got["hysteria"], val["hysteria"]>>
               /\ \A u \in Users : ctr'["hysteria"][u] = 0
               /\ \A u \in Users :
                    lost'["hysteria"][u] = lost["hysteria"][u] + ctr["hysteria"][u]
<1>. USE CoresAre
<1>1. /\ UNCHANGED <<snap, billed, kept, last, dump, poll>>
      /\ "hysteria" \in left[h]
      /\ left' = [left EXCEPT ![h] = @ \ {"hysteria"}]
  BY DEF AskHysteria, Asked, panel
<1>. DEFINE users == OfRoster("hysteria", ctr["hysteria"])
<1>2. \E t : \/ /\ Gives(h, "hysteria", "rows", Nothing, t) \/ Gives(h, "hysteria", "noData", Nothing, t)
                /\ UNCHANGED <<network, lost>>
             \/ Gives(h, "hysteria", "rows", users, t) /\ Drained(h)
             \/ Gives(h, "hysteria", "noData", Nothing, t) /\ Drained("late")
  BY DEF AskHysteria
<1>3. \A u \in Users : Nothing[u] = 0
  BY DEF Nothing, Zeros, Cores
<1>4. \A u \in Roster["hysteria"] : users[u] = ctr["hysteria"][u]
  BY OfRosterTyped DEF Typed, Bytes
<1>. HIDE DEF users
<1>5. \A c \in Cores \ {"hysteria"} : got'[c] = got[c] /\ val'[c] = val[c]
  BY <1>2, GivesAt
<1>6. ASSUME NEW i \in Handlers, Drained(i)
      PROVE  /\ UNCHANGED carried
             /\ \A c \in Cores \ {"hysteria"} : UNCHANGED <<ctr[c], lost[c]>>
             /\ ctr'["hysteria"] = Nothing
             /\ i = "live" => lost'["hysteria"] = lost["hysteria"]
             /\ i = "late" => \A u \in Users :
                  lost'["hysteria"][u] = lost["hysteria"][u] + ctr["hysteria"][u]
  BY <1>6 DEF Drained, Typed, Bytes
<1>7. CASE UNCHANGED <<network, lost>>
           /\ \E t : Gives(h, "hysteria", "rows", Nothing, t) \/ Gives(h, "hysteria", "noData", Nothing, t)
  <2>1. /\ h = "live" => val'["hysteria"] = Nothing /\ got'["hysteria"] \in {"rows", "noData"}
        /\ h = "late" => val'["hysteria"] = val["hysteria"] /\ got'["hysteria"] = got["hysteria"]
    BY <1>7, GivesAt
  <2>. QED  BY <1>1, <1>3, <1>5, <1>7, <2>1 DEF Same, network, Handlers
<1>8. CASE Drained(h) /\ \E t : Gives(h, "hysteria", "rows", users, t)
  <2>1. /\ h = "live" => val'["hysteria"] = users /\ got'["hysteria"] = "rows"
        /\ h = "late" => val'["hysteria"] = val["hysteria"] /\ got'["hysteria"] = got["hysteria"]
    BY <1>8, GivesAt
  <2>2. CASE h = "live"
    BY <1>1, <1>3, <1>4, <1>5, <1>6, <1>8, <2>1, <2>2 DEF Same
  <2>3. CASE h = "late"
    BY <1>1, <1>3, <1>5, <1>6, <1>8, <2>1, <2>3 DEF Same
  <2>. QED  BY <2>2, <2>3 DEF Handlers
<1>9. CASE Drained("late") /\ \E t : Gives(h, "hysteria", "noData", Nothing, t)
  <2>1. /\ h = "live" => val'["hysteria"] = Nothing /\ got'["hysteria"] = "noData"
        /\ h = "late" => val'["hysteria"] = val["hysteria"] /\ got'["hysteria"] = got["hysteria"]
    BY <1>9, GivesAt
  <2>2. "late" \in Handlers  BY DEF Handlers
  <2>. QED  BY <1>1, <1>3, <1>5, <1>6, <1>9, <2>1, <2>2 DEF Same
<1>. QED  BY <1>2, <1>7, <1>8, <1>9

LEMMA AccountDumpAt ==
  ASSUME Typed, NEW h \in Handlers, AccountDump(h)
  PROVE  /\ \A c \in Cores \ {"amneziawg"} : Same(c)
         /\ UNCHANGED <<network, snap, billed, kept, poll>>
         /\ left' = [left EXCEPT ![h] = @ \ {"amneziawg"}]
         /\ "amneziawg" \in left[h]
         /\ dump[h] # Unseen /\ last' = dump[h] /\ dump' = [dump EXCEPT ![h] = Unseen]
         /\ \A u \in Roster["amneziawg"] :
              /\ h = "live" => /\ val'["amneziawg"][u] = Gained(dump[h][u], last[u])
                               /\ got'["amneziawg"] = "rows"
              /\ h = "late" => UNCHANGED <<got["amneziawg"], val["amneziawg"]>>
              /\ lost'["amneziawg"][u] = lost["amneziawg"][u]
                   + IF last[u] = Unseen THEN dump[h][u]
                     ELSE IF h = "late" THEN Gained(dump[h][u], last[u]) ELSE 0
<1>. USE CoresAre
<1>. DEFINE gain == [u \in Users |-> Gained(dump[h][u], last[u])]
            users == OfRoster("amneziawg", gain)
<1>1. dump[h] \in [Users -> Nat]
  BY DEF Typed, AccountDump
<1>2. gain \in [Users -> Nat]
  BY <1>1, GainedFacts DEF Typed
<1>3. \A u \in Roster["amneziawg"] : u \in Users /\ users[u] = Gained(dump[h][u], last[u])
  BY <1>2, OfRosterTyped, RosterUsers
<1>4. /\ \A d \in Cores \ {"amneziawg"} : got'[d] = got[d] /\ val'[d] = val[d]
      /\ h = "live" => got'["amneziawg"] = "rows" /\ val'["amneziawg"] = users
      /\ h = "late" => got'["amneziawg"] = got["amneziawg"] /\ val'["amneziawg"] = val["amneziawg"]
  BY GivesAt DEF AccountDump
<1>. HIDE DEF users, gain
<1>5. /\ \A d \in Cores \ {"amneziawg"} : lost'[d] = lost[d]
      /\ \A u \in Users : lost'["amneziawg"][u] = lost["amneziawg"][u]
           + IF last[u] = Unseen THEN dump[h][u] ELSE IF h = "late" THEN users[u] ELSE 0
  BY DEF AccountDump, Typed, Bytes, users, gain
<1>6. UNCHANGED <<network, snap, billed, kept, poll>>
  BY DEF AccountDump, panel
<1>. QED
  BY <1>3, <1>4, <1>5, <1>6 DEF AccountDump, Asked, Same, network

LEMMA DumpFailsAt ==
  ASSUME Typed, NEW h \in Handlers, DumpFails(h)
  PROVE  /\ \A c \in Cores \ {"amneziawg"} : Same(c)
         /\ UNCHANGED <<network, snap, billed, lost, kept, last, dump, poll>>
         /\ left' = [left EXCEPT ![h] = @ \ {"amneziawg"}]
         /\ "amneziawg" \in left[h]
         /\ h = "live" => /\ got'["amneziawg"] = "noData"
                          /\ \A u \in Users : val'["amneziawg"][u] = 0
         /\ h = "late" => Same("amneziawg")
<1>. USE CoresAre
<1>1. \A u \in Users : Nothing[u] = 0
  BY DEF Nothing, Zeros, Cores
<1>2. /\ \A d \in Cores \ {"amneziawg"} : got'[d] = got[d] /\ val'[d] = val[d]
      /\ h = "live" => got'["amneziawg"] = "noData" /\ val'["amneziawg"] = Nothing
      /\ h = "late" => got'["amneziawg"] = got["amneziawg"] /\ val'["amneziawg"] = val["amneziawg"]
  BY GivesAt DEF DumpFails
<1>. QED  BY <1>1, <1>2 DEF DumpFails, Asked, Same, network, panel

\* A commit writes Bills, moves the snapshots it read, and ends the poll.
LEMMA CommitAt ==
  ASSUME Typed, Commit
  PROVE  /\ \A c \in Cores, u \in Users :
              /\ billed'[c][u] = billed[c][u] + Bills(c, u)
              /\ lost'[c][u] = lost[c][u] + Waived(c, u)
              /\ val'[c][u] = 0 /\ got'[c] = "none"
              /\ u \in Rows(c) /\ AsCumulative(c) => snap'[c][u] = val[c][u]
              /\ ~(u \in Rows(c) /\ AsCumulative(c)) => snap'[c][u] = snap[c][u]
         /\ UNCHANGED <<network, agent, kept>> /\ poll' = "idle"
  BY PollEndsAt DEF Commit, SavesSnapshots, PollEnds

\* A poll that ends without a commit.
LEMMA DropAt ==
  ASSUME Typed, CommitFails \/ GivesUp \/ PanelRestarts
  PROVE  /\ \A c \in Cores, u \in Users : val'[c][u] = 0 /\ got'[c] = "none"
         /\ lost' = Dropped
         /\ UNCHANGED <<network, last, snap, billed, kept>> /\ poll' = "idle"
         /\ \/ UNCHANGED <<left, dump>>
            \/ /\ dump' = [dump EXCEPT !["late"] = dump["live"], !["live"] = Unseen]
               /\ left' = [left EXCEPT !["late"] = left["live"], !["live"] = {}]
  BY PollEndsAt DEF CommitFails, GivesUp, PanelRestarts, LeavesBehind, PollEnds, panel, agent

LEMMA MoveAt ==
  ASSUME Typed, NEW c \in Cores, NEW u \in Users, Move(c, u)
  PROVE  /\ <<c, u>> \in Held
         /\ \A d \in Cores \ {c} : Same(d)
         /\ \A w \in Users \ {u} : carried'[c][w] = carried[c][w] /\ ctr'[c][w] = ctr[c][w]
         /\ carried'[c][u] = carried[c][u] + 1 /\ ctr'[c][u] = ctr[c][u] + 1
         /\ UNCHANGED <<agent, poll, answer, snap, billed, lost, kept>>
  BY DEF Move, Typed, Bytes, Same, answer, panel

LEMMA StopAt ==
  ASSUME Typed, NEW c \in Cores, Stop(c)
  PROVE  /\ \A d \in Cores \ {c} : Same(d)
         /\ \A u \in Users : ctr'[c][u] = 0
         /\ kept' = kept \ {c}
         /\ c = "hysteria" => \A u \in Users : lost'[c][u] = lost[c][u] + ctr[c][u]
         /\ UNCHANGED <<carried, agent, poll, answer, snap, billed>>
<1>1. Zeros[c] = [u \in Users |-> 0]  BY ZerosTyped
<1>2. \A u \in Users : ctr'[c][u] = 0
  BY <1>1 DEF Stop, Typed, Bytes
<1>3. \A d \in Cores \ {c} : Same(d)
  BY DEF Stop, Typed, Bytes, Same, answer, panel
<1>4. c = "hysteria" => \A u \in Users : lost'[c][u] = lost[c][u] + ctr[c][u]
  BY DEF Stop, Typed, Bytes
<1>. QED  BY <1>2, <1>3, <1>4 DEF Stop, panel

LEMMA RestartAt ==
  ASSUME Typed, AgentRestarts
  PROVE  /\ \A c \in Cores, u \in Users : val'[c][u] = 0 /\ got'[c] = "none"
         /\ \A c \in Cores \ {"xray"} : ctr'[c] = ctr[c]
         /\ \A u \in Users : ctr'["xray"][u] = 0
         /\ \A u \in Users : last'[u] = Unseen
         /\ \A h \in Handlers : dump'[h] = Unseen /\ left'[h] = {}
         /\ kept' = kept \ {"xray", "amneziawg"}
         /\ lost' = Dropped /\ poll' = "idle"
         /\ UNCHANGED <<carried, snap, billed>>
<1>1. ctr'["xray"] = Nothing /\ \A c \in Cores \ {"xray"} : ctr'[c] = ctr[c]
  BY CoresAre DEF AgentRestarts, Typed, Bytes
<1>2. \A u \in Users : Nothing[u] = 0
  BY DEF Nothing, Zeros, Cores
<1>. QED  BY <1>1, <1>2, PollEndsAt DEF AgentRestarts, NoDump, PollEnds, panel

\* The steps that touch neither the counters nor the accounts of users.
LEMMA QuietAt ==
  ASSUME Typed,
         \/ Relay \/ Poll \/ Answer \/ UNCHANGED vars
         \/ \E c \in Cores : Start(c)
         \/ \E h \in Handlers : ReadDump(h)
  PROVE  (\A c \in Cores : Same(c)) /\ UNCHANGED <<carried, ctr, last, snap, billed, got, val, lost, kept>>
  BY DEF Relay, Poll, Answer, Start, ReadDump, vars, network, agent, answer, panel, Same

LEMMA XraySame ==
  ASSUME XrayBound, Same("xray")
  PROVE  XrayBound'
  BY DEF XrayBound, Same

LEMMA XrayStep ==
  ASSUME Typed, XrayBound, [Next]_vars
  PROVE  XrayBound'
<1>. USE CoresAre
<1>0. \A u \in Roster["xray"] :
        /\ u \in Users
        /\ carried["xray"][u] \in Nat /\ ctr["xray"][u] \in Nat /\ val["xray"][u] \in Nat
        /\ billed["xray"][u] \in Nat /\ snap["xray"][u] \in Nat \cup {Unseen}
  BY RosterUsers DEF Typed, Bytes
<1>1. ASSUME NEW c \in Cores, NEW u \in Users, Move(c, u) PROVE XrayBound'
  <2>1. CASE c # "xray"
    BY <1>1, <2>1, MoveAt, XraySame
  <2>2. CASE c = "xray"
    <3>. SUFFICES ASSUME NEW w \in Roster["xray"] PROVE XrayBound!(w)'
      BY DEF XrayBound
    <3>1. UNCHANGED <<snap["xray"], billed["xray"], got["xray"], val["xray"]>>
      BY <1>1, <2>2, MoveAt DEF answer
    <3>2. CASE w # u
      <4>1. carried'["xray"][w] = carried["xray"][w] /\ ctr'["xray"][w] = ctr["xray"][w]
        BY <1>0, <1>1, <2>2, <3>2, MoveAt
      <4>. QED  BY <3>1, <4>1 DEF XrayBound
    <3>3. CASE w = u
      <4>1. carried'["xray"][w] = carried["xray"][w] + 1 /\ ctr'["xray"][w] = ctr["xray"][w] + 1
        BY <1>1, <2>2, <3>3, MoveAt
      <4>2. /\ Grown(ctr["xray"][w] + 1, snap["xray"][w]) <= Grown(ctr["xray"][w], snap["xray"][w]) + 1
            /\ Grown(ctr["xray"][w], snap["xray"][w]) \in Nat
        BY <1>0, GrownFacts
      <4>3. /\ Grown(ctr["xray"][w] + 1, val["xray"][w]) <= Grown(ctr["xray"][w], val["xray"][w]) + 1
            /\ Grown(ctr["xray"][w], val["xray"][w]) \in Nat
        BY <1>0, GrownFacts
      <4>4. ctr["xray"][w] + 1 \in Nat  BY <1>0
      <4>5. /\ Grown(ctr["xray"][w] + 1, snap["xray"][w]) \in Nat
            /\ Grown(ctr["xray"][w] + 1, val["xray"][w]) \in Nat
            /\ Grown(val["xray"][w], snap["xray"][w]) \in Nat
        BY <1>0, <4>4, GrownFacts
      <4>. QED  BY <1>0, <3>1, <4>1, <4>2, <4>3, <4>5 DEF XrayBound
    <3>. QED  BY <3>2, <3>3
  <2>. QED  BY <2>1, <2>2
<1>2. ASSUME NEW c \in Cores, Stop(c) PROVE XrayBound'
  <2>1. CASE c # "xray"
    BY <1>2, <2>1, StopAt, XraySame
  <2>2. CASE c = "xray"
    <3>. SUFFICES ASSUME NEW w \in Roster["xray"] PROVE XrayBound!(w)'
      BY DEF XrayBound
    <3>1. /\ UNCHANGED <<snap["xray"], billed["xray"], got["xray"], val["xray"], carried["xray"]>>
          /\ ctr'["xray"][w] = 0
      BY <1>0, <1>2, <2>2, StopAt DEF answer
    <3>2. /\ Grown(0, snap["xray"][w]) = 0 /\ Grown(0, val["xray"][w]) = 0
          /\ Grown(ctr["xray"][w], snap["xray"][w]) \in Nat
          /\ Grown(ctr["xray"][w], val["xray"][w]) \in Nat
          /\ Grown(val["xray"][w], snap["xray"][w]) \in Nat
      BY <1>0, GrownFacts
    <3>. QED  BY <1>0, <3>1, <3>2 DEF XrayBound
  <2>. QED  BY <2>1, <2>2
<1>3. ASSUME NEW h \in Handlers, NEW r \in {"ok"} \cup Trouble, AskXray(h, r) PROVE XrayBound'
  <2>1. CASE Same("xray")
    BY <2>1, XraySame
  <2>2. CASE ~Same("xray")
    <3>. SUFFICES ASSUME NEW w \in Roster["xray"] PROVE XrayBound!(w)'
      BY DEF XrayBound
    <3>1. /\ UNCHANGED <<snap["xray"], billed["xray"], ctr["xray"], carried["xray"]>>
          /\ \/ got'["xray"] # "tagged" /\ val'["xray"][w] = 0
             \/ got'["xray"] = "tagged" /\ val'["xray"][w] = ctr["xray"][w]
      BY <1>0, <1>3, <2>2, AskXrayAt DEF network
    <3>2. /\ Grown(ctr["xray"][w], ctr["xray"][w]) = 0
          /\ Grown(ctr["xray"][w], snap["xray"][w]) \in Nat
      BY <1>0, GrownFacts
    <3>. QED  BY <1>0, <3>1, <3>2 DEF XrayBound
  <2>. QED  BY <2>1, <2>2
<1>4. CASE Commit
  <2>. SUFFICES ASSUME NEW w \in Roster["xray"] PROVE XrayBound!(w)'
    BY DEF XrayBound
  <2>1. /\ billed'["xray"][w] = billed["xray"][w] + Bills("xray", w)
        /\ UNCHANGED <<carried, ctr>>
        /\ val'["xray"][w] = 0 /\ got'["xray"] = "none"
        /\ w \in Rows("xray") /\ AsCumulative("xray") => snap'["xray"][w] = val["xray"][w]
        /\ ~(w \in Rows("xray") /\ AsCumulative("xray")) => snap'["xray"][w] = snap["xray"][w]
    BY <1>0, <1>4, CommitAt DEF network
  <2>2. AsCumulative("xray") <=> got["xray"] = "tagged"
    BY DEF AsCumulative, ResCumulative
  <2>3. Bills("xray", w) \in Nat /\ Bills("xray", w) <= Delta("xray", w) /\ Delta("xray", w) \in Nat
    BY <1>0, BillsFacts
  <2>4. CASE got["xray"] = "tagged"
    <3>1. w \in Rows("xray") /\ Delta("xray", w) = Grown(val["xray"][w], snap["xray"][w])
      BY <2>2, <2>4 DEF Rows, Delta
    <3>2. Grown(ctr["xray"][w], val["xray"][w]) \in Nat
      BY <1>0, GrownFacts
    <3>. QED  BY <1>0, <2>1, <2>2, <2>3, <2>4, <3>1, <3>2 DEF XrayBound
  <2>5. CASE got["xray"] # "tagged"
    <3>1. Delta("xray", w) = 0
      BY <2>2, <2>5 DEF Delta, XrayBound
    <3>2. Grown(ctr["xray"][w], snap["xray"][w]) \in Nat
      BY <1>0, GrownFacts
    <3>. QED  BY <1>0, <2>1, <2>2, <2>3, <2>5, <3>1, <3>2 DEF XrayBound
  <2>. QED  BY <2>4, <2>5
<1>5. CASE CommitFails \/ GivesUp \/ PanelRestarts
  BY <1>0, <1>5, DropAt DEF XrayBound, network
<1>6. CASE AgentRestarts
  <2>. SUFFICES ASSUME NEW w \in Roster["xray"] PROVE XrayBound!(w)'
    BY DEF XrayBound
  <2>1. /\ UNCHANGED <<snap, billed, carried>> /\ ctr'["xray"][w] = 0
        /\ val'["xray"][w] = 0 /\ got'["xray"] = "none"
    BY <1>0, <1>6, RestartAt
  <2>2. Grown(0, snap["xray"][w]) = 0 /\ Grown(ctr["xray"][w], snap["xray"][w]) \in Nat
    BY <1>0, GrownFacts
  <2>. QED  BY <1>0, <2>1, <2>2 DEF XrayBound
<1>7. ASSUME Relay \/ Poll \/ Answer \/ UNCHANGED vars
              \/ (\E c \in Cores : Start(c)) \/ (\E h \in Handlers : ReadDump(h))
      PROVE  XrayBound'
  BY <1>7, QuietAt, XraySame
<1>8. ASSUME NEW h \in Handlers, NEW r \in {"ok"} \cup Trouble, AskHysteria(h, r) PROVE XrayBound'
  BY <1>8, AskHysteriaAt, XraySame
<1>9. ASSUME NEW h \in Handlers, AccountDump(h) \/ DumpFails(h) PROVE XrayBound'
  BY <1>9, AccountDumpAt, DumpFailsAt, XraySame
<1>. QED
  BY <1>1, <1>2, <1>3, <1>4, <1>5, <1>6, <1>7, <1>8, <1>9 DEF Next

LEMMA HysteriaSame ==
  ASSUME HysteriaBound, Same("hysteria")
  PROVE  HysteriaBound'
  BY DEF HysteriaBound, Same

LEMMA HysteriaStep ==
  ASSUME Typed, HysteriaBound, [Next]_vars
  PROVE  HysteriaBound'
<1>. USE CoresAre
<1>0. \A u \in Roster["hysteria"] :
        /\ u \in Users
        /\ carried["hysteria"][u] \in Nat /\ ctr["hysteria"][u] \in Nat
        /\ val["hysteria"][u] \in Nat /\ billed["hysteria"][u] \in Nat
  BY RosterUsers DEF Typed, Bytes
<1>1. ASSUME NEW c \in Cores, NEW u \in Users, Move(c, u) PROVE HysteriaBound'
  <2>1. CASE c # "hysteria"
    BY <1>1, <2>1, MoveAt, HysteriaSame
  <2>2. CASE c = "hysteria"
    <3>. SUFFICES ASSUME NEW w \in Roster["hysteria"] PROVE HysteriaBound!(w)'
      BY DEF HysteriaBound
    <3>1. UNCHANGED <<billed["hysteria"], val["hysteria"]>>
      BY <1>1, <2>2, MoveAt DEF answer
    <3>2. \/ UNCHANGED <<carried["hysteria"][w], ctr["hysteria"][w]>>
          \/ /\ carried'["hysteria"][w] = carried["hysteria"][w] + 1
             /\ ctr'["hysteria"][w] = ctr["hysteria"][w] + 1
      BY <1>0, <1>1, <2>2, MoveAt
    <3>. QED  BY <1>0, <3>1, <3>2 DEF HysteriaBound
  <2>. QED  BY <2>1, <2>2
<1>2. ASSUME NEW c \in Cores, Stop(c) PROVE HysteriaBound'
  <2>1. CASE c # "hysteria"
    BY <1>2, <2>1, StopAt, HysteriaSame
  <2>2. CASE c = "hysteria"
    BY <1>0, <1>2, <2>2, StopAt DEF HysteriaBound, answer
  <2>. QED  BY <2>1, <2>2
<1>3. ASSUME NEW h \in Handlers, NEW r \in {"ok"} \cup Trouble, AskHysteria(h, r)
      PROVE  HysteriaBound'
  <2>1. CASE Same("hysteria")
    BY <2>1, HysteriaSame
  <2>2. CASE ~Same("hysteria")
    <3>. SUFFICES ASSUME NEW w \in Roster["hysteria"] PROVE HysteriaBound!(w)'
      BY DEF HysteriaBound
    <3>1. /\ UNCHANGED <<billed["hysteria"], carried["hysteria"]>>
          /\ \/ val'["hysteria"][w] = 0 /\ ctr'["hysteria"][w] = ctr["hysteria"][w]
             \/ val'["hysteria"][w] = ctr["hysteria"][w] /\ ctr'["hysteria"][w] = 0
             \/ val'["hysteria"][w] = 0 /\ ctr'["hysteria"][w] = 0
             \/ val'["hysteria"][w] = val["hysteria"][w] /\ ctr'["hysteria"][w] = 0
      BY <1>0, <1>3, <2>2, AskHysteriaAt DEF Handlers
    <3>. QED  BY <1>0, <3>1 DEF HysteriaBound
  <2>. QED  BY <2>1, <2>2
<1>4. CASE Commit
  <2>. SUFFICES ASSUME NEW w \in Roster["hysteria"] PROVE HysteriaBound!(w)'
    BY DEF HysteriaBound
  <2>1. /\ billed'["hysteria"][w] = billed["hysteria"][w] + Bills("hysteria", w)
        /\ UNCHANGED <<carried, ctr>> /\ val'["hysteria"][w] = 0
    BY <1>0, <1>4, CommitAt DEF network
  <2>2. /\ Bills("hysteria", w) \in Nat /\ Delta("hysteria", w) \in Nat
        /\ Bills("hysteria", w) <= Delta("hysteria", w)
        /\ Delta("hysteria", w) <= val["hysteria"][w]
    BY <1>0, BillsFacts
  <2>. QED  BY <1>0, <2>1, <2>2 DEF HysteriaBound
<1>5. CASE CommitFails \/ GivesUp \/ PanelRestarts
  BY <1>0, <1>5, DropAt DEF HysteriaBound, network
<1>6. CASE AgentRestarts
  <2>. SUFFICES ASSUME NEW w \in Roster["hysteria"] PROVE HysteriaBound!(w)'
    BY DEF HysteriaBound
  <2>1. /\ UNCHANGED <<billed, carried>> /\ ctr'["hysteria"] = ctr["hysteria"]
        /\ val'["hysteria"][w] = 0
    BY <1>0, <1>6, RestartAt
  <2>. QED  BY <1>0, <2>1 DEF HysteriaBound
<1>7. ASSUME Relay \/ Poll \/ Answer \/ UNCHANGED vars
              \/ (\E c \in Cores : Start(c)) \/ (\E h \in Handlers : ReadDump(h))
      PROVE  HysteriaBound'
  BY <1>7, QuietAt, HysteriaSame
<1>8. ASSUME NEW h \in Handlers, NEW r \in {"ok"} \cup Trouble, AskXray(h, r)
      PROVE  HysteriaBound'
  BY <1>8, AskXrayAt, HysteriaSame
<1>9. ASSUME NEW h \in Handlers, AccountDump(h) \/ DumpFails(h) PROVE HysteriaBound'
  BY <1>9, AccountDumpAt, DumpFailsAt, HysteriaSame
<1>. QED
  BY <1>1, <1>2, <1>3, <1>4, <1>5, <1>6, <1>7, <1>8, <1>9 DEF Next

LEMMA OneDumpStep ==
  ASSUME Typed, OneDump, Races = FALSE, [Next]_vars
  PROVE  OneDump'
<1>1. ASSUME NEW h \in Handlers, ReadDump(h) PROVE OneDump'
  <2>1. \A i \in Handlers \ {h} : dump'[i] = Unseen
    BY <1>1 DEF ReadDump, NoDump, Typed
  <2>. QED  BY <2>1 DEF OneDump
<1>2. ASSUME NEW h \in Handlers, AccountDump(h) PROVE OneDump'
  <2>1. \A i \in Handlers : dump'[i] # Unseen => dump[i] # Unseen
    BY <1>2, AccountDumpAt DEF Typed
  <2>. QED  BY <2>1 DEF OneDump
<1>3. CASE CommitFails \/ GivesUp \/ PanelRestarts
  <2>1. CASE UNCHANGED dump
    BY <2>1 DEF OneDump
  <2>2. CASE dump' = [dump EXCEPT !["late"] = dump["live"], !["live"] = Unseen]
    <3>1. dump'["live"] = Unseen
      BY <2>2 DEF Typed, Handlers
    <3>. QED  BY <3>1 DEF OneDump, Handlers
  <2>. QED  BY <1>3, <2>1, <2>2, DropAt
<1>4. CASE AgentRestarts
  BY <1>4, RestartAt DEF OneDump
<1>5. ASSUME UNCHANGED dump PROVE OneDump'
  BY <1>5 DEF OneDump
<1>6. ASSUME NEW c \in Cores, NEW u \in Users, Move(c, u) PROVE UNCHANGED dump
  BY <1>6 DEF Move, agent
<1>7. ASSUME NEW c \in Cores, Stop(c) \/ Start(c) PROVE UNCHANGED dump
  BY <1>7 DEF Stop, Start, agent
<1>8. ASSUME NEW h \in Handlers, NEW r \in {"ok"} \cup Trouble, AskXray(h, r) \/ AskHysteria(h, r)
      PROVE  UNCHANGED dump
  BY <1>8 DEF AskXray, AskHysteria
<1>9. ASSUME NEW h \in Handlers, DumpFails(h) PROVE UNCHANGED dump
  BY <1>9 DEF DumpFails
<1>10. ASSUME Relay \/ Poll \/ Answer \/ Commit \/ UNCHANGED vars PROVE UNCHANGED dump
  BY <1>10 DEF Relay, Poll, Answer, Commit, vars, agent
<1>. QED
  BY <1>1, <1>2, <1>3, <1>4, <1>5, <1>6, <1>7, <1>8, <1>9, <1>10 DEF Next

LEMMA OnlyRosterStep ==
  ASSUME Typed, OnlyRoster, [Next]_vars
  PROVE  OnlyRoster'
<1>1. CASE Commit
  BY <1>1, CommitAt, BillsFacts DEF OnlyRoster
<1>2. CASE UNCHANGED billed
  BY <1>2 DEF OnlyRoster
<1>3. ASSUME NEW c \in Cores, NEW u \in Users, Move(c, u) PROVE UNCHANGED billed
  BY <1>3 DEF Move, panel
<1>4. ASSUME NEW c \in Cores, Stop(c) \/ Start(c) PROVE UNCHANGED billed
  BY <1>4 DEF Stop, Start, panel
<1>5. ASSUME NEW h \in Handlers, NEW r \in {"ok"} \cup Trouble, AskXray(h, r) \/ AskHysteria(h, r)
      PROVE  UNCHANGED billed
  BY <1>5 DEF AskXray, AskHysteria, panel
<1>6. ASSUME NEW h \in Handlers, ReadDump(h) \/ AccountDump(h) \/ DumpFails(h)
      PROVE  UNCHANGED billed
  BY <1>6 DEF ReadDump, AccountDump, DumpFails, panel
<1>7. ASSUME \/ Relay \/ Poll \/ Answer \/ AgentRestarts
             \/ GivesUp \/ CommitFails \/ PanelRestarts \/ UNCHANGED vars
      PROVE  UNCHANGED billed
  BY <1>7 DEF Relay, Poll, Answer, AgentRestarts, GivesUp, CommitFails, PanelRestarts, vars, panel
<1>. QED
  BY <1>1, <1>2, <1>3, <1>4, <1>5, <1>6, <1>7 DEF Next

LEMMA AwgSame ==
  ASSUME AwgBound, Same("amneziawg"), UNCHANGED <<last, dump>>
  PROVE  AwgBound'
  BY DEF AwgBound, Same

LEMMA AwgStep ==
  ASSUME Typed, AwgBound, OneDump, [Next]_vars
  PROVE  AwgBound'
<1>. USE CoresAre
<1>. DEFINE A == "amneziawg"
<1>0. \A u \in Roster[A] :
        /\ u \in Users
        /\ carried[A][u] \in Nat /\ ctr[A][u] \in Nat /\ val[A][u] \in Nat
        /\ billed[A][u] \in Nat /\ last[u] \in Nat \cup {Unseen}
        /\ \A h \in Handlers : dump[h] # Unseen => dump[h][u] \in Nat
        /\ Gained(ctr[A][u], last[u]) \in Nat
        /\ \A h \in Handlers : dump[h] # Unseen =>
             Gained(dump[h][u], last[u]) \in Nat /\ Gained(ctr[A][u], dump[h][u]) \in Nat
  <2>1. \A u \in Roster[A] :
        /\ u \in Users
        /\ carried[A][u] \in Nat /\ ctr[A][u] \in Nat /\ val[A][u] \in Nat
        /\ billed[A][u] \in Nat /\ last[u] \in Nat \cup {Unseen}
        /\ \A h \in Handlers : dump[h] # Unseen => dump[h][u] \in Nat
    BY RosterUsers DEF Typed, Bytes
  <2>. QED  BY <2>1, GainedFacts
<1>1. ASSUME NEW c \in Cores, NEW u \in Users, Move(c, u) PROVE AwgBound'
  <2>0. UNCHANGED <<last, dump>>
    BY <1>1, MoveAt DEF agent
  <2>1. CASE c # A
    BY <1>1, <2>0, <2>1, MoveAt, AwgSame
  <2>2. CASE c = A
    <3>. SUFFICES ASSUME NEW w \in Roster[A] PROVE AwgBound!(w)'
      BY DEF AwgBound
    <3>1. UNCHANGED <<billed[A], val[A]>>
      BY <1>1, <2>2, MoveAt DEF answer
    <3>2. CASE w # u
      <4>1. carried'[A][w] = carried[A][w] /\ ctr'[A][w] = ctr[A][w]
        <5>1. w \in Users  BY RosterUsers
        <5>. QED  BY <1>1, <2>2, <3>2, <5>1, MoveAt
      <4>. QED  BY <2>0, <3>1, <4>1 DEF AwgBound
    <3>3. CASE w = u
      <4>1. carried'[A][w] = carried[A][w] + 1 /\ ctr'[A][w] = ctr[A][w] + 1
        BY <1>1, <2>2, <3>3, MoveAt
      <4>2. ctr[A][w] + 1 \in Nat  BY <1>0
      <4>3. /\ Gained(ctr[A][w] + 1, last[w]) <= Gained(ctr[A][w], last[w]) + 1
            /\ Gained(ctr[A][w] + 1, last[w]) \in Nat
        BY <1>0, <4>2, GainedFacts
      <4>4. billed'[A][w] + val'[A][w] + Gained(ctr'[A][w], last'[w]) <= carried'[A][w]
        BY <1>0, <2>0, <3>1, <4>1, <4>3 DEF AwgBound
      <4>5. ASSUME NEW h \in Handlers, dump[h] # Unseen
            PROVE  billed[A][w] + val[A][w] + Gained(dump[h][w], last[w])
                   + Gained(ctr[A][w] + 1, dump[h][w]) <= carried[A][w] + 1
        <5>1. /\ Gained(ctr[A][w] + 1, dump[h][w]) <= Gained(ctr[A][w], dump[h][w]) + 1
              /\ Gained(ctr[A][w] + 1, dump[h][w]) \in Nat
          BY <1>0, <4>2, <4>5, GainedFacts
        <5>. QED  BY <1>0, <4>5, <5>1 DEF AwgBound
      <4>. QED  BY <2>0, <3>1, <4>1, <4>4, <4>5
    <3>. QED  BY <3>2, <3>3
  <2>. QED  BY <2>1, <2>2
<1>2. ASSUME NEW c \in Cores, Stop(c) PROVE AwgBound'
  <2>0. UNCHANGED <<last, dump>>
    BY <1>2, StopAt DEF agent
  <2>1. CASE c # A
    BY <1>2, <2>0, <2>1, StopAt, AwgSame
  <2>2. CASE c = A
    <3>. SUFFICES ASSUME NEW w \in Roster[A] PROVE AwgBound!(w)'
      BY DEF AwgBound
    <3>1. UNCHANGED <<billed[A], val[A], carried[A]>> /\ ctr'[A][w] = 0
      BY <1>0, <1>2, <2>2, StopAt DEF answer
    <3>2. /\ Gained(0, last[w]) = 0
          /\ \A h \in Handlers : dump[h] # Unseen => Gained(0, dump[h][w]) = 0
      BY <1>0, GainedFacts
    <3>. QED  BY <1>0, <2>0, <3>1, <3>2 DEF AwgBound
  <2>. QED  BY <2>1, <2>2
<1>3. ASSUME NEW h \in Handlers, AccountDump(h) PROVE AwgBound'
  <2>. SUFFICES ASSUME NEW w \in Roster[A] PROVE AwgBound!(w)'
    BY DEF AwgBound
  <2>1. /\ dump[h] # Unseen /\ last'[w] = dump[h][w]
        /\ UNCHANGED <<billed[A], ctr[A], carried[A]>>
        /\ \/ val'[A][w] = Gained(dump[h][w], last[w])
           \/ val'[A][w] = val[A][w]
    BY <1>3, AccountDumpAt DEF network, Handlers
  <2>2. \A i \in Handlers : dump'[i] = Unseen
    BY <1>3, AccountDumpAt DEF OneDump, Typed
  <2>. QED  BY <1>0, <2>1, <2>2 DEF AwgBound
<1>4. CASE Commit
  <2>. SUFFICES ASSUME NEW w \in Roster[A] PROVE AwgBound!(w)'
    BY DEF AwgBound
  <2>1. /\ billed'[A][w] = billed[A][w] + Bills(A, w)
        /\ UNCHANGED <<carried, ctr, last, dump>> /\ val'[A][w] = 0
    BY <1>0, <1>4, CommitAt DEF network, agent
  <2>2. /\ Bills(A, w) \in Nat /\ Delta(A, w) \in Nat
        /\ Bills(A, w) <= Delta(A, w) /\ Delta(A, w) <= val[A][w]
    BY <1>0, BillsFacts
  <2>. QED  BY <1>0, <2>1, <2>2 DEF AwgBound
<1>5. CASE CommitFails \/ GivesUp \/ PanelRestarts
  <2>. SUFFICES ASSUME NEW w \in Roster[A] PROVE AwgBound!(w)'
    BY DEF AwgBound
  <2>1. UNCHANGED <<carried, ctr, last, billed>> /\ val'[A][w] = 0
    BY <1>0, <1>5, DropAt DEF network
  <2>2. \A i \in Handlers : dump'[i] # Unseen =>
          \E j \in Handlers : dump[j] # Unseen /\ dump'[i] = dump[j]
    <3>1. CASE UNCHANGED dump  BY <3>1
    <3>2. CASE dump' = [dump EXCEPT !["late"] = dump["live"], !["live"] = Unseen]
      BY <3>2 DEF Typed, Handlers
    <3>. QED  BY <1>5, <3>1, <3>2, DropAt
  <2>. QED  BY <1>0, <2>1, <2>2 DEF AwgBound
<1>6. CASE AgentRestarts
  <2>. SUFFICES ASSUME NEW w \in Roster[A] PROVE AwgBound!(w)'
    BY DEF AwgBound
  <2>1. /\ UNCHANGED <<billed, carried>> /\ ctr'[A] = ctr[A] /\ val'[A][w] = 0
        /\ last'[w] = Unseen /\ \A h \in Handlers : dump'[h] = Unseen
    BY <1>0, <1>6, RestartAt
  <2>2. Gained(ctr[A][w], Unseen) = 0
    BY DEF Gained
  <2>. QED  BY <1>0, <2>1, <2>2 DEF AwgBound
<1>7. ASSUME Relay \/ Poll \/ Answer \/ UNCHANGED vars \/ (\E c \in Cores : Start(c))
      PROVE  AwgBound'
  <2>1. UNCHANGED <<last, dump>>
    BY <1>7 DEF Relay, Poll, Answer, Start, vars, agent
  <2>. QED  BY <1>7, <2>1, QuietAt, AwgSame
<1>8. ASSUME NEW h \in Handlers, ReadDump(h) PROVE AwgBound'
  <2>. SUFFICES ASSUME NEW w \in Roster[A] PROVE AwgBound!(w)'
    BY DEF AwgBound
  <2>1. /\ UNCHANGED <<carried, ctr, last, billed, val>>
        /\ \A i \in Handlers : dump'[i] = dump[i] \/ dump'[i] = ctr[A]
    BY <1>8, QuietAt DEF ReadDump, Typed
  <2>2. Gained(ctr[A][w], ctr[A][w]) = 0
    BY <1>0, GainedFacts
  <2>. QED  BY <1>0, <2>1, <2>2 DEF AwgBound
<1>9. ASSUME NEW h \in Handlers, NEW r \in {"ok"} \cup Trouble, AskXray(h, r) \/ AskHysteria(h, r)
      PROVE  AwgBound'
  BY <1>9, AskXrayAt, AskHysteriaAt, AwgSame
<1>10. ASSUME NEW h \in Handlers, DumpFails(h) PROVE AwgBound'
  <2>1. CASE h = "late"
    BY <1>10, <2>1, DumpFailsAt, AwgSame
  <2>2. CASE h = "live"
    BY <1>0, <1>10, <2>2, DumpFailsAt DEF AwgBound, network
  <2>. QED  BY <2>1, <2>2 DEF Handlers
<1>. QED
  BY <1>1, <1>2, <1>3, <1>4, <1>5, <1>6, <1>7, <1>8, <1>9, <1>10 DEF Next

LEMMA BoundInit == Init => Bound
<1>. SUFFICES ASSUME Init PROVE Bound  OBVIOUS
<1>1. /\ \A c \in Cores : \A u \in Users : /\ carried[c][u] = 0 /\ ctr[c][u] = 0
                                           /\ val[c][u] = 0 /\ billed[c][u] = 0
                                           /\ snap[c][u] = Unseen
      /\ \A u \in Users : last[u] = Unseen
      /\ \A h \in Handlers : dump[h] = Unseen
      /\ \A c \in Cores : got[c] = "none"
  BY DEF Init, Zeros, NoDump, NoAnswer
<1>2. Grown(0, Unseen) = 0 /\ Gained(0, Unseen) = 0
  BY DEF Grown, Gained
<1>. QED
  BY <1>1, <1>2, RosterUsers, CoresAre
     DEF Bound, OnlyRoster, XrayBound, HysteriaBound, AwgBound, OneDump

LEMMA BoundGives ==
  ASSUME Typed, Bound
  PROVE  NeverOverbilled
<1>. SUFFICES ASSUME NEW c \in Cores, NEW u \in Users
              PROVE  billed[c][u] <= carried[c][u]
  BY DEF NeverOverbilled
<1>0. /\ billed[c][u] \in Nat /\ carried[c][u] \in Nat /\ val[c][u] \in Nat /\ ctr[c][u] \in Nat
      /\ last[u] \in Nat \cup {Unseen} /\ snap[c][u] \in Nat \cup {Unseen}
  BY DEF Typed, Bytes
<1>1. CASE u \notin Roster[c]
  BY <1>0, <1>1 DEF Bound, OnlyRoster
<1>2. CASE u \in Roster[c] /\ c = "xray"
  <2>1. Grown(ctr[c][u], snap[c][u]) \in Nat  BY <1>0, GrownFacts
  <2>. QED  BY <1>0, <1>2, <2>1 DEF Bound, XrayBound
<1>3. CASE u \in Roster[c] /\ c = "hysteria"
  BY <1>0, <1>3 DEF Bound, HysteriaBound
<1>4. CASE u \in Roster[c] /\ c = "amneziawg"
  <2>1. Gained(ctr[c][u], last[u]) \in Nat  BY <1>0, GainedFacts
  <2>. QED  BY <1>0, <1>4, <2>1 DEF Bound, AwgBound
<1>. QED  BY <1>1, <1>2, <1>3, <1>4 DEF Cores

\* No user is billed a byte they did not move (pollNodeStats, GetStats of the
\* adapters), whatever restarts, is lost or comes late, as long as no two
\* answers are between the dump and the lock of statsOne together.
THEOREM BilledWasMoved ==
  ASSUME Races = FALSE
  PROVE  Spec => []NeverOverbilled
<1>1. Init => Typed /\ Bound
  BY TypedInit, BoundInit
<1>2. Typed /\ Bound /\ [Next]_vars => Typed' /\ Bound'
  BY TypedStep, OnlyRosterStep, XrayStep, HysteriaStep, AwgStep, OneDumpStep DEF Bound
<1>3. Typed /\ Bound => NeverOverbilled
  BY BoundGives
<1>. QED  BY <1>1, <1>2, <1>3, PTL DEF Spec

-----------------------------------------------------------------------------
\* Every byte is accounted for.

\* An adapter the poll has not asked yet, and a poll not begun, hold no bytes;
\* an answer without rows holds none either.
Fresh ==
  /\ poll = "idle" => left["live"] = {} /\ \A c \in Cores, u \in Users : val[c][u] = 0
  /\ poll = "answered" => left["live"] = {}
  /\ \A c \in left["live"], u \in Users : val[c][u] = 0
  /\ \A c \in Cores, u \in Users : got[c] \notin {"tagged", "rows"} => val[c][u] = 0

\* While xray kept its counters, snapshot, answer and counter are in order.
XrayExact ==
  "xray" \in kept => \A u \in Roster["xray"] :
    /\ snap["xray"][u] = Unseen => /\ billed["xray"][u] = 0 /\ lost["xray"][u] = 0
                                   /\ ctr["xray"][u] = carried["xray"][u]
    /\ snap["xray"][u] # Unseen =>
         /\ snap["xray"][u] <= ctr["xray"][u]
         /\ billed["xray"][u] + lost["xray"][u] + (ctr["xray"][u] - snap["xray"][u])
            = carried["xray"][u]
    /\ got["xray"] = "tagged" =>
         /\ val["xray"][u] <= ctr["xray"][u]
         /\ snap["xray"][u] # Unseen => snap["xray"][u] <= val["xray"][u]

HysteriaExact ==
  \A u \in Roster["hysteria"] :
    billed["hysteria"][u] + val["hysteria"][u] + ctr["hysteria"][u] + lost["hysteria"][u]
    = carried["hysteria"][u]

\* While amneziawg and the agent kept theirs, so are lastStats, dump and counter.
AwgExact ==
  "amneziawg" \in kept => \A u \in Roster["amneziawg"] :
    /\ last[u] = Unseen => /\ billed["amneziawg"][u] = 0 /\ val["amneziawg"][u] = 0
                           /\ lost["amneziawg"][u] = 0
                           /\ ctr["amneziawg"][u] = carried["amneziawg"][u]
    /\ last[u] # Unseen =>
         /\ last[u] <= ctr["amneziawg"][u]
         /\ billed["amneziawg"][u] + val["amneziawg"][u] + lost["amneziawg"][u]
            + (ctr["amneziawg"][u] - last[u]) = carried["amneziawg"][u]
    /\ \A h \in Handlers : dump[h] # Unseen =>
         /\ dump[h][u] <= ctr["amneziawg"][u]
         /\ last[u] # Unseen => last[u] <= dump[h][u]

Exact == Fresh /\ XrayExact /\ HysteriaExact /\ AwgExact /\ OneDump

LEMMA FreshInit == Init => Fresh
<1>. SUFFICES ASSUME Init PROVE Fresh  OBVIOUS
<1>1. (\A c \in Cores, u \in Users : val[c][u] = 0) /\ left["live"] = {}
  BY DEF Init, Zeros, Handlers
<1>. QED  BY <1>1 DEF Fresh

LEMMA FreshStep ==
  ASSUME Typed, Fresh, [Next]_vars
  PROVE  Fresh'
<1>0. left["live"] \subseteq Cores /\ "live" \in Handlers /\ "late" \in Handlers
  BY DEF Typed, Handlers
<1>1. ASSUME left'["live"] = {}, \A c \in Cores, u \in Users : val'[c][u] = 0
      PROVE  Fresh'
  BY <1>1 DEF Fresh
<1>2. ASSUME UNCHANGED <<got, val, left, poll>>
      PROVE  Fresh'
  BY <1>2 DEF Fresh
\* A handler asks one adapter.
<1>3. ASSUME NEW h \in Handlers, NEW a \in Cores, a \in left[h], UNCHANGED poll,
             left' = [left EXCEPT ![h] = @ \ {a}],
             \A d \in Cores \ {a} : got'[d] = got[d] /\ val'[d] = val[d],
             h = "late" => got'[a] = got[a] /\ val'[a] = val[a],
             h = "live" => \A u \in Users : got'[a] \notin {"tagged", "rows"} => val'[a][u] = 0
      PROVE  Fresh'
  <2>1. CASE h = "late"
    <3>1. left'["live"] = left["live"] /\ \A d \in Cores : got'[d] = got[d] /\ val'[d] = val[d]
      BY <1>0, <1>3, <2>1 DEF Typed
    <3>. QED  BY <1>0, <1>3, <3>1 DEF Fresh
  <2>2. CASE h = "live"
    <3>1. left'["live"] = left["live"] \ {a} /\ poll # "idle"
      BY <1>0, <1>3, <2>2 DEF Typed, Fresh
    <3>. QED  BY <1>0, <1>3, <2>2, <3>1 DEF Fresh
  <2>. QED  BY <2>1, <2>2 DEF Handlers
<1>4. ASSUME NEW h \in Handlers, NEW r \in {"ok"} \cup Trouble, AskXray(h, r) PROVE Fresh'
  <2>1. \E g \in {"tagged", "rows", "noData"} : \E v, t :
          Gives(h, "xray", g, v, t) /\ (g = "noData" => v = Nothing)
    BY <1>4 DEF AskXray
  <2>0. PICK g \in {"tagged", "rows", "noData"} : \E v, t :
          Gives(h, "xray", g, v, t) /\ (g = "noData" => v = Nothing)
    BY <2>1
  <2>2. PICK v, t : Gives(h, "xray", g, v, t) /\ (g = "noData" => v = Nothing)
    BY <2>0
  <2>3. \A u \in Users : Nothing[u] = 0
    BY DEF Nothing, Zeros, Cores
  <2>4. /\ \A d \in Cores \ {"xray"} : got'[d] = got[d] /\ val'[d] = val[d]
        /\ h = "live" => got'["xray"] = g /\ val'["xray"] = v
        /\ h = "late" => got'["xray"] = got["xray"] /\ val'["xray"] = val["xray"]
    BY <2>2, GivesAt, CoresAre
  <2>5. "xray" \in left[h] /\ left' = [left EXCEPT ![h] = @ \ {"xray"}] /\ UNCHANGED poll
    BY <1>4 DEF AskXray, Asked
  <2>6. h = "live" => \A u \in Users : got'["xray"] \notin {"tagged", "rows"} => val'["xray"][u] = 0
    BY <2>2, <2>3, <2>4
  <2>. QED  BY <1>3, <2>4, <2>5, <2>6, CoresAre
<1>5. ASSUME NEW h \in Handlers, NEW r \in {"ok"} \cup Trouble, AskHysteria(h, r) PROVE Fresh'
  <2>1. \A d \in Cores \ {"hysteria"} : got'[d] = got[d] /\ val'[d] = val[d]
    BY <1>5, AskHysteriaAt DEF Same
  <2>2. h = "late" => got'["hysteria"] = got["hysteria"] /\ val'["hysteria"] = val["hysteria"]
    BY <1>5, AskHysteriaAt DEF Same
  <2>3. \/ Same("hysteria")
        \/ h = "live" => \A u \in Users : val'["hysteria"][u] = 0 \/ got'["hysteria"] = "rows"
    BY <1>5, AskHysteriaAt
  <2>4. "hysteria" \in left[h] /\ left' = [left EXCEPT ![h] = @ \ {"hysteria"}] /\ UNCHANGED poll
    BY <1>5, AskHysteriaAt
  <2>5. h = "live" => \A u \in Users :
          got'["hysteria"] \notin {"tagged", "rows"} => val'["hysteria"][u] = 0
    BY <2>3, CoresAre DEF Same, Fresh
  <2>. QED  BY <1>3, <2>1, <2>2, <2>4, <2>5, CoresAre
<1>6. ASSUME NEW h \in Handlers, AccountDump(h) PROVE Fresh'
  <2>1. /\ \A d \in Cores \ {"amneziawg"} : got'[d] = got[d] /\ val'[d] = val[d]
        /\ h = "live" => got'["amneziawg"] = "rows"
        /\ h = "late" => got'["amneziawg"] = got["amneziawg"] /\ val'["amneziawg"] = val["amneziawg"]
    BY <1>6, GivesAt, CoresAre DEF AccountDump
  <2>2. "amneziawg" \in left[h] /\ left' = [left EXCEPT ![h] = @ \ {"amneziawg"}] /\ UNCHANGED poll
    BY <1>6, AccountDumpAt
  <2>. QED  BY <1>3, <2>1, <2>2, CoresAre
<1>7. ASSUME NEW h \in Handlers, DumpFails(h) PROVE Fresh'
  <2>1. /\ \A d \in Cores \ {"amneziawg"} : got'[d] = got[d] /\ val'[d] = val[d]
        /\ h = "live" => \A u \in Users : val'["amneziawg"][u] = 0
        /\ h = "late" => got'["amneziawg"] = got["amneziawg"] /\ val'["amneziawg"] = val["amneziawg"]
    BY <1>7, DumpFailsAt DEF Same
  <2>2. "amneziawg" \in left[h] /\ left' = [left EXCEPT ![h] = @ \ {"amneziawg"}] /\ UNCHANGED poll
    BY <1>7, DumpFailsAt
  <2>. QED  BY <1>3, <2>1, <2>2, CoresAre
<1>8. CASE AgentRestarts
  BY <1>0, <1>1, <1>8, RestartAt
<1>9. CASE GivesUp \/ PanelRestarts
  <2>1. left'["live"] = {}
    BY <1>0, <1>9 DEF GivesUp, PanelRestarts, LeavesBehind, Typed
  <2>. QED  BY <1>1, <1>9, <2>1, DropAt
<1>10. CASE Poll
  <2>1. left'["live"] = Cores /\ UNCHANGED <<got, val>> /\ poll' = "asked" /\ poll = "idle"
    BY <1>0, <1>10 DEF Poll, Typed, answer
  <2>. QED  BY <2>1 DEF Fresh
<1>11. CASE Answer
  BY <1>11 DEF Answer, agent, answer, Fresh
\* A poll that is answered has no live handler.
<1>12. CASE Commit \/ CommitFails
  <2>1. left' = left /\ poll = "answered"
    BY <1>12 DEF Commit, CommitFails, agent
  <2>2. \A c \in Cores, u \in Users : val'[c][u] = 0
    BY <1>12, CommitAt, DropAt
  <2>. QED  BY <1>1, <2>1, <2>2 DEF Fresh
<1>13. ASSUME NEW c \in Cores, NEW u \in Users, Move(c, u) PROVE Fresh'
  BY <1>2, <1>13 DEF Move, agent, answer
<1>14. ASSUME NEW c \in Cores, Stop(c) \/ Start(c) PROVE Fresh'
  BY <1>2, <1>14 DEF Stop, Start, agent, answer
<1>15. ASSUME NEW h \in Handlers, ReadDump(h) PROVE Fresh'
  BY <1>2, <1>15 DEF ReadDump, answer
<1>16. ASSUME Relay \/ UNCHANGED vars PROVE Fresh'
  BY <1>2, <1>16 DEF Relay, vars, agent, answer
<1>. QED
  BY <1>4, <1>5, <1>6, <1>7, <1>8, <1>9, <1>10, <1>11, <1>12, <1>13, <1>14, <1>15, <1>16 DEF Next

\* What Waived and Bills make of a delta the panel bills as it came.
LEMMA PassedThrough ==
  ASSUME Typed, Fresh, NEW c \in Cores \ {"xray"}, NEW u \in Roster[c],
         Roster["xray"] # {}
  PROVE  Bills(c, u) + Waived(c, u) = val[c][u]
<1>1. u \in Users /\ val[c][u] \in Nat
  BY RosterUsers DEF Typed, Bytes
<1>2. ~AsCumulative(c)
  BY DEF AsCumulative, Tagged
<1>3. Delta(c, u) = val[c][u]
  BY <1>2 DEF Delta
<1>4. CASE got[c] \in {"tagged", "rows"}
  <2>1. u \in Rows(c)  BY <1>4 DEF Rows
  <2>. QED  BY <1>1, <1>2, <1>3, <2>1, BoundsAssumption DEF Bills, Waived
<1>5. CASE got[c] \notin {"tagged", "rows"}
  <2>1. Rows(c) = {} /\ val[c][u] = 0
    BY <1>1, <1>5 DEF Rows, Fresh
  <2>. QED  BY <2>1 DEF Bills, Waived
<1>. QED  BY <1>4, <1>5

LEMMA HysteriaExactStep ==
  ASSUME Typed, Fresh, HysteriaExact, Roster["xray"] # {}, [Next]_vars
  PROVE  HysteriaExact'
<1>. USE CoresAre
<1>. DEFINE H == "hysteria"
<1>0. \A u \in Roster[H] :
        /\ u \in Users
        /\ carried[H][u] \in Nat /\ ctr[H][u] \in Nat /\ lost[H][u] \in Nat
        /\ val[H][u] \in Nat /\ billed[H][u] \in Nat
  BY RosterUsers DEF Typed, Bytes
<1>a. ASSUME Same(H) PROVE HysteriaExact'
  BY <1>a DEF HysteriaExact, Same
<1>1. ASSUME NEW c \in Cores, NEW u \in Users, Move(c, u) PROVE HysteriaExact'
  <2>1. CASE c # H
    BY <1>1, <1>a, <2>1, MoveAt
  <2>2. CASE c = H
    <3>. SUFFICES ASSUME NEW w \in Roster[H] PROVE HysteriaExact!(w)'
      BY DEF HysteriaExact
    <3>1. UNCHANGED <<billed[H], val[H], lost[H]>>
      BY <1>1, <2>2, MoveAt DEF answer
    <3>2. \/ UNCHANGED <<carried[H][w], ctr[H][w]>>
          \/ /\ carried'[H][w] = carried[H][w] + 1
             /\ ctr'[H][w] = ctr[H][w] + 1
      BY <1>0, <1>1, <2>2, MoveAt
    <3>. QED  BY <1>0, <3>1, <3>2 DEF HysteriaExact
  <2>. QED  BY <2>1, <2>2
<1>2. ASSUME NEW c \in Cores, Stop(c) PROVE HysteriaExact'
  <2>1. CASE c # H
    BY <1>2, <1>a, <2>1, StopAt
  <2>2. CASE c = H
    <3>. SUFFICES ASSUME NEW w \in Roster[H] PROVE HysteriaExact!(w)'
      BY DEF HysteriaExact
    <3>1. /\ UNCHANGED <<billed[H], val[H], carried[H]>>
          /\ ctr'[H][w] = 0 /\ lost'[H][w] = lost[H][w] + ctr[H][w]
      BY <1>0, <1>2, <2>2, StopAt DEF answer
    <3>. QED  BY <1>0, <3>1 DEF HysteriaExact
  <2>. QED  BY <2>1, <2>2
<1>3. ASSUME NEW h \in Handlers, NEW r \in {"ok"} \cup Trouble, AskHysteria(h, r)
      PROVE  HysteriaExact'
  <2>1. CASE Same(H)
    BY <1>a, <2>1
  <2>2. CASE ~Same(H)
    <3>. SUFFICES ASSUME NEW w \in Roster[H] PROVE HysteriaExact!(w)'
      BY DEF HysteriaExact
    <3>0. h = "live" => val[H][w] = 0
      BY <1>0, <1>3, AskHysteriaAt DEF Fresh
    <3>1. /\ UNCHANGED <<billed[H], carried[H]>>
          /\ \/ /\ h = "live" /\ val'[H][w] = 0 /\ ctr'[H][w] = ctr[H][w]
                /\ lost'[H][w] = lost[H][w]
             \/ /\ h = "live" /\ val'[H][w] = ctr[H][w] /\ ctr'[H][w] = 0
                /\ lost'[H][w] = lost[H][w]
             \/ /\ val'[H][w] = (IF h = "live" THEN 0 ELSE val[H][w]) /\ ctr'[H][w] = 0
                /\ lost'[H][w] = lost[H][w] + ctr[H][w]
      BY <1>0, <1>3, <2>2, AskHysteriaAt DEF Handlers
    <3>. QED  BY <1>0, <3>0, <3>1 DEF HysteriaExact
  <2>. QED  BY <2>1, <2>2
<1>4. CASE Commit
  <2>. SUFFICES ASSUME NEW w \in Roster[H] PROVE HysteriaExact!(w)'
    BY DEF HysteriaExact
  <2>1. /\ billed'[H][w] = billed[H][w] + Bills(H, w)
        /\ lost'[H][w] = lost[H][w] + Waived(H, w)
        /\ UNCHANGED <<carried, ctr>> /\ val'[H][w] = 0
    BY <1>0, <1>4, CommitAt DEF network
  <2>2. Bills(H, w) \in Nat /\ Waived(H, w) \in Nat
    BY <1>0, BillsFacts
  <2>3. Bills(H, w) + Waived(H, w) = val[H][w]
    BY PassedThrough
  <2>. QED  BY <1>0, <2>1, <2>2, <2>3 DEF HysteriaExact
<1>5. CASE CommitFails \/ GivesUp \/ PanelRestarts
  <2>. SUFFICES ASSUME NEW w \in Roster[H] PROVE HysteriaExact!(w)'
    BY DEF HysteriaExact
  <2>1. /\ UNCHANGED <<billed, carried, ctr>> /\ val'[H][w] = 0
        /\ lost'[H][w] = lost[H][w] + val[H][w]
    BY <1>0, <1>5, DropAt DEF network, Dropped
  <2>. QED  BY <1>0, <2>1 DEF HysteriaExact
<1>6. CASE AgentRestarts
  <2>. SUFFICES ASSUME NEW w \in Roster[H] PROVE HysteriaExact!(w)'
    BY DEF HysteriaExact
  <2>1. /\ UNCHANGED <<billed, carried>> /\ ctr'[H] = ctr[H] /\ val'[H][w] = 0
        /\ lost'[H][w] = lost[H][w] + val[H][w]
    BY <1>0, <1>6, RestartAt DEF Dropped
  <2>. QED  BY <1>0, <2>1 DEF HysteriaExact
<1>7. ASSUME Relay \/ Poll \/ Answer \/ UNCHANGED vars
              \/ (\E c \in Cores : Start(c)) \/ (\E h \in Handlers : ReadDump(h))
      PROVE  HysteriaExact'
  BY <1>7, <1>a, QuietAt
<1>8. ASSUME NEW h \in Handlers, NEW r \in {"ok"} \cup Trouble, AskXray(h, r)
      PROVE  HysteriaExact'
  BY <1>8, <1>a, AskXrayAt
<1>9. ASSUME NEW h \in Handlers, AccountDump(h) \/ DumpFails(h) PROVE HysteriaExact'
  BY <1>9, <1>a, AccountDumpAt, DumpFailsAt
<1>. QED
  BY <1>1, <1>2, <1>3, <1>4, <1>5, <1>6, <1>7, <1>8, <1>9 DEF Next

LEMMA XrayExactStep ==
  ASSUME Typed, XrayBound, XrayExact, [Next]_vars
  PROVE  XrayExact'
<1>. USE CoresAre
<1>. DEFINE X == "xray"
<1>0. \A u \in Roster[X] :
        /\ u \in Users
        /\ carried[X][u] \in Nat /\ ctr[X][u] \in Nat /\ val[X][u] \in Nat
        /\ billed[X][u] \in Nat /\ lost[X][u] \in Nat /\ snap[X][u] \in Nat \cup {Unseen}
  BY RosterUsers DEF Typed, Bytes
<1>a. ASSUME Same(X), X \in kept' => X \in kept PROVE XrayExact'
  BY <1>a DEF XrayExact, Same
<1>b. ASSUME X \notin kept' PROVE XrayExact'
  BY <1>b DEF XrayExact
<1>1. ASSUME NEW c \in Cores, NEW u \in Users, Move(c, u) PROVE XrayExact'
  <2>0. UNCHANGED kept
    BY <1>1, MoveAt
  <2>1. CASE c # X
    BY <1>1, <1>a, <2>0, <2>1, MoveAt
  <2>2. CASE c = X /\ X \in kept
    <3>. SUFFICES ASSUME NEW w \in Roster[X] PROVE XrayExact!2!(w)'
      BY DEF XrayExact
    <3>1. UNCHANGED <<snap[X], billed[X], got[X], val[X], lost[X]>>
      BY <1>1, <2>2, MoveAt DEF answer
    <3>2. w \in Users  BY <1>0
    <3>3. \/ UNCHANGED <<carried[X][w], ctr[X][w]>>
          \/ carried'[X][w] = carried[X][w] + 1 /\ ctr'[X][w] = ctr[X][w] + 1
      BY <1>1, <2>2, <3>2, MoveAt
    <3>. QED  BY <1>0, <2>2, <3>1, <3>3, UnseenAssumption DEF XrayExact
  <2>. QED  BY <1>b, <2>0, <2>1, <2>2
<1>2. ASSUME NEW c \in Cores, Stop(c) PROVE XrayExact'
  BY <1>2, <1>a, <1>b, StopAt
<1>3. ASSUME NEW h \in Handlers, NEW r \in {"ok"} \cup Trouble, AskXray(h, r) PROVE XrayExact'
  <2>0. UNCHANGED kept  BY <1>3, AskXrayAt
  <2>1. CASE Same(X)
    BY <1>a, <2>0, <2>1
  <2>2. CASE ~Same(X) /\ X \in kept
    <3>. SUFFICES ASSUME NEW w \in Roster[X] PROVE XrayExact!2!(w)'
      BY DEF XrayExact
    <3>1. /\ UNCHANGED <<snap[X], billed[X], ctr[X], carried[X], lost[X]>>
          /\ got'[X] # "tagged" \/ val'[X][w] = ctr[X][w]
      BY <1>3, <2>2, AskXrayAt DEF network
    <3>. QED  BY <1>0, <2>2, <3>1, UnseenAssumption DEF XrayExact
  <2>. QED  BY <1>b, <2>0, <2>1, <2>2
<1>4. CASE Commit
  <2>0. UNCHANGED kept  BY <1>4, CommitAt
  <2>1. CASE X \in kept
    <3>. SUFFICES ASSUME NEW w \in Roster[X] PROVE XrayExact!2!(w)'
      BY DEF XrayExact
    <3>0. AsCumulative(X) <=> got[X] = "tagged"
      BY DEF AsCumulative, ResCumulative
    <3>1. /\ billed'[X][w] = billed[X][w] + Bills(X, w)
          /\ lost'[X][w] = lost[X][w] + Waived(X, w)
          /\ UNCHANGED <<carried, ctr>> /\ got'[X] = "none"
          /\ w \in Rows(X) /\ AsCumulative(X) => snap'[X][w] = val[X][w]
          /\ ~(w \in Rows(X) /\ AsCumulative(X)) => snap'[X][w] = snap[X][w]
      BY <1>0, <1>4, CommitAt DEF network
    <3>2. CASE got[X] = "tagged"
      <4>1. w \in Rows(X) /\ Delta(X, w) = Grown(val[X][w], snap[X][w])
        BY <3>0, <3>2 DEF Rows, Delta
      <4>2. CASE snap[X][w] = Unseen
        <5>1. Grown(val[X][w], snap[X][w]) = 0
          BY <4>2 DEF Grown
        <5>2. Bills(X, w) = 0 /\ Waived(X, w) = val[X][w]
          BY <3>0, <3>2, <4>1, <4>2, <5>1, BoundsAssumption DEF Bills, Waived
        <5>. QED
          BY <1>0, <2>1, <3>0, <3>1, <3>2, <4>1, <4>2, <5>2, UnseenAssumption DEF XrayExact
      <4>3. CASE snap[X][w] # Unseen
        <5>1. snap[X][w] \in Nat /\ snap[X][w] <= val[X][w]
          BY <1>0, <2>1, <3>2, <4>3 DEF XrayExact
        <5>2. Grown(val[X][w], snap[X][w]) = val[X][w] - snap[X][w]
          BY <1>0, <4>3, <5>1 DEF Grown
        <5>3. Bills(X, w) + Waived(X, w) = val[X][w] - snap[X][w]
          BY <1>0, <4>1, <4>3, <5>1, <5>2, BoundsAssumption DEF Bills, Waived
        <5>4. Bills(X, w) \in Nat /\ Waived(X, w) \in Nat
          BY <1>0, BillsFacts
        <5>. QED
          BY <1>0, <2>1, <3>0, <3>1, <3>2, <4>1, <4>3, <5>1, <5>3, <5>4, UnseenAssumption
             DEF XrayExact
      <4>. QED  BY <4>2, <4>3
    <3>3. CASE got[X] # "tagged"
      <4>1. ~AsCumulative(X)  BY <3>0, <3>3
      <4>2. Bills(X, w) = 0 /\ Waived(X, w) = 0
        <5>1. Delta(X, w) = 0  BY <3>3, <4>1 DEF Delta, XrayBound
        <5>. QED  BY <4>1, <5>1, BoundsAssumption DEF Bills, Waived
      <4>. QED  BY <1>0, <2>1, <3>1, <3>3, <4>1, <4>2 DEF XrayExact
    <3>. QED  BY <3>2, <3>3
  <2>. QED  BY <1>b, <2>0, <2>1
<1>5. CASE CommitFails \/ GivesUp \/ PanelRestarts
  <2>0. UNCHANGED kept  BY <1>5, DropAt
  <2>1. CASE X \in kept
    <3>. SUFFICES ASSUME NEW w \in Roster[X] PROVE XrayExact!2!(w)'
      BY DEF XrayExact
    <3>1. /\ UNCHANGED <<snap[X], billed[X], ctr[X], carried[X]>> /\ got'[X] = "none"
          /\ lost'[X][w] = lost[X][w]
      BY <1>0, <1>5, DropAt DEF network, Dropped
    <3>. QED  BY <1>0, <2>1, <3>1 DEF XrayExact
  <2>. QED  BY <1>b, <2>0, <2>1
<1>6. CASE AgentRestarts
  BY <1>6, <1>b, RestartAt
<1>7. ASSUME Relay \/ Poll \/ Answer \/ UNCHANGED vars
              \/ (\E c \in Cores : Start(c)) \/ (\E h \in Handlers : ReadDump(h))
      PROVE  XrayExact'
  BY <1>7, <1>a, QuietAt
<1>8. ASSUME NEW h \in Handlers, NEW r \in {"ok"} \cup Trouble, AskHysteria(h, r) PROVE XrayExact'
  BY <1>8, <1>a, AskHysteriaAt
<1>9. ASSUME NEW h \in Handlers, AccountDump(h) \/ DumpFails(h) PROVE XrayExact'
  BY <1>9, <1>a, AccountDumpAt, DumpFailsAt
<1>. QED
  BY <1>1, <1>2, <1>3, <1>4, <1>5, <1>6, <1>7, <1>8, <1>9 DEF Next

LEMMA AwgExactStep ==
  ASSUME Typed, Fresh, OneDump, AwgExact, Roster["xray"] # {}, [Next]_vars
  PROVE  AwgExact'
<1>. USE CoresAre
<1>. DEFINE A == "amneziawg"
<1>0. \A u \in Roster[A] :
        /\ u \in Users
        /\ carried[A][u] \in Nat /\ ctr[A][u] \in Nat /\ val[A][u] \in Nat
        /\ billed[A][u] \in Nat /\ lost[A][u] \in Nat /\ last[u] \in Nat \cup {Unseen}
        /\ \A h \in Handlers : dump[h] # Unseen => dump[h][u] \in Nat
  BY RosterUsers DEF Typed, Bytes
<1>a. ASSUME Same(A), UNCHANGED <<last, dump>>, A \in kept' => A \in kept PROVE AwgExact'
  BY <1>a DEF AwgExact, Same
<1>b. ASSUME A \notin kept' PROVE AwgExact'
  BY <1>b DEF AwgExact
<1>1. ASSUME NEW c \in Cores, NEW u \in Users, Move(c, u) PROVE AwgExact'
  <2>0. UNCHANGED <<last, dump, kept>>
    BY <1>1, MoveAt DEF agent
  <2>1. CASE c # A
    BY <1>1, <1>a, <2>0, <2>1, MoveAt
  <2>2. CASE c = A /\ A \in kept
    <3>. SUFFICES ASSUME NEW w \in Roster[A] PROVE AwgExact!2!(w)'
      BY DEF AwgExact
    <3>1. UNCHANGED <<billed[A], val[A], lost[A]>>
      BY <1>1, <2>2, MoveAt DEF answer
    <3>2. w \in Users  BY <1>0
    <3>3. \/ UNCHANGED <<carried[A][w], ctr[A][w]>>
          \/ carried'[A][w] = carried[A][w] + 1 /\ ctr'[A][w] = ctr[A][w] + 1
      BY <1>1, <2>2, <3>2, MoveAt
    <3>4. CASE UNCHANGED <<carried[A][w], ctr[A][w]>>
      BY <2>0, <2>2, <3>1, <3>4 DEF AwgExact
    <3>5. CASE carried'[A][w] = carried[A][w] + 1 /\ ctr'[A][w] = ctr[A][w] + 1
      <4>1. CASE last[w] = Unseen
        BY <1>0, <2>0, <2>2, <3>1, <3>5, <4>1 DEF AwgExact
      <4>2. CASE last[w] # Unseen
        BY <1>0, <2>0, <2>2, <3>1, <3>5, <4>2 DEF AwgExact
      <4>. QED  BY <4>1, <4>2
    <3>. QED  BY <3>3, <3>4, <3>5
  <2>. QED  BY <1>b, <2>0, <2>1, <2>2
<1>2. ASSUME NEW c \in Cores, Stop(c) PROVE AwgExact'
  BY <1>2, <1>a, <1>b, StopAt DEF agent
<1>3. ASSUME NEW h \in Handlers, AccountDump(h) PROVE AwgExact'
  <2>0. UNCHANGED kept  BY <1>3, AccountDumpAt
  <2>1. CASE A \in kept
    <3>. SUFFICES ASSUME NEW w \in Roster[A] PROVE AwgExact!2!(w)'
      BY DEF AwgExact
    <3>0. h = "live" => val[A][w] = 0
      BY <1>0, <1>3, AccountDumpAt DEF Fresh
    <3>1. /\ dump[h] # Unseen /\ last'[w] = dump[h][w]
          /\ UNCHANGED <<billed[A], ctr[A], carried[A]>>
          /\ val'[A][w] = IF h = "live" THEN Gained(dump[h][w], last[w]) ELSE val[A][w]
          /\ lost'[A][w] = lost[A][w]
               + IF last[w] = Unseen THEN dump[h][w]
                 ELSE IF h = "late" THEN Gained(dump[h][w], last[w]) ELSE 0
      BY <1>3, AccountDumpAt DEF network, Handlers
    <3>2. \A i \in Handlers : dump'[i] = Unseen
      BY <1>3, AccountDumpAt DEF OneDump, Typed
    <3>3. CASE last[w] = Unseen
      <4>1. Gained(dump[h][w], last[w]) = 0
        BY <3>3 DEF Gained
      <4>2. /\ billed[A][w] = 0 /\ val[A][w] = 0 /\ lost[A][w] = 0
            /\ ctr[A][w] = carried[A][w] /\ dump[h][w] <= ctr[A][w] /\ dump[h][w] \in Nat
        BY <1>0, <2>1, <3>1, <3>3 DEF AwgExact
      <4>3. val'[A][w] = 0 /\ lost'[A][w] = dump[h][w]
        BY <3>1, <3>3, <4>1, <4>2
      <4>. QED
        BY <1>0, <3>1, <3>2, <4>2, <4>3, UnseenAssumption
    <3>4. CASE last[w] # Unseen
      <4>0. last[w] \in Nat /\ dump[h][w] \in Nat /\ last[w] <= dump[h][w]
        BY <1>0, <2>1, <3>1, <3>4 DEF AwgExact
      <4>1. Gained(dump[h][w], last[w]) = dump[h][w] - last[w]
        BY <3>4, <4>0 DEF Gained
      <4>2. dump[h][w] <= ctr[A][w]
        BY <2>1, <3>1 DEF AwgExact
      <4>3. billed[A][w] + val[A][w] + lost[A][w] + (ctr[A][w] - last[w]) = carried[A][w]
        BY <2>1, <3>4 DEF AwgExact
      <4>4. CASE h = "live"
        BY <1>0, <3>0, <3>1, <3>2, <3>4, <4>0, <4>1, <4>2, <4>3, <4>4, UnseenAssumption
      <4>5. CASE h = "late"
        BY <1>0, <3>1, <3>2, <3>4, <4>0, <4>1, <4>2, <4>3, <4>5, UnseenAssumption
      <4>. QED  BY <4>4, <4>5 DEF Handlers
    <3>. QED  BY <3>3, <3>4
  <2>. QED  BY <1>b, <2>0, <2>1
<1>4. CASE Commit
  <2>0. UNCHANGED kept  BY <1>4, CommitAt
  <2>1. CASE A \in kept
    <3>. SUFFICES ASSUME NEW w \in Roster[A] PROVE AwgExact!2!(w)'
      BY DEF AwgExact
    <3>1. /\ billed'[A][w] = billed[A][w] + Bills(A, w)
          /\ lost'[A][w] = lost[A][w] + Waived(A, w)
          /\ UNCHANGED <<carried, ctr, last, dump>> /\ val'[A][w] = 0
      BY <1>0, <1>4, CommitAt DEF network, agent
    <3>2. Bills(A, w) \in Nat /\ Waived(A, w) \in Nat
      BY <1>0, BillsFacts
    <3>3. Bills(A, w) + Waived(A, w) = val[A][w]
      BY PassedThrough
    <3>. QED  BY <1>0, <2>1, <3>1, <3>2, <3>3 DEF AwgExact
  <2>. QED  BY <1>b, <2>0, <2>1
<1>5. CASE CommitFails \/ GivesUp \/ PanelRestarts
  <2>0. UNCHANGED kept  BY <1>5, DropAt
  <2>1. CASE A \in kept
    <3>. SUFFICES ASSUME NEW w \in Roster[A] PROVE AwgExact!2!(w)'
      BY DEF AwgExact
    <3>1. /\ UNCHANGED <<carried, ctr, last, billed>> /\ val'[A][w] = 0
          /\ lost'[A][w] = lost[A][w] + val[A][w]
      BY <1>0, <1>5, DropAt DEF network, Dropped
    <3>2. \A i \in Handlers : dump'[i] # Unseen =>
            \E j \in Handlers : dump[j] # Unseen /\ dump'[i] = dump[j]
      <4>1. CASE UNCHANGED dump  BY <4>1
      <4>2. CASE dump' = [dump EXCEPT !["late"] = dump["live"], !["live"] = Unseen]
        BY <4>2 DEF Typed, Handlers
      <4>. QED  BY <1>5, <4>1, <4>2, DropAt
    <3>. QED  BY <1>0, <2>1, <3>1, <3>2 DEF AwgExact
  <2>. QED  BY <1>b, <2>0, <2>1
<1>6. CASE AgentRestarts
  BY <1>6, <1>b, RestartAt
<1>7. ASSUME Relay \/ Poll \/ Answer \/ UNCHANGED vars \/ (\E c \in Cores : Start(c))
      PROVE  AwgExact'
  <2>1. UNCHANGED <<last, dump>>
    BY <1>7 DEF Relay, Poll, Answer, Start, vars, agent
  <2>. QED  BY <1>7, <1>a, <2>1, QuietAt
<1>8. ASSUME NEW h \in Handlers, ReadDump(h) PROVE AwgExact'
  <2>0. UNCHANGED kept  BY <1>8, QuietAt
  <2>1. CASE A \in kept
    <3>. SUFFICES ASSUME NEW w \in Roster[A] PROVE AwgExact!2!(w)'
      BY DEF AwgExact
    <3>1. /\ UNCHANGED <<carried, ctr, last, billed, val, lost>>
          /\ \A i \in Handlers : dump'[i] = dump[i] \/ dump'[i] = ctr[A]
      BY <1>8, QuietAt DEF ReadDump, Typed
    <3>. QED  BY <1>0, <2>1, <3>1 DEF AwgExact
  <2>. QED  BY <1>b, <2>0, <2>1
<1>9. ASSUME NEW h \in Handlers, NEW r \in {"ok"} \cup Trouble, AskXray(h, r) \/ AskHysteria(h, r)
      PROVE  AwgExact'
  BY <1>9, <1>a, AskXrayAt, AskHysteriaAt
<1>10. ASSUME NEW h \in Handlers, DumpFails(h) PROVE AwgExact'
  <2>0. UNCHANGED <<kept, last, dump>>  BY <1>10, DumpFailsAt
  <2>1. CASE h = "late"
    BY <1>10, <1>a, <2>0, <2>1, DumpFailsAt
  <2>2. CASE h = "live" /\ A \in kept
    <3>. SUFFICES ASSUME NEW w \in Roster[A] PROVE AwgExact!2!(w)'
      BY DEF AwgExact
    <3>1. /\ UNCHANGED <<carried, ctr, billed, lost>> /\ val'[A][w] = 0 /\ val[A][w] = 0
      BY <1>0, <1>10, <2>2, DumpFailsAt DEF network, Fresh
    <3>. QED  BY <1>0, <2>0, <2>2, <3>1 DEF AwgExact
  <2>. QED  BY <1>b, <2>0, <2>1, <2>2 DEF Handlers
<1>. QED
  BY <1>1, <1>2, <1>3, <1>4, <1>5, <1>6, <1>7, <1>8, <1>9, <1>10 DEF Next

LEMMA ExactInit == Init => Exact
<1>. SUFFICES ASSUME Init PROVE Exact  OBVIOUS
<1>1. /\ \A c \in Cores : \A u \in Users :
           /\ carried[c][u] = 0 /\ ctr[c][u] = 0 /\ val[c][u] = 0 /\ billed[c][u] = 0
           /\ lost[c][u] = 0 /\ snap[c][u] = Unseen
      /\ \A u \in Users : last[u] = Unseen
      /\ \A h \in Handlers : dump[h] = Unseen
      /\ \A c \in Cores : got[c] = "none"
  BY DEF Init, Zeros, NoDump, NoAnswer
<1>2. XrayExact /\ HysteriaExact
  BY <1>1, RosterUsers, CoresAre DEF XrayExact, HysteriaExact
<1>3. AwgExact /\ OneDump
  BY <1>1, RosterUsers, CoresAre DEF AwgExact, OneDump
<1>. QED  BY <1>2, <1>3, FreshInit DEF Exact

LEMMA ExactGives ==
  ASSUME Typed, Exact
  PROVE  EveryByteAccounted
  BY RosterUsers, CoresAre
     DEF Typed, Bytes, Exact, XrayExact, HysteriaExact, AwgExact, EveryByteAccounted

\* Every byte is billed, still to be read, or lost for a cause the code accepts
\* (pollNodeStats, handleStats), on every node whose xray holds some user: a
\* tagged row then tells the panel which counters are cumulative.
THEOREM NoByteUnaccounted ==
  ASSUME Races = FALSE, Roster["xray"] # {}
  PROVE  Spec => []EveryByteAccounted
<1>1. Init => Typed /\ Bound /\ Exact
  BY TypedInit, BoundInit, ExactInit
<1>2. Typed /\ Bound /\ Exact /\ [Next]_vars => Typed' /\ Bound' /\ Exact'
  BY TypedStep, OnlyRosterStep, XrayStep, HysteriaStep, AwgStep, OneDumpStep,
     FreshStep, XrayExactStep, HysteriaExactStep, AwgExactStep DEF Bound, Exact
<1>3. Typed /\ Bound /\ Exact => EveryByteAccounted
  BY ExactGives
<1>. QED  BY <1>1, <1>2, <1>3, PTL DEF Spec


-----------------------------------------------------------------------------
\* Sums over users.  Sum folds them in the order of a CHOOSE; that there is
\* such a fold, and what it gives, follows from the least size of a set of
\* users for which it would not hold.

Pick(s) == CHOOSE x \in s : TRUE

\* g adds up f, on each set of D.
Adds(f, g, D) == g = [s \in D |-> IF s = {} THEN 0 ELSE f[Pick(s)] + g[s \ {Pick(s)}]]

\* The sum of f over each set of users.
Over(f) == CHOOSE g : Adds(f, g, SUBSET Users)

LEMMA SumIsOver ==
  ASSUME NEW f
  PROVE  Sum(f) = Over(f)[Users]
  BY DEF Sum, MapThenSumSet, MapThenFoldSet, Over, Adds, Pick

LEMMA LeastNumber ==
  ASSUME NEW T, T \subseteq Nat, T # {}
  PROVE  \E n \in T : \A m \in T : n <= m
<1>1. PICK n \in T : \A m \in T : ~(<<m, n>> \in OpToRel(<, Nat))
  BY NatLessThanWellFounded, WFMin
<1>2. ASSUME NEW m \in T PROVE n <= m
  <2>1. <<m, n>> \in OpToRel(<, Nat) <=> m < n
    BY DEF OpToRel
  <2>2. m \in Nat /\ n \in Nat
    OBVIOUS
  <2>3. ~(m < n)
    BY <1>1, <2>1
  <2>. QED  BY <2>2, <2>3
<1>. QED  BY <1>2

LEMMA WithoutPick ==
  ASSUME NEW s \in SUBSET Users
  PROVE  /\ Cardinality(s) \in Nat
         /\ Cardinality(s) = 0 <=> s = {}
         /\ s # {} => /\ Pick(s) \in s
                      /\ s \ {Pick(s)} \in SUBSET Users
                      /\ Cardinality(s \ {Pick(s)}) = Cardinality(s) - 1
<1>1. IsFiniteSet(s)
  BY UsersAssumption, FS_Subset
<1>2. s # {} => Pick(s) \in s
  BY DEF Pick
<1>. QED  BY <1>1, <1>2, FS_CardinalityType, FS_EmptySet, FS_RemoveElement

\* What holds of no user, and of a set once it does without the next to add,
\* holds of every set of users.
LEMMA UsersInduction ==
  ASSUME NEW B, {} \in B,
         \A s \in SUBSET Users : s # {} /\ s \ {Pick(s)} \in B => s \in B
  PROVE  \A s \in SUBSET Users : s \in B
<1>. SUFFICES ASSUME NEW z \in SUBSET Users, z \notin B PROVE FALSE
  OBVIOUS
<1>. DEFINE T == {Cardinality(s) : s \in (SUBSET Users) \ B}
<1>1. T \subseteq Nat /\ T # {}
  <2>1. Cardinality(z) \in T
    OBVIOUS
  <2>2. \A s \in SUBSET Users : Cardinality(s) \in Nat
    BY WithoutPick
  <2>. QED  BY <2>1, <2>2
<1>2. PICK n \in T : \A m \in T : n <= m
  BY <1>1, LeastNumber
<1>3. PICK s \in (SUBSET Users) \ B : n = Cardinality(s)
  OBVIOUS
<1>4. s # {}
  BY <1>3
<1>5. /\ s \ {Pick(s)} \in SUBSET Users /\ Cardinality(s \ {Pick(s)}) = n - 1 /\ n \in Nat
  BY <1>3, <1>4, WithoutPick
<1>6. s \ {Pick(s)} \in B
  <2>1. n - 1 \notin T
    BY <1>2, <1>5
  <2>. QED  BY <1>5, <2>1
<1>. QED  BY <1>3, <1>4, <1>6

UpTo(n) == {s \in SUBSET Users : Cardinality(s) <= n}

LEMMA AddsUpTo ==
  ASSUME NEW f, NEW n \in Nat
  PROVE  \E g : Adds(f, g, UpTo(n))
<1>. DEFINE T == {m \in Nat : ~ \E g : Adds(f, g, UpTo(m))}
<1>. SUFFICES ASSUME T # {} PROVE FALSE
  OBVIOUS
<1>1. PICK m \in T : \A k \in T : m <= k
  BY LeastNumber
<1>2. CASE m = 0
  <2>. DEFINE g == [s \in UpTo(0) |-> 0]
  <2>1. ASSUME NEW s \in UpTo(0) PROVE s = {}
    <3>1. s \in SUBSET Users /\ Cardinality(s) <= 0
      BY DEF UpTo
    <3>2. Cardinality(s) \in Nat /\ (Cardinality(s) = 0 <=> s = {})
      BY <3>1, WithoutPick
    <3>. QED  BY <3>1, <3>2
  <2>2. Adds(f, g, UpTo(0))
    BY <2>1 DEF Adds
  <2>. QED  BY <1>2, <2>2
<1>3. CASE m # 0
  <2>1. m - 1 \in Nat /\ m - 1 \notin T
    BY <1>1, <1>3
  <2>2. PICK g : Adds(f, g, UpTo(m - 1))
    BY <2>1
  <2>. DEFINE h == [s \in UpTo(m) |-> IF s = {} THEN 0 ELSE f[Pick(s)] + g[s \ {Pick(s)}]]
  <2>3. ASSUME NEW r \in UpTo(m - 1)
        PROVE  r \in UpTo(m) /\ h[r] = g[r]
    <3>1. r \in UpTo(m)
      <4>1. r \in SUBSET Users /\ Cardinality(r) <= m - 1
        BY DEF UpTo
      <4>2. Cardinality(r) \in Nat
        BY <4>1, WithoutPick
      <4>. QED  BY <2>1, <4>1, <4>2 DEF UpTo
    <3>2. g[r] = IF r = {} THEN 0 ELSE f[Pick(r)] + g[r \ {Pick(r)}]
      BY <2>2 DEF Adds
    <3>. QED  BY <3>1, <3>2
  <2>4. ASSUME NEW s \in UpTo(m), s # {}
        PROVE  h[s \ {Pick(s)}] = g[s \ {Pick(s)}]
    <3>1. s \ {Pick(s)} \in UpTo(m - 1)
      BY <2>4, <2>1, WithoutPick DEF UpTo
    <3>. QED  BY <2>3, <3>1
  <2>5. h = [s \in UpTo(m) |-> IF s = {} THEN 0 ELSE f[Pick(s)] + h[s \ {Pick(s)}]]
    <3>. DEFINE k == [s \in UpTo(m) |-> IF s = {} THEN 0 ELSE f[Pick(s)] + h[s \ {Pick(s)}]]
    <3>1. \A s \in UpTo(m) : h[s] = k[s]
      BY <2>4
    <3>. QED  BY <3>1
  <2>6. Adds(f, h, UpTo(m))
    BY <2>5 DEF Adds
  <2>. QED  BY <2>6
<1>. QED  BY <1>2, <1>3

\* The sum over no user is 0, and over more is that of one and the rest.
LEMMA OverStep ==
  ASSUME NEW f
  PROVE  /\ Over(f)[{}] = 0
         /\ \A s \in SUBSET Users : s # {} =>
              Over(f)[s] = f[Pick(s)] + Over(f)[s \ {Pick(s)}]
<1>1. Cardinality(Users) \in Nat
  BY UsersAssumption, FS_CardinalityType
<1>2. UpTo(Cardinality(Users)) = SUBSET Users
  BY <1>1, UsersAssumption, FS_Subset DEF UpTo
<1>3. \E g : Adds(f, g, SUBSET Users)
  <2>1. \E g : Adds(f, g, UpTo(Cardinality(Users)))
    BY <1>1, AddsUpTo
  <2>. QED  BY <1>2, <2>1
<1>4. Adds(f, Over(f), SUBSET Users)
  BY <1>3 DEF Over
<1>. HIDE DEF Over
<1>. QED  BY <1>4 DEF Adds

LEMMA SumTyped ==
  ASSUME NEW f \in [Users -> Nat]
  PROVE  Sum(f) \in Nat
<1>. DEFINE B == {s \in SUBSET Users : Over(f)[s] \in Nat}
<1>1. {} \in B
  BY OverStep
<1>2. ASSUME NEW s \in SUBSET Users, s # {}, s \ {Pick(s)} \in B PROVE s \in B
  BY <1>2, OverStep, WithoutPick
<1>. HIDE DEF B
<1>3. Users \in B
  BY <1>1, <1>2, UsersInduction
<1>. QED  BY <1>3, SumIsOver DEF B

LEMMA SumMonotone ==
  ASSUME NEW f \in [Users -> Nat], NEW h \in [Users -> Nat], \A u \in Users : f[u] <= h[u]
  PROVE  Sum(f) <= Sum(h)
<1>. DEFINE B == {s \in SUBSET Users :
                    Over(f)[s] \in Nat /\ Over(h)[s] \in Nat /\ Over(f)[s] <= Over(h)[s]}
<1>1. {} \in B
  BY OverStep
<1>2. ASSUME NEW s \in SUBSET Users, s # {}, s \ {Pick(s)} \in B PROVE s \in B
  <2>1. Pick(s) \in Users
    BY <1>2, WithoutPick
  <2>2. /\ Over(f)[s] = f[Pick(s)] + Over(f)[s \ {Pick(s)}]
        /\ Over(h)[s] = h[Pick(s)] + Over(h)[s \ {Pick(s)}]
    BY <1>2, OverStep
  <2>. QED  BY <1>2, <2>1, <2>2
<1>. HIDE DEF B
<1>3. Users \in B
  BY <1>1, <1>2, UsersInduction
<1>. QED  BY <1>3, SumIsOver DEF B

LEMMA SumAdds ==
  ASSUME NEW f \in [Users -> Nat], NEW h \in [Users -> Nat], NEW k \in [Users -> Nat],
         \A u \in Users : k[u] = f[u] + h[u]
  PROVE  Sum(k) = Sum(f) + Sum(h)
<1>. DEFINE B == {s \in SUBSET Users :
                    /\ Over(f)[s] \in Nat /\ Over(h)[s] \in Nat
                    /\ Over(k)[s] = Over(f)[s] + Over(h)[s]}
<1>1. {} \in B
  BY OverStep
<1>2. ASSUME NEW s \in SUBSET Users, s # {}, s \ {Pick(s)} \in B PROVE s \in B
  <2>1. Pick(s) \in Users
    BY <1>2, WithoutPick
  <2>2. /\ Over(f)[s] = f[Pick(s)] + Over(f)[s \ {Pick(s)}]
        /\ Over(h)[s] = h[Pick(s)] + Over(h)[s \ {Pick(s)}]
        /\ Over(k)[s] = k[Pick(s)] + Over(k)[s \ {Pick(s)}]
    BY <1>2, OverStep
  <2>. QED  BY <1>2, <2>1, <2>2
<1>. HIDE DEF B
<1>3. Users \in B
  BY <1>1, <1>2, UsersInduction
<1>. QED  BY <1>3, SumIsOver DEF B

LEMMA SumZero ==
  ASSUME NEW f, \A u \in Users : f[u] = 0
  PROVE  Sum(f) = 0
<1>. DEFINE B == {s \in SUBSET Users : Over(f)[s] = 0}
<1>1. {} \in B
  BY OverStep
<1>2. ASSUME NEW s \in SUBSET Users, s # {}, s \ {Pick(s)} \in B PROVE s \in B
  <2>1. Pick(s) \in Users
    BY <1>2, WithoutPick
  <2>2. Over(f)[s] = f[Pick(s)] + Over(f)[s \ {Pick(s)}]
    BY <1>2, OverStep
  <2>. QED  BY <1>2, <2>1, <2>2
<1>. HIDE DEF B
<1>3. Users \in B
  BY <1>1, <1>2, UsersInduction
<1>. QED  BY <1>3, SumIsOver DEF B

\* One byte of one user is one byte of the sum.
LEMMA SumOne ==
  ASSUME NEW w \in Users
  PROVE  Sum([u \in Users |-> IF u = w THEN 1 ELSE 0]) = 1
<1>. DEFINE f == [u \in Users |-> IF u = w THEN 1 ELSE 0]
            B == {s \in SUBSET Users : Over(f)[s] = IF w \in s THEN 1 ELSE 0}
<1>1. {} \in B
  BY OverStep
<1>2. ASSUME NEW s \in SUBSET Users, s # {}, s \ {Pick(s)} \in B PROVE s \in B
  <2>1. Pick(s) \in s /\ Over(f)[s] = f[Pick(s)] + Over(f)[s \ {Pick(s)}]
    BY <1>2, WithoutPick, OverStep
  <2>2. CASE Pick(s) = w
    <3>1. f[Pick(s)] = 1 /\ Over(f)[s \ {Pick(s)}] = 0
      BY <1>2, <2>2
    <3>. QED  BY <2>1, <2>2, <3>1
  <2>3. CASE Pick(s) # w
    <3>1. f[Pick(s)] = 0 /\ Over(f)[s \ {Pick(s)}] = IF w \in s THEN 1 ELSE 0
      BY <1>2, <2>1, <2>3
    <3>. QED  BY <2>1, <3>1
  <2>. QED  BY <2>2, <2>3
<1>. HIDE DEF B
<1>3. Users \in B
  BY <1>1, <1>2, UsersInduction
<1>. QED  BY <1>3, SumIsOver DEF B

LEMMA SumUp ==
  ASSUME NEW f \in [Users -> Nat], NEW h \in [Users -> Nat], NEW w \in Users,
         \A u \in Users : h[u] <= f[u] + IF u = w THEN 1 ELSE 0
  PROVE  Sum(h) <= Sum(f) + 1
<1>. DEFINE one == [u \in Users |-> IF u = w THEN 1 ELSE 0]
            more == [u \in Users |-> f[u] + one[u]]
<1>1. one \in [Users -> Nat] /\ more \in [Users -> Nat]
      /\ (\A u \in Users : more[u] = f[u] + one[u]) /\ \A u \in Users : h[u] <= more[u]
  OBVIOUS
<1>2. Sum(one) = 1
  BY SumOne
<1>. HIDE DEF one, more
<1>. QED  BY <1>1, <1>2, SumAdds, SumMonotone

LEMMA SumUpExact ==
  ASSUME NEW f \in [Users -> Nat], NEW h \in [Users -> Nat], NEW w \in Users,
         \A u \in Users : h[u] = f[u] + IF u = w THEN 1 ELSE 0
  PROVE  Sum(h) = Sum(f) + 1
<1>. DEFINE one == [u \in Users |-> IF u = w THEN 1 ELSE 0]
<1>1. one \in [Users -> Nat] /\ \A u \in Users : h[u] = f[u] + one[u]
  OBVIOUS
<1>2. Sum(one) = 1
  BY SumOne
<1>. HIDE DEF one
<1>. QED  BY <1>1, <1>2, SumAdds

-----------------------------------------------------------------------------
\* The node's totals.

\* The types of what the accounting of users does not look at.
Numbers ==
  /\ relayed \in Nat /\ moved \in 0 .. MaxBytes /\ relay \in Nat
  /\ poll \in {"idle", "asked", "answered"}
  /\ total \in [Cores -> Nat] /\ tot \in Nat \cup {Unseen} /\ hist \in Nat
  /\ faults \in 0 .. MaxFaults

\* An adapter's total goes into the live answer only.
LEMMA GivesTotal ==
  ASSUME Numbers, NEW h \in Handlers, NEW c \in Cores, NEW g, NEW v, NEW t \in Nat,
         Gives(h, c, g, v, t)
  PROVE  /\ total' \in [Cores -> Nat]
         /\ \A d \in Cores \ {c} : total'[d] = total[d]
         /\ h = "live" => total'[c] = t
         /\ h = "late" => total'[c] = total[c]
  BY DEF Numbers, Gives, answer

LEMMA PollEndsTotal ==
  ASSUME PollEnds
  PROVE  total' \in [Cores -> Nat] /\ poll' = "idle" /\ \A c \in Cores : total'[c] = 0
  BY DEF PollEnds, NoTotals

LEMMA FaultTyped == ASSUME Numbers, Fault \/ UNCHANGED faults PROVE faults' \in 0 .. MaxFaults
  BY BoundsAssumption DEF Numbers, Fault

LEMMA SumsTyped ==
  ASSUME Typed, NEW c \in Cores
  PROVE  /\ Sum(carried[c]) \in Nat /\ Sum(ctr[c]) \in Nat
         /\ Sum(OfRoster(c, ctr[c])) \in Nat
         /\ Sum(OfRoster(c, ctr[c])) <= Sum(ctr[c])
<1>1. carried[c] \in [Users -> Nat] /\ ctr[c] \in [Users -> Nat]
  BY DEF Typed, Bytes
<1>2. OfRoster(c, ctr[c]) \in [Users -> Nat] /\ \A u \in Users : OfRoster(c, ctr[c])[u] <= ctr[c][u]
  BY <1>1, OfRosterTyped
<1>. QED  BY <1>1, <1>2, SumTyped, SumMonotone

\* xray's total is that of its users, with the link-in or without.
LEMMA AskXrayTotal ==
  ASSUME Typed, Numbers, NEW h \in Handlers, NEW r \in {"ok"} \cup Trouble, AskXray(h, r)
  PROVE  \E t \in Nat :
           /\ \/ Gives(h, "xray", "rows", Nothing, t) \/ Gives(h, "xray", "noData", Nothing, t)
              \/ /\ Gives(h, "xray", "tagged", OfRoster("xray", ctr["xray"]), t)
                 /\ r = "noTotals" \/ t = Sum(OfRoster("xray", ctr["xray"])) + relay
           /\ Fault \/ UNCHANGED faults
<1>. DEFINE users == OfRoster("xray", ctr["xray"])
<1>1. Sum(users) \in Nat /\ Sum(users) + relay \in Nat /\ 0 \in Nat
  BY SumsTyped, CoresAre DEF Numbers
<1>2. \/ (Gives(h, "xray", "rows", Nothing, 0) \/ Gives(h, "xray", "noData", Nothing, 0))
         /\ (Fault \/ UNCHANGED faults)
      \/ Gives(h, "xray", "tagged", users, Sum(users) + relay) /\ UNCHANGED faults
      \/ r = "noTotals" /\ Gives(h, "xray", "tagged", users, Sum(users)) /\ Fault
  BY Zenon DEF AskXray
<1>. QED  BY <1>1, <1>2

LEMMA AskHysteriaTotal ==
  ASSUME Typed, Numbers, NEW h \in Handlers, NEW r \in {"ok"} \cup Trouble, AskHysteria(h, r)
  PROVE  /\ \/ (\E g : Gives(h, "hysteria", g, Nothing, 0)) /\ UNCHANGED ctr
            \/ (\E g : Gives(h, "hysteria", g, Nothing, 0)) /\ ctr' = [ctr EXCEPT !["hysteria"] = Nothing]
            \/ /\ \E g, v : Gives(h, "hysteria", g, v, Sum(OfRoster("hysteria", ctr["hysteria"])))
               /\ ctr' = [ctr EXCEPT !["hysteria"] = Nothing]
         /\ UNCHANGED <<carried, relayed, moved, relay, running>>
         /\ Fault \/ UNCHANGED faults
  BY Zenon DEF AskHysteria, Drained, network

LEMMA AccountDumpTotal ==
  ASSUME Typed, NEW h \in Handlers, AccountDump(h)
  PROVE  \E v \in [Users -> Nat] :
           /\ \A u \in Users : v[u] <= Gained(dump[h][u], last[u])
           /\ \E g : Gives(h, "amneziawg", g, v, Sum(v))
<1>. DEFINE gain == [u \in Users |-> Gained(dump[h][u], last[u])]
<1>1. dump[h] \in [Users -> Nat] /\ "amneziawg" \in Cores
  BY DEF Typed, AccountDump, Cores
<1>2. gain \in [Users -> Nat]
  BY <1>1, GainedFacts DEF Typed
<1>3. /\ OfRoster("amneziawg", gain) \in [Users -> Nat]
      /\ \A u \in Users : OfRoster("amneziawg", gain)[u] <= gain[u]
  BY <1>1, <1>2, OfRosterTyped
<1>4. Gives(h, "amneziawg", "rows", OfRoster("amneziawg", gain), Sum(OfRoster("amneziawg", gain)))
  BY DEF AccountDump
<1>5. \A u \in Users : gain[u] = Gained(dump[h][u], last[u])
  OBVIOUS
<1>. HIDE DEF gain
<1>. QED  BY <1>3, <1>4, <1>5

LEMMA NodeTotalTyped == ASSUME Numbers PROVE NodeTotal \in Nat
<1>1. Grown(total["xray"], tot) \in Nat
  BY GrownFacts, CoresAre DEF Numbers
<1>. QED  BY <1>1, CoresAre DEF NodeTotal, Numbers

LEMMA NumbersInit == Init => Numbers
  BY BoundsAssumption DEF Init, Numbers, NoTotals

LEMMA NumbersStep ==
  ASSUME Typed, Numbers, [Next]_vars
  PROVE  Numbers'
<1>. USE CoresAre
<1>1. ASSUME NEW c \in Cores, NEW u \in Users, Move(c, u) PROVE Numbers'
  BY <1>1, BoundsAssumption DEF Numbers, Move, answer, panel
<1>2. CASE Relay
  BY <1>2, BoundsAssumption DEF Numbers, Relay, answer, panel
<1>3. ASSUME NEW c \in Cores, Stop(c) PROVE Numbers'
  BY <1>3, FaultTyped DEF Numbers, Stop, answer, panel
<1>4. ASSUME NEW c \in Cores, Start(c) PROVE Numbers'
  BY <1>4 DEF Numbers, Start, answer, panel
<1>5. ASSUME NEW h \in Handlers, ReadDump(h) PROVE Numbers'
  BY <1>5 DEF Numbers, ReadDump, network, answer, panel
<1>6. ASSUME NEW h \in Handlers, NEW r \in {"ok"} \cup Trouble, AskXray(h, r) PROVE Numbers'
  <2>1. total' \in [Cores -> Nat] /\ faults' \in 0 .. MaxFaults
    BY <1>6, AskXrayTotal, GivesTotal, FaultTyped
  <2>2. UNCHANGED <<network, poll, panel>>
    BY <1>6 DEF AskXray
  <2>. QED  BY <2>1, <2>2 DEF Numbers, network, panel
<1>7. ASSUME NEW h \in Handlers, NEW r \in {"ok"} \cup Trouble, AskHysteria(h, r) PROVE Numbers'
  <2>1. total' \in [Cores -> Nat] /\ faults' \in 0 .. MaxFaults
    BY <1>7, AskHysteriaTotal, SumsTyped, GivesTotal, FaultTyped
  <2>2. UNCHANGED <<relayed, moved, relay, poll, panel>>
    BY <1>7, AskHysteriaTotal DEF AskHysteria
  <2>. QED  BY <2>1, <2>2 DEF Numbers, panel
<1>8. ASSUME NEW h \in Handlers, AccountDump(h) PROVE Numbers'
  <2>1. total' \in [Cores -> Nat]
    BY <1>8, AccountDumpTotal, SumTyped, GivesTotal
  <2>2. UNCHANGED <<network, poll, panel, faults>>
    BY <1>8 DEF AccountDump
  <2>. QED  BY <2>1, <2>2 DEF Numbers, network, panel
<1>9. ASSUME NEW h \in Handlers, DumpFails(h) PROVE Numbers'
  <2>1. total' \in [Cores -> Nat]
    BY <1>9, GivesTotal DEF DumpFails
  <2>2. UNCHANGED <<network, poll, panel>> /\ (Fault \/ UNCHANGED faults)
    BY <1>9 DEF DumpFails
  <2>. QED  BY <2>1, <2>2, FaultTyped DEF Numbers, network, panel
<1>10. CASE AgentRestarts
  BY <1>10, PollEndsTotal, FaultTyped DEF Numbers, AgentRestarts, panel
<1>11. CASE Poll \/ Answer
  BY <1>11 DEF Numbers, Poll, Answer, network, answer, panel
<1>12. CASE Commit
  <2>1. hist' \in Nat
    BY <1>12, NodeTotalTyped DEF Commit, Numbers
  <2>2. tot' \in Nat \cup {Unseen}
    BY <1>12 DEF Commit, SavesTotal, Numbers
  <2>. QED  BY <1>12, <2>1, <2>2, PollEndsTotal DEF Numbers, Commit, network
<1>13. CASE CommitFails \/ GivesUp \/ PanelRestarts
  <2>1. PollEnds /\ UNCHANGED network /\ Fault /\ UNCHANGED hist /\ (UNCHANGED tot \/ tot' = Unseen)
    BY <1>13 DEF CommitFails, GivesUp, PanelRestarts, LeavesBehind, panel
  <2>. QED  BY <2>1, PollEndsTotal, FaultTyped DEF Numbers, network
<1>14. CASE UNCHANGED vars
  BY <1>14 DEF Numbers, vars, network, answer, panel
<1>. QED
  BY <1>1, <1>2, <1>3, <1>4, <1>5, <1>6, <1>7, <1>8, <1>9, <1>10, <1>11, <1>12, <1>13, <1>14
  DEF Next

LEMMA NumbersInvariant == Spec => [](Typed /\ Numbers)
  BY TypedInit, TypedStep, NumbersInit, NumbersStep, PTL DEF Spec

\* Types, for any users, rosters, troubles and bounds, with two answers of
\* amneziawg at once or without.
THEOREM TrafficTypeCorrect == Spec => []TypeOK
<1>1. Typed /\ Numbers => TypeOK
  BY DEF Typed, Numbers, TypeOK
<1>. QED  BY <1>1, NumbersInvariant, PTL

-----------------------------------------------------------------------------
\* The node's history counts no byte twice.

\* What xray's counters come to now, with the link-in.
XrayCount == Sum(OfRoster("xray", ctr["xray"])) + relay

\* What the commits of the answer in hand and of the next one would add to the
\* history: of xray, whose total the panel compares with the last one; of
\* hysteria, whose counters are in the core or in the answer; of amneziawg, of
\* which a handler may hold a dump.
XrayAhead ==
  IF got["xray"] = "tagged"
    THEN Grown(total["xray"], tot) + Grown(XrayCount, total["xray"])
    ELSE Grown(XrayCount, tot)
HysteriaAhead == total["hysteria"] + Sum(ctr["hysteria"])
Dumped == IF dump["live"] # Unseen THEN dump["live"] ELSE dump["late"]
Gains(now, d, before) ==
  [u \in Users |->
     IF d = Unseen THEN Gained(now[u], before[u])
     ELSE Gained(d[u], before[u]) + Gained(now[u], d[u])]
AwgAhead == total["amneziawg"] + Sum(Gains(ctr["amneziawg"], Dumped, last))

\* The history, with what is ahead of it, is no more than what was moved.
NodeBound ==
  hist + XrayAhead + HysteriaAhead + AwgAhead
  <= relayed + Sum(carried["xray"]) + Sum(carried["hysteria"]) + Sum(carried["amneziawg"])

\* A step brings an adapter's part no further ahead than it moves bytes.
XrayKeeps == XrayAhead' + relayed + Sum(carried["xray"])
             <= XrayAhead + relayed' + Sum(carried'["xray"])
HysteriaKeeps == HysteriaAhead' + Sum(carried["hysteria"])
                 <= HysteriaAhead + Sum(carried'["hysteria"])
AwgKeeps == AwgAhead' + Sum(carried["amneziawg"]) <= AwgAhead + Sum(carried'["amneziawg"])

\* Two differences cover the one past them.
LEMMA GrownTriangle ==
  ASSUME NEW a \in Nat, NEW t \in Nat, NEW b \in Nat \cup {Unseen}
  PROVE  Grown(a, b) <= Grown(t, b) + Grown(a, t)
  BY UnseenAssumption DEF Grown

LEMMA XrayAheadTyped ==
  ASSUME Typed, Numbers
  PROVE  /\ XrayCount \in Nat /\ XrayAhead \in Nat
         /\ Grown(XrayCount, tot) \in Nat /\ Grown(XrayCount, tot) <= XrayAhead
<1>. USE CoresAre
<1>1. XrayCount \in Nat
  BY SumsTyped DEF XrayCount, Numbers
<1>2. total["xray"] \in Nat /\ tot \in Nat \cup {Unseen}
  BY DEF Numbers
<1>3. /\ Grown(XrayCount, tot) \in Nat /\ Grown(total["xray"], tot) \in Nat
      /\ Grown(XrayCount, total["xray"]) \in Nat
  BY <1>1, <1>2, GrownFacts
<1>4. Grown(XrayCount, tot) <= Grown(total["xray"], tot) + Grown(XrayCount, total["xray"])
  BY <1>1, <1>2, GrownTriangle
<1>. QED  BY <1>1, <1>3, <1>4 DEF XrayAhead

LEMMA GainsTyped ==
  ASSUME NEW now \in [Users -> Nat], NEW d \in [Users -> Nat] \cup {Unseen},
         NEW before \in [Users -> Nat \cup {Unseen}]
  PROVE  /\ Gains(now, d, before) \in [Users -> Nat]
         /\ Sum(Gains(now, d, before)) \in Nat
<1>1. ASSUME NEW u \in Users
      PROVE  Gains(now, d, before)[u] \in Nat
  <2>1. now[u] \in Nat /\ before[u] \in Nat \cup {Unseen} /\ (d # Unseen => d[u] \in Nat)
    OBVIOUS
  <2>2. /\ Gained(now[u], before[u]) \in Nat
        /\ d # Unseen => Gained(d[u], before[u]) \in Nat /\ Gained(now[u], d[u]) \in Nat
    BY <2>1, GainedFacts
  <2>. QED  BY <2>2 DEF Gains
<1>2. Gains(now, d, before) \in [Users -> Nat]
  BY <1>1 DEF Gains
<1>. QED  BY <1>2, SumTyped

LEMMA DumpedTyped ==
  ASSUME Typed
  PROVE  /\ ctr["amneziawg"] \in [Users -> Nat] /\ last \in [Users -> Nat \cup {Unseen}]
         /\ Dumped \in [Users -> Nat] \cup {Unseen}
  BY CoresAre DEF Typed, Bytes, Dumped, Handlers

LEMMA AheadTyped ==
  ASSUME Typed, Numbers
  PROVE  HysteriaAhead \in Nat /\ AwgAhead \in Nat
<1>. USE CoresAre
<1>1. HysteriaAhead \in Nat
  BY SumsTyped DEF HysteriaAhead, Numbers
<1>2. Sum(Gains(ctr["amneziawg"], Dumped, last)) \in Nat
  BY DumpedTyped, GainsTyped
<1>. QED  BY <1>1, <1>2 DEF AwgAhead, Numbers

\* The sum of an adapter's counters follows the byte moved.
LEMMA MoveSums ==
  ASSUME Typed, NEW c \in Cores, NEW u \in Users, Move(c, u)
  PROVE  /\ Sum(carried'[c]) = Sum(carried[c]) + 1
         /\ Sum(ctr'[c]) = Sum(ctr[c]) + 1
         /\ Sum(OfRoster(c, ctr'[c])) = Sum(OfRoster(c, ctr[c])) + 1
<1>1. /\ carried[c] \in [Users -> Nat] /\ ctr[c] \in [Users -> Nat]
      /\ carried'[c] \in [Users -> Nat] /\ ctr'[c] \in [Users -> Nat]
  <2>1. Typed'
    BY TypedStep DEF Next
  <2>. QED  BY <2>1 DEF Typed, Bytes
<1>2. u \in Roster[c]
  <2>1. <<c, u>> \in Held
    BY DEF Move
  <2>. QED  BY <2>1 DEF Held
<1>3. \A w \in Users : /\ carried'[c][w] = carried[c][w] + IF w = u THEN 1 ELSE 0
                       /\ ctr'[c][w] = ctr[c][w] + IF w = u THEN 1 ELSE 0
  <2>1. /\ \A w \in Users \ {u} : carried'[c][w] = carried[c][w] /\ ctr'[c][w] = ctr[c][w]
        /\ carried'[c][u] = carried[c][u] + 1 /\ ctr'[c][u] = ctr[c][u] + 1
    BY MoveAt
  <2>2. \A w \in Users : carried[c][w] \in Nat /\ ctr[c][w] \in Nat
    BY <1>1
  <2>. QED  BY <2>1, <2>2
<1>4. \A w \in Users : OfRoster(c, ctr'[c])[w] = OfRoster(c, ctr[c])[w] + IF w = u THEN 1 ELSE 0
  BY <1>1, <1>2, <1>3 DEF OfRoster
<1>5. OfRoster(c, ctr[c]) \in [Users -> Nat] /\ OfRoster(c, ctr'[c]) \in [Users -> Nat]
  BY <1>1, OfRosterTyped
<1>. QED  BY <1>1, <1>3, <1>4, <1>5, SumUpExact

LEMMA NoneSum ==
  ASSUME NEW v, \A u \in Users : v[u] = 0
  PROVE  Sum(v) = 0 /\ \A c \in Cores : Sum(OfRoster(c, v)) = 0
<1>1. \A c \in Cores, u \in Users : OfRoster(c, v)[u] = 0
  BY DEF OfRoster
<1>. QED  BY <1>1, SumZero

\* The steps that write neither the history nor an answer's totals.
LEMMA TotalsSame ==
  ASSUME \/ \E c \in Cores, u \in Users : Move(c, u)
         \/ Relay
         \/ \E c \in Cores : Stop(c) \/ Start(c)
         \/ \E h \in Handlers : ReadDump(h)
         \/ Poll \/ Answer \/ UNCHANGED vars
  PROVE  UNCHANGED <<got, total, tot, hist>>
  BY DEF Move, Relay, Stop, Start, ReadDump, Poll, Answer, vars, answer, panel

\* A poll ends without a commit.
LEMMA DropTotals ==
  ASSUME CommitFails \/ GivesUp \/ PanelRestarts \/ AgentRestarts
  PROVE  /\ UNCHANGED <<carried, relayed, hist>>
         /\ \A c \in Cores : got'[c] = "none" /\ total'[c] = 0
         /\ tot' = tot \/ tot' = Unseen
  BY PollEndsAt, PollEndsTotal
     DEF CommitFails, GivesUp, PanelRestarts, AgentRestarts, LeavesBehind, network, panel

LEMMA XrayUnmoved ==
  ASSUME Typed, Numbers, UNCHANGED <<carried["xray"], relayed, ctr["xray"], relay, got["xray"],
                                     total["xray"], tot>>
  PROVE  XrayKeeps
<1>1. XrayAhead' = XrayAhead
  BY DEF XrayAhead, XrayCount
<1>2. XrayAhead \in Nat /\ relayed \in Nat /\ Sum(carried["xray"]) \in Nat
  BY XrayAheadTyped, SumsTyped, CoresAre DEF Numbers
<1>. QED  BY <1>1, <1>2 DEF XrayKeeps

LEMMA XrayKept ==
  ASSUME Typed, Numbers, "noTotals" \notin Trouble, Next, ~Commit
  PROVE  XrayKeeps
<1>. USE CoresAre
<1>0. /\ XrayCount \in Nat /\ XrayAhead \in Nat /\ relayed \in Nat /\ Sum(carried["xray"]) \in Nat
      /\ total["xray"] \in Nat /\ tot \in Nat \cup {Unseen}
      /\ Grown(XrayCount, tot) \in Nat /\ Grown(XrayCount, tot) <= XrayAhead
  BY XrayAheadTyped, SumsTyped DEF Numbers
\* One byte more in the counter.
<1>1. ASSUME UNCHANGED <<got, total, tot>>, XrayCount' = XrayCount + 1,
             relayed' + Sum(carried'["xray"]) = relayed + Sum(carried["xray"]) + 1,
             relayed' \in Nat, Sum(carried'["xray"]) \in Nat
      PROVE  XrayKeeps
  <2>1. /\ Grown(XrayCount + 1, tot) <= Grown(XrayCount, tot) + 1
        /\ Grown(XrayCount + 1, tot) \in Nat /\ Grown(XrayCount + 1, total["xray"]) \in Nat
        /\ Grown(XrayCount, total["xray"]) \in Nat /\ Grown(total["xray"], tot) \in Nat
        /\ Grown(XrayCount + 1, total["xray"]) <= Grown(XrayCount, total["xray"]) + 1
    <3>1. XrayCount + 1 \in Nat
      BY <1>0
    <3>2. Grown(XrayCount + 1, tot) \in Nat /\ Grown(XrayCount + 1, total["xray"]) \in Nat
      BY <1>0, <3>1, GrownFacts
    <3>. QED  BY <1>0, <3>2, GrownFacts
  <2>2. XrayAhead' <= XrayAhead + 1 /\ XrayAhead' \in Nat
    <3>1. XrayAhead' = IF got["xray"] = "tagged"
                         THEN Grown(total["xray"], tot) + Grown(XrayCount + 1, total["xray"])
                         ELSE Grown(XrayCount + 1, tot)
      BY <1>1 DEF XrayAhead
    <3>2. XrayAhead = IF got["xray"] = "tagged"
                        THEN Grown(total["xray"], tot) + Grown(XrayCount, total["xray"])
                        ELSE Grown(XrayCount, tot)
      BY DEF XrayAhead
    <3>. QED  BY <1>0, <2>1, <3>1, <3>2
  <2>. QED  BY <1>0, <1>1, <2>2 DEF XrayKeeps
\* No more ahead, and nothing moved.
<1>2. ASSUME UNCHANGED <<carried, relayed>>, XrayAhead' \in Nat, XrayAhead' <= XrayAhead
      PROVE  XrayKeeps
  BY <1>0, <1>2 DEF XrayKeeps
<1>3. ASSUME NEW c \in Cores, NEW u \in Users, Move(c, u) PROVE XrayKeeps
  <2>1. UNCHANGED <<relayed, relay, got, total, tot>>
    BY <1>3 DEF Move, answer, panel
  <2>2. CASE c = "xray"
    <3>1. XrayCount' = XrayCount + 1 /\ Sum(carried'["xray"]) = Sum(carried["xray"]) + 1
      <4>1. Sum(OfRoster("xray", ctr["xray"])) \in Nat /\ relay \in Nat
        BY SumsTyped DEF Numbers
      <4>. QED  BY <1>3, <2>1, <2>2, <4>1, MoveSums DEF XrayCount
    <3>. QED  BY <1>0, <1>1, <2>1, <3>1
  <2>3. CASE c # "xray"
    <3>1. Same("xray")
      BY <1>3, <2>3, MoveAt
    <3>2. UNCHANGED <<carried["xray"], ctr["xray"]>>
      BY <3>1 DEF Same
    <3>. QED  BY <2>1, <3>2, XrayUnmoved
  <2>. QED  BY <2>2, <2>3
<1>4. CASE Relay
  <2>1. /\ UNCHANGED <<carried, ctr, got, total, tot>>
        /\ relayed' = relayed + 1 /\ relay' = relay + 1
    BY <1>4 DEF Relay, answer, panel
  <2>2. XrayCount' = XrayCount + 1
    <3>1. Sum(OfRoster("xray", ctr["xray"])) \in Nat /\ relay \in Nat
      BY SumsTyped DEF Numbers
    <3>. QED  BY <2>1, <3>1 DEF XrayCount
  <2>. QED  BY <1>0, <1>1, <2>1, <2>2
<1>5. ASSUME NEW c \in Cores, Stop(c) PROVE XrayKeeps
  <2>1. UNCHANGED <<carried, relayed, got, total, tot>>
    BY <1>5 DEF Stop, answer, panel
  <2>2. CASE c = "xray"
    <3>1. relay' = 0 /\ \A u \in Users : ctr'["xray"][u] = 0
      BY <1>5, <2>2, StopAt DEF Stop
    <3>2. XrayCount' = 0
      BY <3>1, NoneSum DEF XrayCount
    <3>3. /\ Grown(0, tot) = 0 /\ Grown(0, total["xray"]) = 0
          /\ Grown(total["xray"], tot) \in Nat /\ Grown(XrayCount, total["xray"]) \in Nat
      BY <1>0, GrownFacts
    <3>4. XrayAhead' = IF got["xray"] = "tagged"
                         THEN Grown(total["xray"], tot) + Grown(0, total["xray"])
                         ELSE Grown(0, tot)
      BY <2>1, <3>2 DEF XrayAhead
    <3>5. XrayAhead' \in Nat /\ XrayAhead' <= XrayAhead
      BY <1>0, <3>3, <3>4 DEF XrayAhead
    <3>. QED  BY <1>2, <2>1, <3>5
  <2>3. CASE c # "xray"
    <3>1. UNCHANGED ctr["xray"]
      BY <1>5, <2>3, StopAt DEF Same
    <3>2. UNCHANGED relay
      BY <1>5, <2>3 DEF Stop
    <3>. QED  BY <2>1, <3>1, <3>2, XrayUnmoved
  <2>. QED  BY <2>2, <2>3
<1>6. CASE AgentRestarts
  <2>1. relay' = 0 /\ \A u \in Users : ctr'["xray"][u] = 0
    BY <1>6, RestartAt DEF AgentRestarts
  <2>2. XrayCount' = 0
    BY <2>1, NoneSum DEF XrayCount
  <2>3. UNCHANGED <<carried, relayed, tot>> /\ got'["xray"] = "none"
    BY <1>6, DropTotals DEF AgentRestarts, panel
  <2>4. XrayAhead' = 0
    BY <1>0, <2>2, <2>3, GrownFacts DEF XrayAhead
  <2>. QED  BY <1>0, <1>2, <2>3, <2>4
<1>7. CASE CommitFails \/ GivesUp \/ PanelRestarts
  <2>1. UNCHANGED <<carried, relayed, relay, ctr>> /\ got'["xray"] = "none"
        /\ (tot' = tot \/ tot' = Unseen)
    BY <1>7, DropTotals, DropAt DEF network
  <2>2. XrayCount' = XrayCount
    BY <2>1 DEF XrayCount
  <2>3. Grown(XrayCount, Unseen) = 0
    BY DEF Grown
  <2>4. XrayAhead' = Grown(XrayCount, tot) \/ XrayAhead' = 0
    BY <2>1, <2>2, <2>3 DEF XrayAhead
  <2>. QED  BY <1>0, <1>2, <2>1, <2>4
<1>8. ASSUME NEW h \in Handlers, NEW r \in {"ok"} \cup Trouble, AskXray(h, r) PROVE XrayKeeps
  <2>1. UNCHANGED <<carried, relayed, relay, ctr, tot>>
    BY <1>8 DEF AskXray, network, panel
  <2>2. XrayCount' = XrayCount
    BY <2>1 DEF XrayCount
  <2>3. PICK t \in Nat :
           \/ Gives(h, "xray", "rows", Nothing, t) \/ Gives(h, "xray", "noData", Nothing, t)
           \/ Gives(h, "xray", "tagged", OfRoster("xray", ctr["xray"]), t) /\ t = XrayCount
    BY <1>8, AskXrayTotal DEF XrayCount
  <2>4. CASE h = "live"
    <3>1. \/ got'["xray"] \in {"rows", "noData"}
          \/ got'["xray"] = "tagged" /\ total'["xray"] = XrayCount
      BY <2>3, <2>4, GivesAt, GivesTotal
    <3>2. Grown(XrayCount, XrayCount) = 0
      BY <1>0, GrownFacts
    <3>3. XrayAhead' = Grown(XrayCount, tot)
      BY <1>0, <2>1, <2>2, <3>1, <3>2 DEF XrayAhead
    <3>. QED  BY <1>0, <1>2, <2>1, <3>3
  <2>5. CASE h = "late"
    <3>1. got'["xray"] = got["xray"] /\ total'["xray"] = total["xray"]
      BY <2>3, <2>5, GivesAt, GivesTotal
    <3>. QED  BY <2>1, <3>1, XrayUnmoved
  <2>. QED  BY <2>4, <2>5 DEF Handlers
<1>9. ASSUME NEW h \in Handlers, NEW r \in {"ok"} \cup Trouble, AskHysteria(h, r) PROVE XrayKeeps
  <2>1. UNCHANGED <<carried, relayed, relay, tot>>
    BY <1>9, AskHysteriaTotal DEF AskHysteria, panel
  <2>2. UNCHANGED <<ctr["xray"], got["xray"]>>
    BY <1>9, AskHysteriaAt DEF Same
  <2>3. UNCHANGED total["xray"]
    BY <1>9, AskHysteriaTotal, SumsTyped, GivesTotal
  <2>. QED  BY <2>1, <2>2, <2>3, XrayUnmoved
<1>10. ASSUME NEW h \in Handlers, AccountDump(h) \/ DumpFails(h) PROVE XrayKeeps
  <2>1. UNCHANGED <<carried, relayed, relay, ctr, tot>>
    BY <1>10 DEF AccountDump, DumpFails, network, panel
  <2>2. UNCHANGED got["xray"]
    BY <1>10, AccountDumpAt, DumpFailsAt DEF Same
  <2>3. UNCHANGED total["xray"]
    <3>1. CASE AccountDump(h)
      BY <3>1, AccountDumpTotal, SumTyped, GivesTotal
    <3>2. CASE DumpFails(h)
      BY <3>2, GivesTotal DEF DumpFails
    <3>. QED  BY <1>10, <3>1, <3>2
  <2>. QED  BY <2>1, <2>2, <2>3, XrayUnmoved
<1>11. ASSUME Poll \/ Answer \/ (\E h \in Handlers : ReadDump(h)) \/ (\E c \in Cores : Start(c))
       PROVE  XrayKeeps
  <2>1. UNCHANGED <<got, total, tot>>
    BY <1>11, TotalsSame
  <2>2. UNCHANGED <<carried, relayed, relay, ctr>>
    BY <1>11 DEF Poll, Answer, ReadDump, Start, network
  <2>. QED  BY <2>1, <2>2, XrayUnmoved
<1>. QED
  BY <1>3, <1>4, <1>5, <1>6, <1>7, <1>8, <1>9, <1>10, <1>11 DEF Next

LEMMA HysteriaUnmoved ==
  ASSUME Typed, Numbers, UNCHANGED <<carried["hysteria"], ctr["hysteria"], total["hysteria"]>>
  PROVE  HysteriaKeeps
<1>1. HysteriaAhead' = HysteriaAhead
  BY DEF HysteriaAhead
<1>2. HysteriaAhead \in Nat /\ Sum(carried["hysteria"]) \in Nat
  BY AheadTyped, SumsTyped, CoresAre
<1>. QED  BY <1>1, <1>2 DEF HysteriaKeeps

LEMMA HysteriaKept ==
  ASSUME Typed, Numbers, Next, ~Commit
  PROVE  HysteriaKeeps
<1>. USE CoresAre
<1>. DEFINE H == "hysteria"
<1>0. /\ total[H] \in Nat /\ Sum(ctr[H]) \in Nat /\ Sum(carried[H]) \in Nat
      /\ Sum(OfRoster(H, ctr[H])) \in Nat /\ Sum(OfRoster(H, ctr[H])) <= Sum(ctr[H])
  BY SumsTyped DEF Numbers
\* No more in the core and the answer, and nothing moved.
<1>1. ASSUME UNCHANGED carried, total'[H] \in Nat, Sum(ctr'[H]) \in Nat,
             total'[H] + Sum(ctr'[H]) <= total[H] + Sum(ctr[H])
      PROVE  HysteriaKeeps
  BY <1>0, <1>1 DEF HysteriaKeeps, HysteriaAhead
<1>2. ASSUME NEW c \in Cores, NEW u \in Users, Move(c, u) PROVE HysteriaKeeps
  <2>1. UNCHANGED total
    BY <1>2 DEF Move, answer
  <2>2. CASE c = H
    <3>1. Sum(carried'[H]) = Sum(carried[H]) + 1 /\ Sum(ctr'[H]) = Sum(ctr[H]) + 1
      BY <1>2, <2>2, MoveSums
    <3>. QED  BY <1>0, <2>1, <3>1 DEF HysteriaKeeps, HysteriaAhead
  <2>3. CASE c # H
    <3>1. Same(H)
      BY <1>2, <2>3, MoveAt
    <3>2. UNCHANGED <<carried[H], ctr[H]>>
      BY <3>1 DEF Same
    <3>. QED  BY <2>1, <3>2, HysteriaUnmoved
  <2>. QED  BY <2>2, <2>3
<1>3. ASSUME NEW c \in Cores, Stop(c) PROVE HysteriaKeeps
  <2>1. UNCHANGED <<carried, total>>
    BY <1>3 DEF Stop, answer
  <2>2. CASE c = H
    <3>1. Sum(ctr'[H]) = 0
      BY <1>3, <2>2, StopAt, NoneSum
    <3>. QED  BY <1>0, <1>1, <2>1, <3>1
  <2>3. CASE c # H
    <3>1. Same(H)
      BY <1>3, <2>3, StopAt
    <3>2. UNCHANGED ctr[H]
      BY <3>1 DEF Same
    <3>. QED  BY <2>1, <3>2, HysteriaUnmoved
  <2>. QED  BY <2>2, <2>3
<1>4. CASE CommitFails \/ GivesUp \/ PanelRestarts \/ AgentRestarts
  <2>1. UNCHANGED carried /\ total'[H] = 0
    BY <1>4, DropTotals
  <2>2. ctr'[H] = ctr[H]
    BY <1>4, DropAt, RestartAt DEF network
  <2>. QED  BY <1>0, <1>1, <2>1, <2>2
<1>5. ASSUME NEW h \in Handlers, NEW r \in {"ok"} \cup Trouble, AskHysteria(h, r)
      PROVE  HysteriaKeeps
  <2>. DEFINE s == Sum(OfRoster(H, ctr[H]))
  <2>1. /\ \/ (\E g : Gives(h, H, g, Nothing, 0)) /\ UNCHANGED ctr
           \/ (\E g : Gives(h, H, g, Nothing, 0)) /\ ctr' = [ctr EXCEPT ![H] = Nothing]
           \/ (\E g, v : Gives(h, H, g, v, s)) /\ ctr' = [ctr EXCEPT ![H] = Nothing]
        /\ UNCHANGED carried
    BY <1>5, AskHysteriaTotal
  <2>2. ctr' = [ctr EXCEPT ![H] = Nothing] => Sum(ctr'[H]) = 0
    <3>1. \A u \in Users : Nothing[u] = 0
      BY DEF Nothing, Zeros
    <3>2. ctr' = [ctr EXCEPT ![H] = Nothing] => ctr'[H] = Nothing
      BY DEF Typed, Bytes
    <3>. QED  BY <3>1, <3>2, NoneSum
  <2>3. CASE (\E g : Gives(h, H, g, Nothing, 0)) /\ UNCHANGED ctr
    <3>1. total'[H] = 0 \/ total'[H] = total[H]
      BY <2>3, GivesTotal DEF Handlers
    <3>. QED  BY <1>0, <1>1, <2>1, <2>3, <3>1
  <2>4. CASE (\E g : Gives(h, H, g, Nothing, 0)) /\ ctr' = [ctr EXCEPT ![H] = Nothing]
    <3>1. total'[H] = 0 \/ total'[H] = total[H]
      BY <2>4, GivesTotal DEF Handlers
    <3>. QED  BY <1>0, <1>1, <2>1, <2>2, <2>4, <3>1
  <2>5. CASE (\E g, v : Gives(h, H, g, v, s)) /\ ctr' = [ctr EXCEPT ![H] = Nothing]
    <3>1. total'[H] = s \/ total'[H] = total[H]
      BY <1>0, <2>5, GivesTotal DEF Handlers
    <3>. QED  BY <1>0, <1>1, <2>1, <2>2, <2>5, <3>1
  <2>. QED  BY <2>1, <2>3, <2>4, <2>5
<1>6. ASSUME NEW h \in Handlers, NEW r \in {"ok"} \cup Trouble, AskXray(h, r)
      PROVE  HysteriaKeeps
  <2>1. UNCHANGED <<carried, ctr>>
    BY <1>6 DEF AskXray, network
  <2>2. UNCHANGED total[H]
    BY <1>6, AskXrayTotal, GivesTotal
  <2>. QED  BY <2>1, <2>2, HysteriaUnmoved
<1>7. ASSUME NEW h \in Handlers, AccountDump(h) \/ DumpFails(h) PROVE HysteriaKeeps
  <2>1. UNCHANGED <<carried, ctr>>
    BY <1>7 DEF AccountDump, DumpFails, network
  <2>2. UNCHANGED total[H]
    <3>1. CASE AccountDump(h)
      BY <3>1, AccountDumpTotal, SumTyped, GivesTotal
    <3>2. CASE DumpFails(h)
      BY <3>2, GivesTotal DEF DumpFails
    <3>. QED  BY <1>7, <3>1, <3>2
  <2>. QED  BY <2>1, <2>2, HysteriaUnmoved
<1>8. ASSUME \/ Relay \/ Poll \/ Answer
             \/ (\E h \in Handlers : ReadDump(h)) \/ (\E c \in Cores : Start(c))
      PROVE  HysteriaKeeps
  <2>1. UNCHANGED total
    BY <1>8, TotalsSame
  <2>2. UNCHANGED <<carried, ctr>>
    BY <1>8 DEF Relay, Poll, Answer, ReadDump, Start, network
  <2>. QED  BY <2>1, <2>2, HysteriaUnmoved
<1>. QED
  BY <1>2, <1>3, <1>4, <1>5, <1>6, <1>7, <1>8 DEF Next

\* What a dump, an accounting and a forgotten dump make of what is ahead.
LEMMA GainedTriangle ==
  ASSUME NEW a \in Nat, NEW t \in Nat, NEW b \in Nat \cup {Unseen}
  PROVE  Gained(a, b) <= Gained(t, b) + Gained(a, t)
  BY UnseenAssumption DEF Gained

LEMMA GainsUp ==
  ASSUME NEW now \in [Users -> Nat], NEW then \in [Users -> Nat], NEW w \in Users,
         NEW d \in [Users -> Nat] \cup {Unseen}, NEW before \in [Users -> Nat \cup {Unseen}],
         \A u \in Users : then[u] = now[u] + IF u = w THEN 1 ELSE 0
  PROVE  Sum(Gains(then, d, before)) <= Sum(Gains(now, d, before)) + 1
<1>1. ASSUME NEW u \in Users
      PROVE  Gains(then, d, before)[u] <= Gains(now, d, before)[u] + IF u = w THEN 1 ELSE 0
  <2>1. now[u] \in Nat /\ before[u] \in Nat \cup {Unseen} /\ (d # Unseen => d[u] \in Nat)
    OBVIOUS
  <2>2. now[u] + 1 \in Nat
    BY <2>1
  <2>3. /\ Gained(now[u], before[u]) \in Nat /\ Gained(now[u] + 1, before[u]) \in Nat
        /\ Gained(now[u] + 1, before[u]) <= Gained(now[u], before[u]) + 1
    BY <2>1, <2>2, GainedFacts
  <2>4. d # Unseen => /\ Gained(d[u], before[u]) \in Nat /\ Gained(now[u], d[u]) \in Nat
                      /\ Gained(now[u] + 1, d[u]) \in Nat
                      /\ Gained(now[u] + 1, d[u]) <= Gained(now[u], d[u]) + 1
    BY <2>1, <2>2, GainedFacts
  <2>5. CASE u = w
    <3>1. then[u] = now[u] + 1
      BY <2>5
    <3>. QED  BY <2>3, <2>4, <2>5, <3>1 DEF Gains
  <2>6. CASE u # w
    <3>1. then[u] = now[u]
      BY <2>1, <2>6
    <3>. QED  BY <2>3, <2>4, <2>6, <3>1 DEF Gains
  <2>. QED  BY <2>5, <2>6
<1>. QED  BY <1>1, GainsTyped, SumUp

\* The counters go: nothing of them is ahead but what a dump still holds.
LEMMA GainsReset ==
  ASSUME NEW now \in [Users -> Nat], NEW none \in [Users -> Nat],
         NEW d \in [Users -> Nat] \cup {Unseen}, NEW before \in [Users -> Nat \cup {Unseen}],
         \A u \in Users : none[u] = 0
  PROVE  Sum(Gains(none, d, before)) <= Sum(Gains(now, d, before))
<1>1. ASSUME NEW u \in Users
      PROVE  Gains(none, d, before)[u] <= Gains(now, d, before)[u]
  <2>1. now[u] \in Nat /\ before[u] \in Nat \cup {Unseen} /\ (d # Unseen => d[u] \in Nat)
    OBVIOUS
  <2>2. Gained(now[u], before[u]) \in Nat /\ Gained(0, before[u]) = 0
    BY <2>1, GainedFacts
  <2>3. d # Unseen => /\ Gained(d[u], before[u]) \in Nat /\ Gained(now[u], d[u]) \in Nat
                      /\ Gained(0, d[u]) = 0
    BY <2>1, GainedFacts
  <2>. QED  BY <2>2, <2>3 DEF Gains
<1>. QED  BY <1>1, GainsTyped, SumMonotone

LEMMA GainsRead ==
  ASSUME NEW now \in [Users -> Nat], NEW before \in [Users -> Nat \cup {Unseen}], now # Unseen
  PROVE  Sum(Gains(now, now, before)) <= Sum(Gains(now, Unseen, before))
<1>1. ASSUME NEW u \in Users
      PROVE  Gains(now, now, before)[u] <= Gains(now, Unseen, before)[u]
  <2>1. Gained(now[u], before[u]) \in Nat /\ Gained(now[u], now[u]) = 0
    BY GainedFacts
  <2>. QED  BY <2>1 DEF Gains
<1>. QED  BY <1>1, GainsTyped, SumMonotone

LEMMA GainsForget ==
  ASSUME NEW now \in [Users -> Nat], NEW d \in [Users -> Nat] \cup {Unseen},
         NEW before \in [Users -> Nat \cup {Unseen}]
  PROVE  Sum(Gains(now, Unseen, before)) <= Sum(Gains(now, d, before))
<1>1. ASSUME NEW u \in Users
      PROVE  Gains(now, Unseen, before)[u] <= Gains(now, d, before)[u]
  <2>1. now[u] \in Nat /\ before[u] \in Nat \cup {Unseen} /\ (d # Unseen => d[u] \in Nat)
    OBVIOUS
  <2>2. Gained(now[u], before[u]) \in Nat
    BY <2>1, GainedFacts
  <2>3. d # Unseen => Gained(now[u], before[u]) <= Gained(d[u], before[u]) + Gained(now[u], d[u])
    BY <2>1, GainedTriangle
  <2>. QED  BY <2>2, <2>3 DEF Gains
<1>. QED  BY <1>1, GainsTyped, SumMonotone

\* What an accounted dump gives, and what is ahead of it then, were ahead.
LEMMA GainsAccounted ==
  ASSUME NEW now \in [Users -> Nat], NEW d \in [Users -> Nat], d # Unseen,
         NEW before \in [Users -> Nat \cup {Unseen}], NEW v \in [Users -> Nat],
         \A u \in Users : v[u] <= Gained(d[u], before[u])
  PROVE  Sum(v) + Sum(Gains(now, Unseen, d)) <= Sum(Gains(now, d, before))
<1>. DEFINE rest == Gains(now, Unseen, d)
            both == [u \in Users |-> v[u] + rest[u]]
<1>1. rest \in [Users -> Nat]
  BY GainsTyped
<1>2. both \in [Users -> Nat] /\ \A u \in Users : both[u] = v[u] + rest[u]
  <2>. HIDE DEF rest
  <2>. QED  BY <1>1
<1>3. Sum(both) = Sum(v) + Sum(rest)
  <2>. HIDE DEF rest, both
  <2>. QED  BY <1>1, <1>2, SumAdds
<1>4. ASSUME NEW u \in Users PROVE both[u] <= Gains(now, d, before)[u]
  <2>1. /\ Gained(d[u], before[u]) \in Nat /\ Gained(now[u], d[u]) \in Nat
        /\ v[u] \in Nat /\ v[u] <= Gained(d[u], before[u])
    BY GainedFacts
  <2>2. rest[u] = Gained(now[u], d[u])
    BY DEF Gains
  <2>3. Gains(now, d, before)[u] = Gained(d[u], before[u]) + Gained(now[u], d[u])
    BY DEF Gains
  <2>4. both[u] = v[u] + rest[u]
    BY <1>2
  <2>. HIDE DEF rest, both
  <2>. QED  BY <2>1, <2>2, <2>3, <2>4
<1>5. Sum(both) <= Sum(Gains(now, d, before))
  <2>1. Gains(now, d, before) \in [Users -> Nat]
    BY GainsTyped
  <2>. HIDE DEF both
  <2>. QED  BY <1>2, <1>4, <2>1, SumMonotone
<1>. QED  BY <1>3, <1>5

LEMMA AwgUnmoved ==
  ASSUME Typed, Numbers,
         UNCHANGED <<carried["amneziawg"], ctr["amneziawg"], total["amneziawg"], last, dump>>
  PROVE  AwgKeeps
<1>1. AwgAhead' = AwgAhead
  BY DEF AwgAhead, Dumped
<1>2. AwgAhead \in Nat /\ Sum(carried["amneziawg"]) \in Nat
  BY AheadTyped, SumsTyped, CoresAre
<1>. QED  BY <1>1, <1>2 DEF AwgKeeps

LEMMA AwgKept ==
  ASSUME Typed, Numbers, OneDump, Races = FALSE, Next, ~Commit
  PROVE  AwgKeeps
<1>. USE CoresAre
<1>. DEFINE A == "amneziawg"
            Now == Sum(Gains(ctr[A], Dumped, last))
<1>a. Typed' /\ Numbers'
  BY TypedStep, NumbersStep
<1>b. /\ ctr'[A] \in [Users -> Nat] /\ last' \in [Users -> Nat \cup {Unseen}]
      /\ Dumped' \in [Users -> Nat] \cup {Unseen} /\ total'[A] \in Nat
  BY <1>a DEF Typed, Bytes, Dumped, Handlers, Numbers
<1>0. /\ total[A] \in Nat /\ Sum(carried[A]) \in Nat /\ Now \in Nat
      /\ ctr[A] \in [Users -> Nat] /\ last \in [Users -> Nat \cup {Unseen}]
      /\ Dumped \in [Users -> Nat] \cup {Unseen}
  BY SumsTyped, DumpedTyped, GainsTyped DEF Numbers
<1>c. Now' \in Nat
  BY <1>b, GainsTyped
\* No more ahead, and nothing moved.
<1>1. ASSUME UNCHANGED carried, total'[A] + Now' <= total[A] + Now
      PROVE  AwgKeeps
  BY <1>0, <1>b, <1>c, <1>1 DEF AwgKeeps, AwgAhead
<1>2. ASSUME NEW c \in Cores, NEW u \in Users, Move(c, u) PROVE AwgKeeps
  <2>1. UNCHANGED <<total, last, dump>>
    BY <1>2 DEF Move, answer, agent
  <2>2. CASE c = A
    <3>1. Sum(carried'[A]) = Sum(carried[A]) + 1
      BY <1>2, <2>2, MoveSums
    <3>2. \A w \in Users : ctr'[A][w] = ctr[A][w] + IF w = u THEN 1 ELSE 0
      <4>1. /\ \A w \in Users \ {u} : ctr'[A][w] = ctr[A][w]
            /\ ctr'[A][u] = ctr[A][u] + 1
        BY <1>2, <2>2, MoveAt
      <4>2. \A w \in Users : ctr[A][w] \in Nat
        BY <1>0
      <4>. QED  BY <4>1, <4>2
    <3>3. Dumped' = Dumped
      BY <2>1 DEF Dumped
    <3>4. Sum(Gains(ctr'[A], Dumped, last)) <= Now + 1
      BY <1>0, <1>b, <3>2, GainsUp
    <3>5. Now' = Sum(Gains(ctr'[A], Dumped, last))
      BY <2>1, <3>3
    <3>. QED  BY <1>0, <1>c, <2>1, <3>1, <3>4, <3>5 DEF AwgKeeps, AwgAhead
  <2>3. CASE c # A
    <3>1. Same(A)
      BY <1>2, <2>3, MoveAt
    <3>2. UNCHANGED <<carried[A], ctr[A]>>
      BY <3>1 DEF Same
    <3>. QED  BY <2>1, <3>2, AwgUnmoved
  <2>. QED  BY <2>2, <2>3
<1>3. ASSUME NEW c \in Cores, Stop(c) PROVE AwgKeeps
  <2>1. UNCHANGED <<carried, total, last, dump>>
    BY <1>3 DEF Stop, answer, agent
  <2>2. CASE c = A
    <3>1. \A u \in Users : ctr'[A][u] = 0
      BY <1>3, <2>2, StopAt
    <3>2. Now' = Sum(Gains(ctr'[A], Dumped, last))
      BY <2>1 DEF Dumped
    <3>3. Sum(Gains(ctr'[A], Dumped, last)) <= Now
      BY <1>0, <1>b, <3>1, GainsReset
    <3>. QED  BY <1>0, <1>1, <1>c, <2>1, <3>2, <3>3
  <2>3. CASE c # A
    <3>1. Same(A)
      BY <1>3, <2>3, StopAt
    <3>2. UNCHANGED ctr[A]
      BY <3>1 DEF Same
    <3>. QED  BY <2>1, <3>2, AwgUnmoved
  <2>. QED  BY <2>2, <2>3
<1>4. CASE AgentRestarts
  <2>1. UNCHANGED carried /\ total'[A] = 0
    BY <1>4, DropTotals
  <2>2. /\ \A u \in Users : last'[u] = Unseen
        /\ \A h \in Handlers : dump'[h] = Unseen
    BY <1>4, RestartAt
  <2>3. Dumped' = Unseen
    BY <2>2 DEF Dumped, Handlers
  <2>4. \A u \in Users : Gains(ctr'[A], Unseen, last')[u] = 0
    BY <2>2 DEF Gains, Gained
  <2>5. Now' = 0
    BY <2>3, <2>4, SumZero
  <2>. QED  BY <1>0, <1>1, <2>1, <2>5
<1>5. CASE CommitFails \/ GivesUp \/ PanelRestarts
  <2>1. UNCHANGED carried /\ total'[A] = 0
    BY <1>5, DropTotals
  <2>2. UNCHANGED <<ctr, last>>
    BY <1>5, DropAt DEF network
  <2>3. Dumped' = Dumped \/ Dumped' = Unseen
    <3>1. CASE UNCHANGED dump
      BY <3>1 DEF Dumped
    <3>2. CASE dump' = [dump EXCEPT !["late"] = dump["live"], !["live"] = Unseen]
      <4>1. dump'["live"] = Unseen /\ dump'["late"] = dump["live"]
        BY <3>2 DEF Typed, Handlers
      <4>. QED  BY <4>1 DEF Dumped
    <3>. QED  BY <1>5, <3>1, <3>2, DropAt
  <2>4. Sum(Gains(ctr[A], Unseen, last)) <= Now
    BY <1>0, GainsForget
  <2>5. Now' = Now \/ Now' = Sum(Gains(ctr[A], Unseen, last))
    BY <2>2, <2>3
  <2>6. Now' <= Now
    BY <1>0, <2>4, <2>5
  <2>. QED  BY <1>0, <1>1, <1>c, <2>1, <2>6
<1>6. ASSUME NEW h \in Handlers, ReadDump(h) PROVE AwgKeeps
  <2>1. UNCHANGED <<carried, ctr, last, total>>
    BY <1>6 DEF ReadDump, network, answer
  <2>2. Dumped = Unseen
    BY <1>6 DEF ReadDump, NoDump, Dumped, Handlers
  <2>3. ctr[A] # Unseen => Dumped' = ctr[A]
    <3>1. dump'[h] = ctr[A] /\ \A i \in Handlers \ {h} : dump'[i] = Unseen
      BY <1>6 DEF ReadDump, NoDump, Typed
    <3>. QED  BY <3>1 DEF Dumped, Handlers
  <2>4. ctr[A] = Unseen => Dumped' = Unseen
    <3>1. dump'[h] = ctr[A] /\ \A i \in Handlers \ {h} : dump'[i] = Unseen
      BY <1>6 DEF ReadDump, NoDump, Typed
    <3>. QED  BY <3>1 DEF Dumped, Handlers
  <2>5. CASE ctr[A] # Unseen
    <3>1. Sum(Gains(ctr[A], ctr[A], last)) <= Sum(Gains(ctr[A], Unseen, last))
      BY <1>0, <2>5, GainsRead
    <3>2. Now' = Sum(Gains(ctr[A], ctr[A], last)) /\ Now = Sum(Gains(ctr[A], Unseen, last))
      BY <2>1, <2>2, <2>3, <2>5
    <3>. QED  BY <1>0, <1>1, <1>c, <2>1, <3>1, <3>2
  <2>6. CASE ctr[A] = Unseen
    <3>1. Now' = Now
      BY <2>1, <2>2, <2>4, <2>6
    <3>. QED  BY <1>0, <1>1, <2>1, <3>1
  <2>. QED  BY <2>5, <2>6
<1>7. ASSUME NEW h \in Handlers, AccountDump(h) PROVE AwgKeeps
  <2>1. UNCHANGED <<carried, ctr>> /\ dump[h] # Unseen /\ last' = dump[h]
        /\ dump' = [dump EXCEPT ![h] = Unseen]
    BY <1>7 DEF AccountDump, network
  <2>2. Dumped = dump[h] /\ Dumped' = Unseen
    <3>1. \A i \in Handlers \ {h} : dump[i] = Unseen
      BY <2>1 DEF OneDump
    <3>2. \A i \in Handlers : dump'[i] = Unseen
      BY <2>1, <3>1 DEF Typed
    <3>. QED  BY <2>1, <3>1, <3>2 DEF Dumped, Handlers
  <2>3. PICK v \in [Users -> Nat] :
           /\ \A u \in Users : v[u] <= Gained(dump[h][u], last[u])
           /\ \E g : Gives(h, A, g, v, Sum(v))
    BY <1>7, AccountDumpTotal
  <2>4. Sum(v) \in Nat
    BY SumTyped
  <2>5. total'[A] = Sum(v) \/ total'[A] = total[A]
    BY <2>3, <2>4, GivesTotal DEF Handlers
  <2>6. Sum(v) + Sum(Gains(ctr[A], Unseen, dump[h])) <= Sum(Gains(ctr[A], dump[h], last))
    <3>1. dump[h] \in [Users -> Nat]
      BY <2>1 DEF Typed
    <3>. QED  BY <1>0, <2>1, <2>3, <3>1, GainsAccounted
  <2>7. Now' = Sum(Gains(ctr[A], Unseen, dump[h])) /\ Now = Sum(Gains(ctr[A], dump[h], last))
    BY <2>1, <2>2
  <2>. QED  BY <1>0, <1>1, <1>c, <2>1, <2>4, <2>5, <2>6, <2>7
<1>8. ASSUME NEW h \in Handlers, DumpFails(h) PROVE AwgKeeps
  <2>1. UNCHANGED <<carried, ctr, last, dump>>
    BY <1>8 DEF DumpFails, network
  <2>2. total'[A] = 0 \/ total'[A] = total[A]
    BY <1>8, GivesTotal DEF DumpFails, Handlers
  <2>3. Now' = Now
    BY <2>1 DEF Dumped
  <2>. QED  BY <1>0, <1>1, <2>1, <2>2, <2>3
<1>9. ASSUME NEW h \in Handlers, NEW r \in {"ok"} \cup Trouble, AskXray(h, r) PROVE AwgKeeps
  <2>1. UNCHANGED <<carried, ctr, last, dump>>
    BY <1>9 DEF AskXray, network
  <2>2. UNCHANGED total[A]
    BY <1>9, AskXrayTotal, GivesTotal
  <2>. QED  BY <2>1, <2>2, AwgUnmoved
<1>10. ASSUME NEW h \in Handlers, NEW r \in {"ok"} \cup Trouble, AskHysteria(h, r) PROVE AwgKeeps
  <2>1. UNCHANGED <<carried, last, dump>>
    BY <1>10, AskHysteriaTotal DEF AskHysteria
  <2>2. Same(A)
    BY <1>10, AskHysteriaAt
  <2>3. UNCHANGED total[A]
    BY <1>10, AskHysteriaTotal, SumsTyped, GivesTotal
  <2>. QED  BY <2>1, <2>2, <2>3, AwgUnmoved DEF Same
<1>11. ASSUME Relay \/ Poll \/ Answer \/ (\E c \in Cores : Start(c)) PROVE AwgKeeps
  <2>1. UNCHANGED total
    BY <1>11, TotalsSame
  <2>2. UNCHANGED <<carried, ctr, last, dump>>
    BY <1>11 DEF Relay, Poll, Answer, Start, network, agent
  <2>. QED  BY <2>1, <2>2, AwgUnmoved
<1>. QED
  BY <1>2, <1>3, <1>4, <1>5, <1>6, <1>7, <1>8, <1>9, <1>10, <1>11 DEF Next

\* A commit takes into the history what was ahead of it in the answer.
LEMMA CommitKeeps ==
  ASSUME Typed, Numbers, NodeBound, Commit
  PROVE  NodeBound'
<1>. USE CoresAre
<1>1. /\ UNCHANGED <<carried, relayed, relay, ctr, last, dump>>
      /\ hist' = hist + NodeTotal
      /\ tot' = IF ResCumulative THEN total["xray"] ELSE tot
      /\ \A c \in Cores : got'[c] = "none" /\ total'[c] = 0
  BY PollEndsAt, PollEndsTotal DEF Commit, SavesTotal, network, agent
<1>2. /\ XrayCount \in Nat /\ total["xray"] \in Nat /\ tot \in Nat \cup {Unseen}
      /\ total["hysteria"] \in Nat /\ total["amneziawg"] \in Nat /\ hist \in Nat
      /\ XrayAhead \in Nat /\ HysteriaAhead \in Nat /\ AwgAhead \in Nat
  BY XrayAheadTyped, AheadTyped DEF Numbers
<1>3. Sum(ctr["hysteria"]) \in Nat /\ Sum(Gains(ctr["amneziawg"], Dumped, last)) \in Nat
  BY SumsTyped, DumpedTyped, GainsTyped
<1>4. /\ Grown(total["xray"], tot) \in Nat /\ Grown(XrayCount, total["xray"]) \in Nat
      /\ Grown(XrayCount, tot) \in Nat
  BY <1>2, GrownFacts
<1>5. HysteriaAhead = total["hysteria"] + Sum(ctr["hysteria"])
      /\ HysteriaAhead' = 0 + Sum(ctr["hysteria"])
  BY <1>1 DEF HysteriaAhead
<1>6. AwgAhead = total["amneziawg"] + Sum(Gains(ctr["amneziawg"], Dumped, last))
      /\ AwgAhead' = 0 + Sum(Gains(ctr["amneziawg"], Dumped, last))
  BY <1>1 DEF AwgAhead, Dumped
<1>. DEFINE x == IF ResCumulative THEN Grown(total["xray"], tot) ELSE 0
<1>7. x \in Nat /\ x + XrayAhead' = XrayAhead /\ XrayAhead' \in Nat
  <2>1. XrayCount' = XrayCount
    BY <1>1 DEF XrayCount
  <2>2. CASE ResCumulative
    <3>1. XrayAhead' = Grown(XrayCount, total["xray"])
      BY <1>1, <2>1, <2>2 DEF XrayAhead
    <3>2. XrayAhead = Grown(total["xray"], tot) + Grown(XrayCount, total["xray"])
      BY <2>2 DEF XrayAhead, ResCumulative
    <3>. QED  BY <1>4, <2>2, <3>1, <3>2
  <2>3. CASE ~ResCumulative
    <3>1. XrayAhead' = Grown(XrayCount, tot)
      BY <1>1, <2>1, <2>3 DEF XrayAhead
    <3>2. XrayAhead = Grown(XrayCount, tot)
      BY <2>3 DEF XrayAhead, ResCumulative
    <3>. QED  BY <1>4, <2>3, <3>1, <3>2
  <2>. QED  BY <2>2, <2>3
<1>8. hist' = hist + (total["hysteria"] + total["amneziawg"] + x)
  BY <1>1 DEF NodeTotal
<1>. HIDE DEF x
<1>9. hist' + XrayAhead' + HysteriaAhead' + AwgAhead' = hist + XrayAhead + HysteriaAhead + AwgAhead
  <2>1. hist' + XrayAhead' = hist + XrayAhead + (total["hysteria"] + total["amneziawg"])
    <3>1. PICK y \in Nat : /\ y + XrayAhead' = XrayAhead
                           /\ hist' = hist + (total["hysteria"] + total["amneziawg"] + y)
      BY <1>7, <1>8
    <3>2. XrayAhead' \in Nat
      BY <1>7
    <3>3. /\ hist \in Nat /\ XrayAhead \in Nat
          /\ total["hysteria"] \in Nat /\ total["amneziawg"] \in Nat
      BY <1>2
    <3>4. ASSUME NEW a \in Nat, NEW e \in Nat, NEW f \in Nat, NEW i \in Nat
          PROVE  (i + (e + f + y)) + a = i + (y + a) + (e + f)
      OBVIOUS
    <3>5. (hist + (total["hysteria"] + total["amneziawg"] + y)) + XrayAhead'
          = hist + (y + XrayAhead') + (total["hysteria"] + total["amneziawg"])
      BY <3>2, <3>3, <3>4
    <3>. QED  BY <3>1, <3>5
  <2>2. HysteriaAhead = total["hysteria"] + HysteriaAhead' /\ HysteriaAhead' \in Nat
    BY <1>3, <1>5
  <2>3. AwgAhead = total["amneziawg"] + AwgAhead' /\ AwgAhead' \in Nat
    BY <1>3, <1>6
  <2>4. hist' + XrayAhead' \in Nat
    BY <1>2, <2>1
  <2>. QED  BY <1>2, <2>1, <2>2, <2>3, <2>4
<1>. QED  BY <1>1, <1>9 DEF NodeBound

LEMMA HistSame ==
  ASSUME Next, ~Commit
  PROVE  UNCHANGED hist
<1>1. ASSUME NEW h \in Handlers, NEW r \in {"ok"} \cup Trouble, AskXray(h, r) \/ AskHysteria(h, r)
      PROVE  UNCHANGED hist
  BY <1>1 DEF AskXray, AskHysteria, panel
<1>2. ASSUME NEW h \in Handlers, AccountDump(h) \/ DumpFails(h) PROVE UNCHANGED hist
  BY <1>2 DEF AccountDump, DumpFails, panel
<1>. QED  BY <1>1, <1>2, TotalsSame, DropTotals DEF Next

LEMMA NodeBoundStep ==
  ASSUME Typed, Numbers, OneDump, NodeBound, Races = FALSE, "noTotals" \notin Trouble, [Next]_vars
  PROVE  NodeBound'
<1>. USE CoresAre
<1>1. CASE Commit
  BY <1>1, CommitKeeps
<1>2. CASE UNCHANGED vars
  <2>1. /\ UNCHANGED <<hist, relayed, carried, ctr, relay, got, total, tot, last, dump>>
    BY <1>2 DEF vars, network, agent, answer, panel
  <2>. QED  BY <2>1 DEF NodeBound, XrayAhead, XrayCount, HysteriaAhead, AwgAhead, Dumped
<1>3. CASE Next /\ ~Commit
  <2>0. Typed' /\ Numbers'
    BY TypedStep, NumbersStep
  <2>1. XrayKeeps /\ HysteriaKeeps /\ AwgKeeps /\ hist' = hist
    BY <1>3, XrayKept, HysteriaKept, AwgKept, HistSame
  <2>2. /\ XrayAhead \in Nat /\ HysteriaAhead \in Nat /\ AwgAhead \in Nat /\ hist \in Nat
        /\ relayed \in Nat /\ Sum(carried["xray"]) \in Nat
        /\ Sum(carried["hysteria"]) \in Nat /\ Sum(carried["amneziawg"]) \in Nat
    BY XrayAheadTyped, AheadTyped, SumsTyped DEF Numbers
  <2>3. /\ relayed' \in Nat /\ Sum(carried'["xray"]) \in Nat
        /\ Sum(carried'["hysteria"]) \in Nat /\ Sum(carried'["amneziawg"]) \in Nat
    BY <2>0, SumTyped DEF Typed, Bytes, Numbers
  <2>4. XrayAhead' \in Nat /\ HysteriaAhead' \in Nat /\ AwgAhead' \in Nat
    <3>1. (Typed /\ Numbers => XrayAhead \in Nat /\ HysteriaAhead \in Nat /\ AwgAhead \in Nat)'
      BY XrayAheadTyped, AheadTyped, PTL
    <3>. QED  BY <2>0, <3>1
  <2>. HIDE DEF XrayAhead, HysteriaAhead, AwgAhead
  <2>. QED  BY <2>1, <2>2, <2>3, <2>4 DEF NodeBound, XrayKeeps, HysteriaKeeps, AwgKeeps
<1>. QED  BY <1>1, <1>2, <1>3

LEMMA NodeBoundInit == Init => NodeBound /\ OneDump
<1>. SUFFICES ASSUME Init PROVE NodeBound /\ OneDump  OBVIOUS
<1>. USE CoresAre
<1>1. /\ hist = 0 /\ relayed = 0 /\ relay = 0 /\ tot = Unseen
      /\ \A h \in Handlers : dump[h] = Unseen
      /\ \A c \in Cores : /\ got[c] = "none" /\ total[c] = 0
                          /\ \A u \in Users : ctr[c][u] = 0 /\ carried[c][u] = 0
      /\ \A u \in Users : last[u] = Unseen
  BY DEF Init, NoDump, NoAnswer, NoTotals, Zeros
<1>2. /\ \A c \in Cores : Sum(ctr[c]) = 0 /\ Sum(carried[c]) = 0
      /\ XrayAhead = 0
  BY <1>1, NoneSum DEF XrayAhead, Grown
<1>3. Sum(Gains(ctr["amneziawg"], Dumped, last)) = 0
  <2>1. Dumped = Unseen
    BY <1>1 DEF Dumped, Handlers
  <2>2. \A u \in Users : Gains(ctr["amneziawg"], Dumped, last)[u] = 0
    BY <1>1, <2>1 DEF Gains, Gained
  <2>. QED  BY <2>2, SumZero
<1>4. NodeBound
  BY <1>1, <1>2, <1>3 DEF NodeBound, HysteriaAhead, AwgAhead
<1>. QED  BY <1>1, <1>4 DEF OneDump

\* The node's history (computeNodeTotalsFromCores) counts no byte twice, for
\* any users and rosters: whatever restarts, is lost or comes late, what xray's
\* total has grown, what was drained and what the agent made the difference of
\* are together no more than what the node moved.  Not so when xray's inbound
\* query fails, nor when two answers are between the dump and the lock.
THEOREM HistoryWasMoved ==
  ASSUME Races = FALSE, "noTotals" \notin Trouble
  PROVE  Spec => []NodeNotOvercounted
<1>1. Init => Typed /\ Numbers /\ OneDump /\ NodeBound
  BY TypedInit, NumbersInit, NodeBoundInit
<1>2. Typed /\ Numbers /\ OneDump /\ NodeBound /\ [Next]_vars
      => Typed' /\ Numbers' /\ OneDump' /\ NodeBound'
  BY TypedStep, NumbersStep, OneDumpStep, NodeBoundStep
<1>3. Typed /\ Numbers /\ NodeBound => NodeNotOvercounted
  <2>. SUFFICES ASSUME Typed, Numbers, NodeBound PROVE NodeNotOvercounted  OBVIOUS
  <2>1. /\ XrayAhead \in Nat /\ HysteriaAhead \in Nat /\ AwgAhead \in Nat /\ hist \in Nat
        /\ relayed \in Nat /\ \A c \in Cores : Sum(carried[c]) \in Nat
    BY XrayAheadTyped, AheadTyped, SumsTyped DEF Numbers
  <2>. QED  BY <2>1, CoresAre DEF NodeBound, NodeNotOvercounted
<1>. QED  BY <1>1, <1>2, <1>3, PTL DEF Spec
=============================================================================
