---------------------------- MODULE FloorProofs ----------------------------
(***************************************************************************)
(* What the factory floor keeps, for any workflows, routes, limits and     *)
(* number of flights, mishaps and restarts: work never reaches further     *)
(* than the workflows it has been through, a layover marked as resumed was *)
(* queued, and a token does not outlive its run.                           *)
(*                                                                         *)
(* The reach of an agent is decided by what the Tower has recorded of its  *)
(* chain, and that record is memory: it is made of whichever flight of the *)
(* chain starts first.  So the argument is that all flights of a chain say *)
(* the same of it (ChainsAgree), that the record says what they say        *)
(* (ChainsRecorded) and is there whenever somebody asks (LiveRecorded).    *)
(***************************************************************************)
EXTENDS Floor, SequenceTheorems, FiniteSetTheorems, TLAPS

\* What a flight says of itself.
Sound(g) ==
  /\ g.pipeline \in Workflows
  /\ g.pipeline \notin g.within
  /\ g.lineage \subseteq {g.pipeline} \cup g.within
  /\ g.from \in Agents => \A w \in g.lineage : <<g.from, g.to>> \in Graph[w]

FlightsSound == \A f \in Ids : Sound(flights[f]) /\ flights[f].chain \in 1..Len(flights)

Akin(g, h) == g.chain = h.chain => g.pipeline = h.pipeline /\ g.within = h.within

ChainsAgree == \A f, g \in Ids : Akin(flights[f], flights[g])

Records(c, g) == g.chain = c => chains[c].pipeline = g.pipeline /\ chains[c].within = g.within

ChainsRecorded ==
  /\ DOMAIN chains \subseteq 1..Len(flights)
  /\ \A c \in DOMAIN chains : \A f \in Ids : Records(c, flights[f])

LayoversSound ==
  \A l \in DOMAIN layovers :
    layovers[l].lineage \subseteq {layovers[l].scope.pipeline} \cup layovers[l].scope.within

Collecting == pc = "resume" => collecting \in Workflows

\* A run that is alive, or has a call to be answered, is asked about a chain that is recorded.
Lives(f) == at[f] \in {"starting", "alive"} \/ f \in calls

LiveRecorded == \A f \in Ids : Lives(f) => flights[f].chain \in DOMAIN chains

Chained ==
  /\ FlightsSound
  /\ ChainsAgree
  /\ ChainsRecorded
  /\ LiveRecorded

ReachInv ==
  /\ Chained
  /\ LayoversSound
  /\ Collecting

OwedInv ==
  /\ OwedWorkIsQueued
  /\ owed # 0 => Resumptions(owed) # {}

USE DEF Ids

---------------------------------------------------------------------------
(* Types. *)

LEMMA QueueTypes ==
  ASSUME TypeOK, NEW g \in FlightSet, Queue(g)
  PROVE  /\ flights' \in Seq(FlightSet) /\ at' \in Seq(Places)
         /\ Len(at') = Len(flights') /\ Len(flights') = Len(flights) + 1
         /\ DOMAIN flights' = DOMAIN flights \cup {Len(flights) + 1}
         /\ DOMAIN flights = 1..Len(flights)
         /\ \A f \in DOMAIN flights : flights'[f] = flights[f] /\ at'[f] = at[f]
         /\ flights'[Len(flights) + 1] = g /\ at'[Len(flights) + 1] = "queued"
<1>1. /\ flights' = Append(flights, g) /\ at' = Append(at, "queued")
      /\ flights \in Seq(FlightSet) /\ at \in Seq(Places) /\ Len(at) = Len(flights)
      /\ "queued" \in Places
  BY DEF Queue, TypeOK, Places
<1>. QED
  BY <1>1, AppendProperties, LenProperties

LEMMA MovedTypes ==
  ASSUME TypeOK, NEW f \in Ids, NEW place \in Places, Moved(f, place)
  PROVE  /\ at' \in Seq(Places) /\ Len(at') = Len(flights) /\ UNCHANGED flights
         /\ \A g \in Ids : at'[g] = IF g = f THEN place ELSE at[g]
<1>1. /\ at' = [at EXCEPT ![f] = place] /\ at \in Seq(Places) /\ f \in 1..Len(at)
      /\ Len(at) = Len(flights) /\ Ids = 1..Len(at) /\ UNCHANGED flights
  BY LenProperties DEF Moved, TypeOK
<1>. QED
  BY <1>1, ExceptSeq

LEMMA ScopeTypes ==
  ASSUME TypeOK
  PROVE  \A c : ScopeOf(c) \in Scopes
BY DEF TypeOK, ScopeOf, ChainScope, Recorded, Scopes, Pipelines

LEMMA OpenedTypes ==
  ASSUME TypeOK, NEW g \in FlightSet
  PROVE  \A c \in DOMAIN OpenedBy(g) : OpenedBy(g)[c] \in Scopes
BY DEF TypeOK, OpenedBy, ChainScope, Recorded, Scopes, Pipelines, FlightSet

LEMMA FreshTypes ==
  ASSUME FloorAssumption, TypeOK, NEW w \in Workflows, NEW from \in {"clock", "person"}
  PROVE  Flight(Entry[w], from, NewChain, ChainScope(w, {}), 0, from, {w}) \in FlightSet
<1>1. Len(flights) + 1 \in Nat /\ Entry[w] \in Agents
  BY LenProperties DEF TypeOK, FloorAssumption
<1>. QED
  BY <1>1 DEF Flight, FlightSet, ChainScope, NewChain, Pipelines

LEMMA ResumptionTypes ==
  ASSUME TypeOK, collecting \in Workflows, NEW l \in DOMAIN layovers
  PROVE  Resumption(l) \in FlightSet
<1>1. /\ layovers[l] \in LayoverSet /\ l \in Nat /\ Len(flights) + 1 \in Nat
  BY LenProperties, ElementOfSeq DEF TypeOK
<1>. QED
  BY <1>1 DEF Resumption, Flight, FlightSet, LayoverSet, ScopeResuming, ChainScope, NewChain, Pipelines,
     Scopes

LEMMA SentTypes ==
  ASSUME TypeOK, NEW f \in Ids, NEW to \in Agents
  PROVE  Sent(f, to) \in FlightSet
<1>1. flights[f] \in FlightSet /\ Len(flights) + 1 \in Nat
  BY LenProperties, ElementOfSeq DEF TypeOK
<1>2. ScopeOf(flights[f].chain) \in Scopes
  BY ScopeTypes
<1>. QED
  BY <1>1, <1>2 DEF Sent, Flight, FlightSet, Scopes, NewChain, Pipelines

LEMMA TypeStep ==
  ASSUME FloorAssumption, TypeOK, Collecting, [Next]_vars
  PROVE  TypeOK'
<1>. DOMAIN flights = 1..Len(flights) /\ DOMAIN at = Ids /\ DOMAIN layovers = 1..Len(layovers)
  BY LenProperties DEF TypeOK
<1>q. ASSUME NEW g \in FlightSet, Queue(g)
      PROVE  /\ flights' \in Seq(FlightSet) /\ at' \in Seq(Places) /\ Len(at') = Len(flights')
             /\ Ids \subseteq Ids'
  BY <1>q, QueueTypes
<1>1. CASE UNCHANGED vars
  BY <1>1 DEF TypeOK, vars, workVars, loopVars, bounds
<1>2. ASSUME NEW w \in Workflows, TickComes(w) PROVE TypeOK'
  BY <1>2 DEF TickComes, TypeOK, workVars, loopVars
<1>3. CASE ReadBusy
  BY <1>3 DEF ReadBusy, TypeOK, workVars
<1>4. CASE HoldTicks
  BY <1>4 DEF HoldTicks, TypeOK, workVars
<1>5. CASE ReadPending
  BY <1>5 DEF ReadPending, TypeOK, workVars
<1>6. CASE Decide
  BY <1>6 DEF Decide, TypeOK, workVars
<1>7. ASSUME NEW w \in Workflows, Fire(w) PROVE TypeOK'
  <2>1. CASE Trigger(w, "clock")
    BY <1>7, <2>1, <1>q, FreshTypes DEF Fire, Trigger, TypeOK
  <2>2. CASE UNCHANGED workVars
    BY <1>7, <2>2 DEF Fire, TypeOK, workVars
  <2>. QED
    BY <1>7, <2>1, <2>2 DEF Fire
<1>8. ASSUME NEW w \in Workflows, Collect(w) PROVE TypeOK'
  BY <1>8 DEF Collect, TypeOK, workVars, Due
<1>9. ASSUME NEW l \in DOMAIN layovers, Resume(l) PROVE TypeOK'
  <2>1. CASE Queue(Resumption(l)) /\ owed' = l /\ UNCHANGED <<shelf, faults>>
    BY <1>9, <2>1, <1>q, ResumptionTypes DEF Resume, TypeOK, Collecting
  <2>2. CASE shelf' = shelf \ {l} /\ UNCHANGED <<workVars, owed>>
    BY <1>9, <2>2 DEF Resume, TypeOK, workVars
  <2>. QED
    BY <1>9, <2>1, <2>2 DEF Resume
<1>10. CASE Mark
  <2>1. owed \in DOMAIN layovers
    BY <1>10 DEF Mark, TypeOK
  <2>2. layovers[owed] \in LayoverSet
    BY <2>1, ElementOfSeq DEF TypeOK
  <2>3. [layovers[owed] EXCEPT !.standing = "resumed"] \in LayoverSet
    BY <2>2 DEF LayoverSet
  <2>4. layovers' = [layovers EXCEPT ![owed] = [layovers[owed] EXCEPT !.standing = "resumed"]]
        \/ UNCHANGED layovers
    BY <1>10 DEF Mark
  <2>5. layovers' \in Seq(LayoverSet) /\ DOMAIN layovers' = DOMAIN layovers
    <3>1. layovers \in Seq(LayoverSet) /\ owed \in 1..Len(layovers)
      BY <2>1 DEF TypeOK
    <3>2. LET e == [layovers[owed] EXCEPT !.standing = "resumed"]
          IN  [layovers EXCEPT ![owed] = e] \in Seq(LayoverSet)
      BY <2>3, <3>1, ExceptSeq
    <3>. QED
      BY <2>4, <3>1, <3>2
  <2>. QED
    BY <1>10, <2>5 DEF Mark, TypeOK, workVars
<1>11. CASE Collected
  BY <1>11 DEF Collected, TypeOK, workVars
<1>12. CASE Ticked
  BY <1>12 DEF Ticked, TypeOK, workVars
<1>13. ASSUME NEW f \in Ids, Launch(f) PROVE TypeOK'
  <2>1. /\ at' \in Seq(Places) /\ Len(at') = Len(flights) /\ UNCHANGED flights
    BY <1>13, MovedTypes DEF Launch, Places
  <2>2. flights[f] \in FlightSet
    BY ElementOfSeq DEF TypeOK
  <2>3. \A c \in DOMAIN chains' : chains'[c] \in Scopes
    BY <1>13, <2>2, OpenedTypes DEF Launch
  <2>. QED
    BY <1>13, <2>1, <2>3 DEF Launch, TypeOK
<1>14. ASSUME NEW f \in Ids, LaunchFails(f) PROVE TypeOK'
  <2>1. /\ at' \in Seq(Places) /\ Len(at') = Len(flights) /\ UNCHANGED flights
    BY <1>14, MovedTypes DEF LaunchFails, Places
  <2>. QED
    BY <1>14, <2>1 DEF LaunchFails, TypeOK
<1>15. ASSUME NEW f \in Ids, Hold(f) PROVE TypeOK'
  <2>1. /\ at' \in Seq(Places) /\ Len(at') = Len(flights) /\ UNCHANGED flights
    BY <1>15, MovedTypes DEF Hold, Places
  <2>. QED
    BY <1>15, <2>1 DEF Hold, TypeOK
<1>16. CASE Round
  BY <1>16 DEF Round, TypeOK, workVars
<1>17. ASSUME NEW f \in Ids, NEW to \in Agents, Send(f, to) PROVE TypeOK'
  BY <1>17, <1>q, SentTypes DEF Send, TypeOK, loopVars
<1>18. ASSUME NEW f \in Ids, Wait(f) PROVE TypeOK'
  <2>. DEFINE set == [agent |-> flights[f].to, scope |-> ScopeOf(flights[f].chain),
                      standing |-> "booked", lineage |-> flights[f].lineage]
  <2>1. flights[f] \in FlightSet /\ ScopeOf(flights[f].chain) \in Scopes
    BY ElementOfSeq, ScopeTypes DEF TypeOK
  <2>2. set \in LayoverSet
    BY <2>1 DEF LayoverSet, FlightSet
  <2>3. layovers' = Append(layovers, set)
    BY <1>18 DEF Wait
  <2>. HIDE DEF set
  <2>4. layovers' \in Seq(LayoverSet) /\ DOMAIN layovers \subseteq DOMAIN layovers'
    BY <2>2, <2>3, AppendProperties, LenProperties DEF TypeOK
  <2>. QED
    BY <1>18, <2>4 DEF Wait, TypeOK, workVars, loopVars
<1>19. ASSUME NEW f \in Ids, Answered(f) PROVE TypeOK'
  BY <1>19 DEF Answered, TypeOK, workVars, loopVars
<1>20. ASSUME NEW f \in Ids, Finish(f) PROVE TypeOK'
  <2>1. /\ at' \in Seq(Places) /\ Len(at') = Len(flights) /\ UNCHANGED flights
    BY <1>20, MovedTypes DEF Finish, Places
  <2>2. calls' \subseteq Ids
    BY <1>20 DEF Finish, TypeOK
  <2>. QED
    BY <1>20, <2>1, <2>2 DEF Finish, TypeOK, loopVars
<1>21. ASSUME NEW l \in DOMAIN layovers, Ripen(l) PROVE TypeOK'
  <2>1. layovers[l] \in LayoverSet
    BY ElementOfSeq DEF TypeOK
  <2>2. [layovers[l] EXCEPT !.standing = "due"] \in LayoverSet
    BY <2>1 DEF LayoverSet
  <2>3. layovers' \in Seq(LayoverSet) /\ DOMAIN layovers' = DOMAIN layovers
    BY <1>21, <2>2, ExceptSeq, LenProperties DEF Ripen, TypeOK
  <2>. QED
    BY <1>21, <2>3 DEF Ripen, TypeOK, workVars, loopVars
<1>22. ASSUME NEW w \in Workflows, SendFlight(w) PROVE TypeOK'
  BY <1>22, <1>q, FreshTypes DEF SendFlight, Trigger, TypeOK, loopVars
<1>23. ASSUME NEW w \in Workflows, Switch(w) PROVE TypeOK'
  BY <1>23 DEF Switch, TypeOK, workVars, loopVars
<1>24. CASE SetDraining
  BY <1>24 DEF SetDraining, TypeOK, workVars, loopVars
<1>25. ASSUME NEW restarted \in SUBSET Ids, Crash(restarted) PROVE TypeOK'
  <2>1. \A f \in 1..Len(flights) : [flights[f] EXCEPT !.again = @ \/ f \in restarted] \in FlightSet
    <3>1. \A f \in 1..Len(flights) : flights[f] \in FlightSet
      BY ElementOfSeq DEF TypeOK
    <3>2. \A g \in FlightSet, b \in BOOLEAN : [g EXCEPT !.again = b] \in FlightSet
      BY DEF FlightSet
    <3>3. \A g \in FlightSet : g.again \in BOOLEAN
      BY DEF FlightSet
    <3>. QED
      BY <3>1, <3>2, <3>3
  <2>2. flights' \in [1..Len(flights) -> FlightSet]
    BY <1>25, <2>1 DEF Crash
  <2>3. at' \in [1..Len(flights) -> Places]
    BY <1>25 DEF Crash, Places
  <2>4. Len(flights) \in Nat
    BY LenProperties DEF TypeOK
  <2>5. flights' \in Seq(FlightSet) /\ at' \in Seq(Places)
    <3>. DEFINE n == Len(flights)
    <3>1. \A s \in [1..n -> FlightSet] : s \in Seq(FlightSet)
      BY <2>4, SeqDef
    <3>2. \A s \in [1..n -> Places] : s \in Seq(Places)
      BY <2>4, SeqDef
    <3>. HIDE DEF n
    <3>. QED
      BY <2>2, <2>3, <3>1, <3>2 DEF n
  <2>6. Len(flights') = Len(flights) /\ Len(at') = Len(flights)
    BY <2>2, <2>3, <2>4, <2>5, LenProperties
  <2>7. DOMAIN flights' = DOMAIN flights
    BY <2>2
  <2>8. \A c \in DOMAIN chains' : chains'[c] \in Scopes
    BY <1>25 DEF Crash
  <2>. QED
    BY <1>25, <2>5, <2>6, <2>7, <2>8 DEF Crash, TypeOK
<1>. QED
  BY <1>1, <1>2, <1>3, <1>4, <1>5, <1>6, <1>7, <1>8, <1>9, <1>10, <1>11, <1>12, <1>13, <1>14, <1>15,
     <1>16, <1>17, <1>18, <1>19, <1>20, <1>21, <1>22, <1>23, <1>24, <1>25 DEF Next, Loop

---------------------------------------------------------------------------
(* Reach. *)

LEMMA LiveScope ==
  ASSUME TypeOK, Chained, NEW f \in Ids, Lives(f)
  PROVE  ScopeOf(flights[f].chain) = [pipeline |-> flights[f].pipeline, within |-> flights[f].within]
<1>1. flights[f].chain \in DOMAIN chains
  BY DEF Chained, LiveRecorded, Lives
<1>2. /\ chains[flights[f].chain].pipeline = flights[f].pipeline
      /\ chains[flights[f].chain].within = flights[f].within
  BY <1>1 DEF Chained, ChainsRecorded, Records
<1>3. flights[f].pipeline \notin flights[f].within
  BY DEF Chained, FlightsSound, Sound
<1>. QED
  BY <1>1, <1>2, <1>3 DEF ScopeOf, Recorded, ChainScope

\* A flight is queued: on a chain of its own, or one that says of its chain what is said already.
LEMMA QueueKeeps ==
  ASSUME TypeOK, Chained, NEW g \in FlightSet, Sound(g), Queue(g),
         \/ g.chain = NewChain
         \/ \E f \in Ids : /\ g.chain = flights[f].chain
                          /\ g.pipeline = flights[f].pipeline /\ g.within = flights[f].within,
         UNCHANGED chains, calls' \subseteq calls
  PROVE  Chained'
<1>. DEFINE new == Len(flights) + 1
<1>1. /\ Len(flights') = new /\ Len(flights) \in Nat
      /\ DOMAIN flights' = DOMAIN flights \cup {new}
      /\ DOMAIN flights = 1..Len(flights)
      /\ \A f \in DOMAIN flights : flights'[f] = flights[f] /\ at'[f] = at[f]
      /\ flights'[new] = g /\ at'[new] = "queued"
  BY QueueTypes, LenProperties DEF TypeOK
<1>2. \A f \in Ids : Sound(flights[f]) /\ flights[f].chain \in 1..Len(flights)
  BY DEF Chained, FlightsSound
<1>3. g.chain \in 1..new
  BY <1>1, <1>2 DEF NewChain
<1>4. FlightsSound'
  <2>1. \A f \in DOMAIN flights' : Sound(flights'[f])
    BY <1>1, <1>2
  <2>2. \A f \in DOMAIN flights' : flights'[f].chain \in 1..new
    BY <1>1, <1>2, <1>3
  <2>. QED
    BY <1>1, <2>1, <2>2 DEF FlightsSound, Sound
<1>5. \A f \in Ids : Akin(g, flights[f]) /\ Akin(flights[f], g)
  <2>1. CASE g.chain = NewChain
    BY <2>1, <1>1, <1>2 DEF Akin, NewChain
  <2>2. CASE \E f \in Ids : /\ g.chain = flights[f].chain
                          /\ g.pipeline = flights[f].pipeline /\ g.within = flights[f].within
    BY <2>2 DEF Akin, Chained, ChainsAgree
  <2>. QED
    BY <2>1, <2>2
<1>6. ChainsAgree'
  <2>1. \A f, h \in DOMAIN flights' : Akin(flights'[f], flights'[h])
    BY <1>1, <1>5 DEF Chained, ChainsAgree, Akin
  <2>. QED
    BY <2>1 DEF ChainsAgree, Akin
<1>7. ChainsRecorded'
  <2>1. \A c \in DOMAIN chains : Records(c, g)
    <3>1. CASE g.chain = NewChain
      BY <3>1, <1>1 DEF Records, NewChain, Chained, ChainsRecorded
    <3>2. CASE \E f \in Ids : /\ g.chain = flights[f].chain
                            /\ g.pipeline = flights[f].pipeline /\ g.within = flights[f].within
      BY <3>2 DEF Records, Chained, ChainsRecorded
    <3>. QED
      BY <3>1, <3>2
  <2>2. DOMAIN chains \subseteq 1..new
    BY <1>1 DEF Chained, ChainsRecorded
  <2>. QED
    BY <1>1, <2>1, <2>2 DEF Chained, ChainsRecorded, Records
<1>8. LiveRecorded'
  BY <1>1 DEF Chained, LiveRecorded, Lives, TypeOK
<1>. QED
  BY <1>4, <1>6, <1>7, <1>8 DEF Chained

\* Nothing is queued or recorded, and nobody comes to life.
LEMMA QuietKeeps ==
  ASSUME Chained, UNCHANGED <<flights, chains>>, \A f \in Ids : Lives(f)' => Lives(f)
  PROVE  Chained'
<1>1. FlightsSound' /\ ChainsAgree' /\ ChainsRecorded'
  BY DEF Chained, FlightsSound, Sound, ChainsAgree, Akin, ChainsRecorded, Records
<1>2. LiveRecorded'
  BY DEF Chained, LiveRecorded, Lives
<1>. QED
  BY <1>1, <1>2 DEF Chained

LEMMA LaunchKeeps ==
  ASSUME FloorAssumption, TypeOK, Chained, NEW f \in Ids, Launch(f)
  PROVE  Chained'
<1>. DEFINE c == flights[f].chain
<1>1. UNCHANGED <<flights, calls>> /\ \A g \in Ids : at'[g] = IF g = f THEN "starting" ELSE at[g]
  BY MovedTypes DEF Launch, Places
<1>2. DOMAIN chains' = DOMAIN chains \cup {c} /\ \A d \in DOMAIN chains \ {c} : chains'[d] = chains[d]
  BY DEF Launch, OpenedBy
<1>3. chains'[c].pipeline = flights[f].pipeline /\ chains'[c].within = flights[f].within
  <2>0. chains'[c] = [pipeline |-> IF Recorded(c).pipeline = NoWorkflow THEN flights[f].pipeline
                                   ELSE Recorded(c).pipeline,
                      within   |-> IF Recorded(c).within = {} THEN flights[f].within
                                   ELSE Recorded(c).within]
    BY DEF Launch, OpenedBy
  <2>1. CASE c \in DOMAIN chains
    <3>1. Recorded(c).pipeline = flights[f].pipeline /\ Recorded(c).within = flights[f].within
      BY <2>1 DEF Recorded, Chained, ChainsRecorded, Records
    <3>. QED
      BY <2>0, <3>1
  <2>2. CASE c \notin DOMAIN chains
    <3>1. Recorded(c).pipeline = NoWorkflow /\ Recorded(c).within = {}
      BY <2>2 DEF Recorded, ChainScope
    <3>. QED
      BY <2>0, <3>1
  <2>. QED
    BY <2>1, <2>2
<1>4. FlightsSound' /\ ChainsAgree'
  BY <1>1 DEF Chained, FlightsSound, Sound, ChainsAgree, Akin
<1>5. ChainsRecorded'
  <2>1. c \in 1..Len(flights)
    BY DEF Chained, FlightsSound
  <2>2. \A d \in DOMAIN chains', g \in Ids :
          flights[g].chain = d => /\ chains'[d].pipeline = flights[g].pipeline
                                  /\ chains'[d].within = flights[g].within
    BY <1>2, <1>3 DEF Chained, ChainsRecorded, Records, ChainsAgree, Akin
  <2>. QED
    BY <1>1, <1>2, <2>1, <2>2 DEF Chained, ChainsRecorded, Records
<1>6. LiveRecorded'
  BY <1>1, <1>2 DEF Chained, LiveRecorded, Lives
<1>. QED
  BY <1>4, <1>5, <1>6 DEF Chained

LEMMA CrashKeeps ==
  ASSUME TypeOK, Chained, NEW restarted \in SUBSET Ids, Crash(restarted)
  PROVE  Chained'
<1>1. /\ DOMAIN flights' = DOMAIN flights /\ chains' = <<>> /\ calls' = {}
      /\ flights' = [f \in Ids |-> [flights[f] EXCEPT !.again = @ \/ f \in restarted]]
      /\ \A f \in Ids : at'[f] \in {"queued", "over"}
  BY DEF Crash
<1>0. \A f \in Ids : flights[f] \in FlightSet
  BY ElementOfSeq, LenProperties DEF TypeOK
<1>2. \A f \in Ids :
        /\ flights'[f].pipeline = flights[f].pipeline /\ flights'[f].within = flights[f].within
        /\ flights'[f].chain = flights[f].chain /\ flights'[f].lineage = flights[f].lineage
        /\ flights'[f].from = flights[f].from /\ flights'[f].to = flights[f].to
  BY <1>0, <1>1 DEF FlightSet
<1>3. flights \in Seq(FlightSet) /\ flights' \in [1..Len(flights) -> FlightSet] => Len(flights') = Len(flights)
  BY LenProperties, SeqDef
<1>4. Len(flights') = Len(flights)
  <2>1. \A g \in FlightSet, b \in BOOLEAN : [g EXCEPT !.again = b] \in FlightSet
    BY DEF FlightSet
  <2>2. \A g \in FlightSet : g.again \in BOOLEAN
    BY DEF FlightSet
  <2>3. flights' \in [1..Len(flights) -> FlightSet]
    BY <1>0, <1>1, <2>1, <2>2, LenProperties DEF TypeOK
  <2>. QED
    BY <1>3, <2>3 DEF TypeOK
<1>5. FlightsSound'
  BY <1>1, <1>2, <1>4 DEF Chained, FlightsSound, Sound
<1>6. ChainsAgree'
  BY <1>1, <1>2 DEF Chained, ChainsAgree, Akin
<1>7. ChainsRecorded'
  BY <1>1 DEF ChainsRecorded
<1>8. LiveRecorded'
  BY <1>1 DEF LiveRecorded, Lives
<1>. QED
  BY <1>5, <1>6, <1>7, <1>8 DEF Chained

LEMMA TriggerKeeps ==
  ASSUME FloorAssumption, TypeOK, Chained, NEW w \in Workflows, NEW from \in {"clock", "person"},
         Trigger(w, from), UNCHANGED <<chains, calls>>
  PROVE  Chained'
<1>. DEFINE g == Flight(Entry[w], from, NewChain, ChainScope(w, {}), 0, from, {w})
<1>1. g \in FlightSet
  BY FreshTypes
<1>2. Sound(g)
  BY DEF Sound, Flight, ChainScope, FloorAssumption
<1>3. g.chain = NewChain
  BY DEF Flight
<1>4. Queue(g)
  BY DEF Trigger
<1>. HIDE DEF g
<1>. QED
  BY <1>1, <1>2, <1>3, <1>4, QueueKeeps

LEMMA ResumeKeeps ==
  ASSUME FloorAssumption, TypeOK, ReachInv, NEW l \in DOMAIN layovers, collecting \in Workflows,
         Queue(Resumption(l)), UNCHANGED <<chains, calls>>
  PROVE  Chained'
<1>. DEFINE g == Resumption(l)
<1>1. g \in FlightSet
  BY ResumptionTypes
<1>2. Sound(g)
  <2>1. layovers[l].lineage \subseteq {layovers[l].scope.pipeline} \cup layovers[l].scope.within
    BY DEF ReachInv, LayoversSound
  <2>. QED
    BY <2>1 DEF Sound, Resumption, Flight, ScopeResuming, ChainScope, FloorAssumption
<1>3. g.chain = NewChain
  BY DEF Resumption, Flight
<1>. HIDE DEF g
<1>. QED
  BY <1>1, <1>2, <1>3, QueueKeeps DEF g, ReachInv

LEMMA SendKeeps ==
  ASSUME FloorAssumption, TypeOK, Chained, NEW f \in Ids, NEW to \in Agents, Send(f, to)
  PROVE  Chained'
<1>. DEFINE g == Sent(f, to)
            here == flights[f]
<1>1. g \in FlightSet
  BY SentTypes
<1>2. ScopeOf(here.chain) = [pipeline |-> here.pipeline, within |-> here.within]
  BY LiveScope DEF Send, Calling, Lives
<1>3. Sound(here)
  BY DEF Chained, FlightsSound
<1>4. /\ g.pipeline = here.pipeline /\ g.within = here.within /\ g.lineage = here.lineage
      /\ g.from = here.to /\ g.to = to
      /\ g.chain = NewChain \/ g.chain = here.chain
  BY <1>2 DEF Sent, Flight
<1>5. \A w \in here.lineage : <<here.to, to>> \in Graph[w]
  BY <1>2, <1>3 DEF Send, Permits, Sound
<1>6. Sound(g)
  BY <1>3, <1>4, <1>5 DEF Sound
<1>7. Queue(g) /\ UNCHANGED chains /\ calls' \subseteq calls
  BY DEF Send
<1>. HIDE DEF g
<1>. QED
  BY <1>1, <1>4, <1>6, <1>7, QueueKeeps

LEMMA ReachStep ==
  ASSUME FloorAssumption, TypeOK, ReachInv, [Next]_vars
  PROVE  ReachInv'
<1>. DOMAIN layovers = 1..Len(layovers) /\ DOMAIN flights = 1..Len(flights)
  BY LenProperties DEF TypeOK
<1>. USE DEF ReachInv
<1>q. ASSUME UNCHANGED <<flights, at, chains>>, calls' \subseteq calls PROVE Chained'
  BY <1>q, QuietKeeps DEF Lives
<1>l. ASSUME UNCHANGED layovers PROVE LayoversSound'
  BY <1>l DEF LayoversSound
<1>c. ASSUME UNCHANGED <<pc, collecting>> PROVE Collecting'
  BY <1>c DEF Collecting
<1>1. CASE UNCHANGED vars
  BY <1>1, <1>q, <1>l, <1>c DEF vars, workVars, loopVars
<1>2. ASSUME NEW w \in Workflows, TickComes(w) PROVE ReachInv'
  BY <1>2, <1>q, <1>l, <1>c DEF TickComes, workVars, loopVars
<1>3. CASE ReadBusy
  BY <1>3, <1>q, <1>l DEF ReadBusy, workVars, Collecting
<1>4. CASE HoldTicks
  BY <1>4, <1>q, <1>l DEF HoldTicks, workVars, Collecting
<1>5. CASE ReadPending
  BY <1>5, <1>q, <1>l DEF ReadPending, workVars, Collecting
<1>6. CASE Decide
  BY <1>6, <1>q, <1>l DEF Decide, workVars, Collecting
<1>7. ASSUME NEW w \in Workflows, Fire(w) PROVE ReachInv'
  <2>1. Chained'
    BY <1>7, <1>q, TriggerKeeps DEF Fire, workVars
  <2>. QED
    BY <1>7, <2>1, <1>l, <1>c DEF Fire
<1>8. ASSUME NEW w \in Workflows, Collect(w) PROVE ReachInv'
  BY <1>8, <1>q, <1>l DEF Collect, workVars, Collecting
<1>9. ASSUME NEW l \in DOMAIN layovers, Resume(l) PROVE ReachInv'
  <2>1. collecting \in Workflows
    BY <1>9 DEF Resume, Collecting
  <2>2. Chained'
    BY <1>9, <2>1, <1>q, ResumeKeeps DEF Resume, workVars
  <2>. QED
    BY <1>9, <2>2, <1>l, <1>c DEF Resume
<1>10. CASE Mark
  <2>0. \A l \in DOMAIN layovers : layovers[l] \in LayoverSet
    BY ElementOfSeq DEF TypeOK
  <2>1. CASE layovers' = [layovers EXCEPT ![owed].standing = "resumed"]
    <3>1. \A l \in DOMAIN layovers : /\ layovers'[l].lineage = layovers[l].lineage
                                     /\ layovers'[l].scope = layovers[l].scope
      BY <2>0, <2>1 DEF LayoverSet
    <3>. QED
      BY <2>1, <3>1, <1>10, <1>q, <1>c DEF LayoversSound, Mark, workVars
  <2>2. CASE UNCHANGED layovers
    BY <2>2, <1>10, <1>q, <1>c, <1>l DEF Mark, workVars
  <2>. QED
    BY <1>10, <2>1, <2>2 DEF Mark
<1>11. CASE Collected
  BY <1>11, <1>q, <1>l DEF Collected, workVars, Collecting
<1>12. CASE Ticked
  BY <1>12, <1>q, <1>l DEF Ticked, workVars, Collecting
<1>13. ASSUME NEW f \in Ids, Launch(f) PROVE ReachInv'
  BY <1>13, LaunchKeeps, <1>l DEF Launch, Collecting
<1>14. ASSUME NEW f \in Ids, LaunchFails(f) PROVE ReachInv'
  <2>1. UNCHANGED <<flights, chains, calls>> /\ \A g \in Ids : at'[g] = IF g = f THEN "over" ELSE at[g]
    BY <1>14, MovedTypes DEF LaunchFails, Places
  <2>2. Chained'
    BY <2>1, QuietKeeps DEF Lives
  <2>. QED
    BY <1>14, <2>2, <1>l DEF LaunchFails, Collecting
<1>15. ASSUME NEW f \in Ids, Hold(f) PROVE ReachInv'
  <2>1. UNCHANGED <<flights, chains, calls>> /\ \A g \in Ids : at'[g] = IF g = f THEN "alive" ELSE at[g]
    BY <1>15, MovedTypes DEF Hold, Places
  <2>2. Chained'
    BY <1>15, <2>1, QuietKeeps DEF Lives, Hold
  <2>. QED
    BY <1>15, <2>2, <1>l DEF Hold, Collecting
<1>16. CASE Round
  BY <1>16, <1>q, <1>l DEF Round, workVars, Collecting
<1>17. ASSUME NEW f \in Ids, NEW to \in Agents, Send(f, to) PROVE ReachInv'
  BY <1>17, SendKeeps, <1>l, <1>c DEF Send, loopVars
<1>18. ASSUME NEW f \in Ids, Wait(f) PROVE ReachInv'
  <2>. DEFINE set == [agent |-> flights[f].to, scope |-> ScopeOf(flights[f].chain),
                      standing |-> "booked", lineage |-> flights[f].lineage]
  <2>1. ScopeOf(flights[f].chain) = [pipeline |-> flights[f].pipeline, within |-> flights[f].within]
    BY <1>18, LiveScope DEF Wait, Calling, Lives
  <2>2. set.lineage \subseteq {set.scope.pipeline} \cup set.scope.within
    <3>1. Sound(flights[f])
      BY DEF Chained, FlightsSound
    <3>. QED
      BY <2>1, <3>1 DEF Sound
  <2>3. set \in LayoverSet
    <3>1. flights[f] \in FlightSet /\ ScopeOf(flights[f].chain) \in Scopes
      BY ElementOfSeq, ScopeTypes DEF TypeOK
    <3>. QED
      BY <3>1 DEF LayoverSet, FlightSet
  <2>4. layovers' = Append(layovers, set)
    BY <1>18 DEF Wait
  <2>. HIDE DEF set
  <2>5. /\ DOMAIN layovers' = DOMAIN layovers \cup {Len(layovers) + 1}
        /\ \A l \in DOMAIN layovers : layovers'[l] = layovers[l]
        /\ layovers'[Len(layovers) + 1] = set
    BY <2>3, <2>4, AppendProperties, LenProperties DEF TypeOK
  <2>6. LayoversSound'
    BY <2>2, <2>5 DEF LayoversSound
  <2>. QED
    BY <1>18, <2>6, <1>q, <1>c DEF Wait, workVars, loopVars
<1>19. ASSUME NEW f \in Ids, Answered(f) PROVE ReachInv'
  BY <1>19, <1>q, <1>l, <1>c DEF Answered, workVars, loopVars
<1>20. ASSUME NEW f \in Ids, Finish(f) PROVE ReachInv'
  <2>1. UNCHANGED <<flights, chains>> /\ \A g \in Ids : at'[g] = IF g = f THEN "over" ELSE at[g]
    BY <1>20, MovedTypes DEF Finish, Places
  <2>2. Chained'
    BY <1>20, <2>1, QuietKeeps DEF Lives, Finish
  <2>. QED
    BY <1>20, <2>2, <1>l, <1>c DEF Finish, loopVars
<1>21. ASSUME NEW l \in DOMAIN layovers, Ripen(l) PROVE ReachInv'
  <2>1. LayoversSound'
    BY <1>21 DEF Ripen, LayoversSound
  <2>. QED
    BY <1>21, <2>1, <1>q, <1>c DEF Ripen, workVars, loopVars
<1>22. ASSUME NEW w \in Workflows, SendFlight(w) PROVE ReachInv'
  BY <1>22, TriggerKeeps, <1>l, <1>c DEF SendFlight, loopVars
<1>23. ASSUME NEW w \in Workflows, Switch(w) PROVE ReachInv'
  BY <1>23, <1>q, <1>l, <1>c DEF Switch, workVars, loopVars
<1>24. CASE SetDraining
  BY <1>24, <1>q, <1>l, <1>c DEF SetDraining, workVars, loopVars
<1>25. ASSUME NEW restarted \in SUBSET Ids, Crash(restarted) PROVE ReachInv'
  BY <1>25, CrashKeeps, <1>l DEF Crash, Collecting
<1>. QED
  BY <1>1, <1>2, <1>3, <1>4, <1>5, <1>6, <1>7, <1>8, <1>9, <1>10, <1>11, <1>12, <1>13, <1>14, <1>15,
     <1>16, <1>17, <1>18, <1>19, <1>20, <1>21, <1>22, <1>23, <1>24, <1>25 DEF Next, Loop

---------------------------------------------------------------------------
(* Layovers and tokens. *)

\* What was queued for a layover stays queued for it.
LEMMA ResumptionsStay ==
  ASSUME TypeOK, TypeOK', [Next]_vars
  PROVE  \A l : Resumptions(l) \subseteq Resumptions(l)'
<1>1. /\ DOMAIN flights \subseteq DOMAIN flights'
      /\ \A f \in DOMAIN flights : flights'[f].layover = flights[f].layover
  <2>1. CASE UNCHANGED flights
    BY <2>1
  <2>2. ASSUME NEW g, flights' = Append(flights, g) PROVE <1>1
    <3>1. /\ Len(flights') = Len(flights) + 1 /\ Len(flights) \in Nat
          /\ DOMAIN flights = 1..Len(flights) /\ DOMAIN flights' = 1..Len(flights')
          /\ \A f \in 1..Len(flights) : flights'[f] = flights[f]
      BY <2>2, LenProperties DEF TypeOK
    <3>. QED
      BY <3>1
  <2>3. ASSUME NEW restarted \in SUBSET Ids, Crash(restarted) PROVE <1>1
    <3>1. \A f \in Ids : flights[f] \in FlightSet
      BY ElementOfSeq, LenProperties DEF TypeOK
    <3>. QED
      BY <2>3, <3>1 DEF Crash, FlightSet
  <2>4. \/ UNCHANGED flights
        \/ \E g : flights' = Append(flights, g)
        \/ \E restarted \in SUBSET Ids : Crash(restarted)
    BY DEF Next, Loop, vars, workVars, loopVars, TickComes, ReadBusy, HoldTicks, ReadPending, Decide,
       Fire, Trigger, Queue, Collect, Resume, Mark, Collected, Ticked, Launch, LaunchFails, Hold, Moved,
       Round, Send, Wait, Answered, Finish, Ripen, SendFlight, Switch, SetDraining
  <2>. QED
    BY <2>1, <2>2, <2>3, <2>4
<1>. QED
  BY <1>1 DEF Resumptions

\* No step marks a layover but Mark, the one that is owed; and what is owed was just queued.
MarksOwed ==
  \A l \in DOMAIN layovers' : layovers'[l].standing = "resumed" =>
     \/ l \in DOMAIN layovers /\ layovers[l].standing = "resumed"
     \/ l = owed /\ owed # 0

OwesQueued == owed' = 0 \/ owed' = owed \/ Resumptions(owed)' # {}

LEMMA ResumeOwes ==
  ASSUME TypeOK, NEW l \in DOMAIN layovers, Resume(l)
  PROVE  OwesQueued
<1>1. CASE Queue(Resumption(l)) /\ owed' = l
  <2>1. flights' = Append(flights, Resumption(l)) /\ Resumption(l).layover = l
    BY <1>1 DEF Queue, Resumption, Flight
  <2>2. Len(flights) + 1 \in DOMAIN flights' /\ flights'[Len(flights) + 1] = Resumption(l)
    BY <2>1, LenProperties DEF TypeOK
  <2>3. Len(flights) + 1 \in Resumptions(l)'
    BY <2>1, <2>2 DEF Resumptions
  <2>. QED
    BY <1>1, <2>3 DEF OwesQueued, Resumptions
<1>2. CASE UNCHANGED owed
  BY <1>2 DEF OwesQueued
<1>. QED
  BY <1>1, <1>2 DEF Resume

LEMMA MarkedWasOwed ==
  ASSUME TypeOK, [Next]_vars
  PROVE  MarksOwed /\ OwesQueued
<1>. DOMAIN layovers = 1..Len(layovers) /\ Len(layovers) \in Nat
  BY LenProperties DEF TypeOK
<1>l. ASSUME UNCHANGED layovers PROVE MarksOwed
  BY <1>l DEF MarksOwed
<1>o. ASSUME owed' = 0 \/ UNCHANGED owed PROVE OwesQueued
  BY <1>o DEF OwesQueued
<1>1. ASSUME NEW l \in DOMAIN layovers, Resume(l) PROVE MarksOwed /\ OwesQueued
  BY <1>1, ResumeOwes, <1>l DEF Resume
<1>2. CASE Mark
  <2>1. \A l \in DOMAIN layovers \ {owed} : layovers'[l] = layovers[l]
    BY <1>2 DEF Mark
  <2>2. DOMAIN layovers' = DOMAIN layovers
    BY <1>2 DEF Mark
  <2>3. MarksOwed
    BY <1>2, <2>1, <2>2 DEF MarksOwed, Mark
  <2>. QED
    BY <1>2, <2>3, <1>o DEF Mark
<1>3. ASSUME NEW f \in Ids, Wait(f) PROVE MarksOwed /\ OwesQueued
  <2>1. /\ DOMAIN layovers' = DOMAIN layovers \cup {Len(layovers) + 1}
        /\ \A l \in DOMAIN layovers : layovers'[l] = layovers[l]
        /\ layovers'[Len(layovers) + 1].standing = "booked"
    BY <1>3, LenProperties DEF Wait, TypeOK
  <2>2. MarksOwed
    BY <2>1 DEF MarksOwed
  <2>. QED
    BY <1>3, <2>2, <1>o DEF Wait, loopVars
<1>4. ASSUME NEW k \in DOMAIN layovers, Ripen(k) PROVE MarksOwed /\ OwesQueued
  <2>1. layovers[k] \in LayoverSet
    BY ElementOfSeq DEF TypeOK
  <2>2. /\ DOMAIN layovers' = DOMAIN layovers
        /\ \A l \in DOMAIN layovers \ {k} : layovers'[l] = layovers[l]
        /\ layovers'[k].standing = "due"
    BY <1>4, <2>1 DEF Ripen, LayoverSet
  <2>3. MarksOwed
    BY <2>2 DEF MarksOwed
  <2>. QED
    BY <1>4, <2>3, <1>o DEF Ripen, loopVars
<1>5. ASSUME NEW restarted \in SUBSET Ids, Crash(restarted) PROVE MarksOwed /\ OwesQueued
  BY <1>5, <1>l, <1>o DEF Crash
<1>6. ASSUME UNCHANGED <<layovers, owed>> PROVE MarksOwed /\ OwesQueued
  BY <1>6, <1>l, <1>o
<1>7. \/ UNCHANGED <<layovers, owed>>
      \/ Mark
      \/ \E l \in DOMAIN layovers : Resume(l) \/ Ripen(l)
      \/ \E f \in Ids : Wait(f)
      \/ \E restarted \in SUBSET Ids : Crash(restarted)
  BY DEF Next, Loop, vars, workVars, loopVars, TickComes, ReadBusy, HoldTicks, ReadPending, Decide,
     Fire, Collect, Collected, Ticked, Launch, LaunchFails, Hold, Round, Send, Answered, Finish,
     SendFlight, Switch, SetDraining
<1>. QED
  BY <1>1, <1>2, <1>3, <1>4, <1>5, <1>6, <1>7

LEMMA OwedStep ==
  ASSUME TypeOK, TypeOK', OwedInv, [Next]_vars
  PROVE  OwedInv'
<1>1. \A l : Resumptions(l) \subseteq Resumptions(l)'
  BY ResumptionsStay
<1>2. MarksOwed /\ OwesQueued
  BY MarkedWasOwed
<1>3. \A l \in DOMAIN layovers' : layovers'[l].standing = "resumed" => Resumptions(l)' # {}
  BY <1>1, <1>2 DEF MarksOwed, OwedInv, OwedWorkIsQueued
<1>4. owed' # 0 => Resumptions(owed)' # {}
  <2>1. owed' = owed /\ owed # 0 => Resumptions(owed)' # {}
    <3>. SUFFICES ASSUME owed' = owed, owed # 0 PROVE Resumptions(owed)' # {}
      OBVIOUS
    <3>1. PICK f \in Ids : flights[f].layover = owed
      BY DEF OwedInv, Resumptions
    <3>2. f \in Ids' /\ flights'[f].layover = owed
      BY <1>1, <3>1 DEF Resumptions
    <3>. QED
      BY <3>2 DEF Resumptions
  <2>. QED
    BY <1>2, <2>1 DEF OwesQueued
<1>. QED
  BY <1>3, <1>4 DEF OwedInv, OwedWorkIsQueued, Resumptions

LEMMA TokensStep ==
  ASSUME TypeOK, TokensDieWithRuns, [Next]_vars
  PROVE  TokensDieWithRuns'
<1>. USE DEF TokensDieWithRuns, AtAny
<1>s. ASSUME UNCHANGED workVars, tokens' \subseteq tokens PROVE TokensDieWithRuns'
  BY <1>s DEF workVars
<1>q. ASSUME NEW g \in FlightSet, Queue(g), UNCHANGED tokens PROVE TokensDieWithRuns'
  BY <1>q, QueueTypes
<1>m. ASSUME NEW f \in Ids, NEW place \in Places, Moved(f, place),
             tokens' \subseteq tokens \cup {f},
             place \in {"starting", "alive"} \/ f \notin tokens'
      PROVE  TokensDieWithRuns'
  <2>1. \A g \in Ids : at'[g] = IF g = f THEN place ELSE at[g]
    BY <1>m, MovedTypes
  <2>2. UNCHANGED flights
    BY <1>m DEF Moved
  <2>. QED
    BY <1>m, <2>1, <2>2
<1>a. ASSUME NEW g, Queue(g), UNCHANGED tokens PROVE TokensDieWithRuns'
  <2>1. /\ DOMAIN flights \subseteq DOMAIN flights'
        /\ \A f \in DOMAIN flights : at'[f] = at[f]
    BY <1>a, LenProperties DEF Queue, TypeOK
  <2>. QED
    BY <1>a, <2>1
<1>1. ASSUME NEW f \in Ids, Launch(f) \/ LaunchFails(f) \/ Hold(f) \/ Finish(f)
      PROVE  TokensDieWithRuns'
  <2>1. CASE Launch(f)
    BY <2>1, <1>m DEF Launch, Places
  <2>2. CASE LaunchFails(f)
    BY <2>2, <1>m DEF LaunchFails, Places
  <2>3. CASE Hold(f)
    BY <2>3, <1>m DEF Hold, Places
  <2>4. CASE Finish(f)
    BY <2>4, <1>m DEF Finish, Places
  <2>. QED
    BY <1>1, <2>1, <2>2, <2>3, <2>4
<1>2. ASSUME NEW restarted \in SUBSET Ids, Crash(restarted) PROVE TokensDieWithRuns'
  BY <1>2 DEF Crash
<1>3. \/ UNCHANGED <<workVars, tokens>>
      \/ (\E g : Queue(g)) /\ UNCHANGED tokens
      \/ \E f \in Ids : Launch(f) \/ LaunchFails(f) \/ Hold(f) \/ Finish(f)
      \/ \E restarted \in SUBSET Ids : Crash(restarted)
  BY DEF Next, Loop, vars, workVars, loopVars, TickComes, ReadBusy, HoldTicks, ReadPending, Decide, Fire,
     Trigger,
     Collect, Resume, Mark, Collected, Ticked, Round, Send, Wait, Answered, Ripen, SendFlight, Switch,
     SetDraining
<1>. QED
  BY <1>s, <1>a, <1>1, <1>2, <1>3

---------------------------------------------------------------------------
(* Waves.  Where no call outlives its run, a workflow found idle stays     *)
(* idle until the loop has fired it: only the loop brings a run to life,   *)
(* and only a live run continues the work of a workflow.                   *)

Awake(w) == {f \in Ids : flights[f].pipeline = w /\ at[f] \in {"starting", "alive"}}

Idle(w) == Awake(w) = {} /\ Going(w) = {}

IdleInv ==
  /\ pc = "pending" => \A w \in Workflows \ busy : Awake(w) = {}
  /\ pc = "decide" => \A w \in Workflows \ (busy \cup pending) : Idle(w)
  /\ pc \in {"fire", "resume"} => \A w \in fire \ Overlapping : Idle(w)
  /\ pc = "resume" => collecting \notin fire

OneStarts ==
  /\ pc # "launch" => AtAny({"starting"}) = {}
  /\ \A f, g \in AtAny({"starting"}) : f = g
  /\ calls = {}

\* Places only ever empty: nothing is queued, and nobody comes to life.
LEMMA PlacesEmpty ==
  ASSUME TypeOK, UNCHANGED flights, \A f \in Ids : at'[f] = at[f] \/ at'[f] = "over"
  PROVE  \A w : (Awake(w) = {} => Awake(w)' = {}) /\ (Idle(w) => Idle(w)')
BY DEF Awake, Going, Idle

\* Something is queued, and concerns no other workflow than its own.
LEMMA QueueWakes ==
  ASSUME TypeOK, NEW g \in FlightSet, Queue(g), NEW w
  PROVE  /\ Awake(w) = {} => Awake(w)' = {}
         /\ Idle(w) /\ (g.pipeline # w \/ g.root # "clock") => Idle(w)'
<1>1. /\ DOMAIN flights' = DOMAIN flights \cup {Len(flights) + 1}
      /\ \A f \in DOMAIN flights : flights'[f] = flights[f] /\ at'[f] = at[f]
      /\ flights'[Len(flights) + 1] = g /\ at'[Len(flights) + 1] = "queued"
  BY QueueTypes
<1>. QED
  BY <1>1 DEF Awake, Going, Idle

LEMMA OneStartsStep ==
  ASSUME TypeOK, OneStarts, ~LateCalls, [Next]_vars
  PROVE  OneStarts'
<1>. USE DEF OneStarts, AtAny
<1>1. ASSUME NEW g, Queue(g), UNCHANGED pc, calls' \subseteq calls PROVE OneStarts'
  <2>1. /\ DOMAIN flights' = DOMAIN flights \cup {Len(flights) + 1}
        /\ \A f \in DOMAIN flights : at'[f] = at[f]
        /\ at'[Len(flights) + 1] = "queued"
    BY <1>1, LenProperties DEF Queue, TypeOK
  <2>. QED
    BY <1>1, <2>1
<1>2. ASSUME UNCHANGED workVars, calls' = {}, pc' = "launch" => pc = "launch", pc' = pc \/ pc # "launch"
      PROVE  OneStarts'
  BY <1>2 DEF workVars
<1>3. ASSUME NEW f \in Ids, Launch(f) PROVE OneStarts'
  BY <1>3, MovedTypes DEF Launch, Places
<1>4. ASSUME NEW f \in Ids, LaunchFails(f) PROVE OneStarts'
  BY <1>4, MovedTypes DEF LaunchFails, Places
<1>5. ASSUME NEW f \in Ids, Hold(f) PROVE OneStarts'
  BY <1>5, MovedTypes DEF Hold, Places
<1>6. ASSUME NEW f \in Ids, Finish(f) PROVE OneStarts'
  <2>1. calls' = {} /\ UNCHANGED pc
    BY <1>6 DEF Finish, loopVars
  <2>. QED
    BY <1>6, <2>1, MovedTypes DEF Finish, Places
<1>7. ASSUME NEW restarted \in SUBSET Ids, Crash(restarted) PROVE OneStarts'
  BY <1>7 DEF Crash
<1>8. \/ \E g : Queue(g) /\ UNCHANGED pc /\ calls' \subseteq calls
      \/ UNCHANGED workVars /\ calls' = {} /\ (pc' = "launch" => pc = "launch")
           /\ (pc' = pc \/ pc # "launch")
      \/ \E f \in Ids : Launch(f) \/ LaunchFails(f) \/ Hold(f) \/ Finish(f)
      \/ \E restarted \in SUBSET Ids : Crash(restarted)
  BY DEF Next, Loop, vars, workVars, loopVars, TickComes, ReadBusy, HoldTicks, ReadPending, Decide, Fire,
     Trigger, Collect, Resume, Mark, Collected, Ticked, Round, Send, Wait, Answered, Ripen, SendFlight,
     Switch, SetDraining
<1>. QED
  BY <1>1, <1>2, <1>3, <1>4, <1>5, <1>6, <1>7, <1>8

LEMMA IdleStep ==
  ASSUME FloorAssumption, TypeOK, ReachInv, OneStarts, IdleInv, ~LateCalls, ~Unreadable, [Next]_vars
  PROVE  IdleInv'
<1>. DOMAIN flights = 1..Len(flights)
  BY LenProperties DEF TypeOK
<1>. USE DEF IdleInv
<1>w. ASSUME UNCHANGED workVars
      PROVE  \A w : (Awake(w)' = {} <=> Awake(w) = {}) /\ (Idle(w)' <=> Idle(w))
  BY <1>w DEF Awake, Going, Idle, workVars
<1>s. ASSUME UNCHANGED <<workVars, pc, busy, pending, fire, collecting>> PROVE IdleInv'
  BY <1>s, <1>w
<1>o. ASSUME pc' \notin {"pending", "decide", "fire", "resume"} PROVE IdleInv'
  BY <1>o
<1>q. ASSUME NEW g \in FlightSet, Queue(g), UNCHANGED <<pc, busy, pending, collecting>>,
             fire' \subseteq fire,
             \/ g.root # "clock"
             \/ Awake(g.pipeline) # {}
             \/ pc \in {"fire", "resume"} /\ g.pipeline \notin fire'
      PROVE  IdleInv'
  <2>1. \A w : Idle(w) => Awake(w) = {}
    BY DEF Idle
  <2>2. ASSUME NEW w, Awake(w) = {} PROVE Awake(w)' = {}
    BY <1>q, <2>2, QueueWakes
  <2>3. pc' = "pending" => \A w \in Workflows \ busy' : Awake(w)' = {}
    BY <1>q, <2>2
  <2>4. ASSUME NEW w, Idle(w), pc \in {"fire", "resume"} => w \in fire' PROVE Idle(w)'
    <3>1. g.pipeline # w \/ g.root # "clock"
      BY <1>q, <2>1, <2>4
    <3>. QED
      BY <1>q, <2>4, <3>1, QueueWakes
  <2>5. pc' = "decide" => \A w \in Workflows \ (busy' \cup pending') : Idle(w)'
    BY <1>q, <2>4
  <2>6. pc' \in {"fire", "resume"} => \A w \in fire' \ Overlapping : Idle(w)'
    BY <1>q, <2>4
  <2>. QED
    BY <1>q, <2>3, <2>5, <2>6
<1>1. CASE UNCHANGED vars
  BY <1>1, <1>s DEF vars, workVars, loopVars
<1>2. ASSUME NEW w \in Workflows, TickComes(w) PROVE IdleInv'
  BY <1>2, <1>s DEF TickComes, workVars, loopVars
<1>3. CASE ReadBusy
  <2>1. ASSUME NEW f \in Ids, at[f] \in {"starting", "alive"} PROVE flights[f].pipeline \in busy'
    <3>1. at[f] = "alive"
      BY <1>3, <2>1 DEF ReadBusy, OneStarts, AtAny
    <3>2. ScopeOf(flights[f].chain) = [pipeline |-> flights[f].pipeline, within |-> flights[f].within]
      BY <3>1, LiveScope DEF Lives, ReachInv
    <3>. QED
      BY <1>3, <3>1, <3>2 DEF ReadBusy, AtAny
  <2>2. \A w \in Workflows \ busy' : Awake(w)' = {}
    BY <1>3, <2>1 DEF ReadBusy, Awake, workVars
  <2>. QED
    BY <1>3, <2>2 DEF ReadBusy
<1>4. CASE HoldTicks
  BY <1>4, <1>o DEF HoldTicks
<1>5. CASE ReadPending
  <2>1. \A f \in Ids : at[f] = "queued" => flights[f].pipeline \in pending'
    BY <1>5 DEF ReadPending, AtAny
  <2>2. \A f \in Ids : at[f] \in Places
    BY ElementOfSeq DEF TypeOK
  <2>3. \A w \in Workflows \ (busy \cup pending') : Awake(w) = {} /\ Going(w) = {}
    BY <1>5, <2>1, <2>2 DEF ReadPending, Awake, Going, Places
  <2>. QED
    BY <1>5, <2>3, <1>w DEF ReadPending, Idle
<1>6. CASE Decide
  <2>1. \A w \in fire' \ Overlapping : w \in Workflows \ (busy \cup pending)
    BY <1>6 DEF Decide, Working, TypeOK
  <2>2. \A w \in fire' \ Overlapping : Idle(w)'
    BY <1>6, <2>1, <1>w DEF Decide
  <2>. QED
    BY <1>6, <2>2 DEF Decide
<1>7. ASSUME NEW w \in Workflows, Fire(w) PROVE IdleInv'
  <2>. DEFINE g == Flight(Entry[w], "clock", NewChain, ChainScope(w, {}), 0, "clock", {w})
  <2>1. CASE Trigger(w, "clock")
    <3>1. g \in FlightSet
      BY FreshTypes
    <3>2. Queue(g) /\ g.pipeline = w
      BY <2>1 DEF Trigger, Flight, ChainScope
    <3>. HIDE DEF g
    <3>. QED
      BY <1>7, <3>1, <3>2, <1>q DEF Fire
  <2>2. CASE UNCHANGED workVars
    BY <1>7, <2>2, <1>w DEF Fire
  <2>. QED
    BY <1>7, <2>1, <2>2 DEF Fire
<1>8. ASSUME NEW w \in Workflows, Collect(w) PROVE IdleInv'
  BY <1>8, <1>w DEF Collect
<1>9. ASSUME NEW l \in DOMAIN layovers, Resume(l) PROVE IdleInv'
  <2>. DEFINE g == Resumption(l)
  <2>1. CASE Queue(g)
    <3>1. g \in FlightSet
      BY <1>9, ResumptionTypes DEF Resume, ReachInv, Collecting
    <3>2. g.pipeline = collecting
      BY DEF Resumption, Flight, ScopeResuming, ChainScope
    <3>. HIDE DEF g
    <3>. QED
      BY <1>9, <2>1, <3>1, <3>2, <1>q DEF Resume
  <2>2. CASE UNCHANGED workVars
    BY <1>9, <2>2, <1>s DEF Resume
  <2>. QED
    BY <1>9, <2>1, <2>2 DEF Resume
<1>10. CASE Mark
  BY <1>10, <1>s DEF Mark
<1>11. CASE Collected
  BY <1>11, <1>w DEF Collected
<1>12. CASE Ticked
  BY <1>12, <1>o DEF Ticked
<1>13. ASSUME NEW f \in Ids, Launch(f) \/ LaunchFails(f) \/ Hold(f) PROVE IdleInv'
  BY <1>13, <1>o DEF Launch, LaunchFails, Hold
<1>14. CASE Round
  BY <1>14, <1>o DEF Round
<1>15. ASSUME NEW f \in Ids, NEW to \in Agents, Send(f, to) PROVE IdleInv'
  <2>. DEFINE g == Sent(f, to)
  <2>1. g \in FlightSet
    BY SentTypes
  <2>2. at[f] = "alive"
    BY <1>15 DEF Send, Calling, OneStarts
  <2>3. g.pipeline = flights[f].pipeline
    <3>1. ScopeOf(flights[f].chain) = [pipeline |-> flights[f].pipeline, within |-> flights[f].within]
      BY <2>2, LiveScope DEF Lives, ReachInv
    <3>. QED
      BY <3>1 DEF Sent, Flight
  <2>4. Awake(g.pipeline) # {}
    BY <2>2, <2>3 DEF Awake
  <2>5. Queue(g) /\ UNCHANGED loopVars
    BY <1>15 DEF Send
  <2>. HIDE DEF g
  <2>. QED
    BY <2>1, <2>4, <2>5, <1>q DEF loopVars
<1>16. ASSUME NEW f \in Ids, Wait(f) \/ Answered(f) PROVE IdleInv'
  BY <1>16, <1>s DEF Wait, Answered, loopVars
<1>17. ASSUME NEW f \in Ids, Finish(f) PROVE IdleInv'
  <2>1. UNCHANGED <<flights, loopVars>> /\ \A g \in Ids : at'[g] = at[g] \/ at'[g] = "over"
    BY <1>17, MovedTypes DEF Finish, Places
  <2>2. \A w : (Awake(w) = {} => Awake(w)' = {}) /\ (Idle(w) => Idle(w)')
    BY <2>1, PlacesEmpty
  <2>. QED
    BY <2>1, <2>2 DEF loopVars
<1>18. ASSUME NEW l \in DOMAIN layovers, Ripen(l) PROVE IdleInv'
  BY <1>18, <1>s DEF Ripen, loopVars
<1>19. ASSUME NEW w \in Workflows, SendFlight(w) PROVE IdleInv'
  <2>. DEFINE g == Flight(Entry[w], "person", NewChain, ChainScope(w, {}), 0, "person", {w})
  <2>1. g \in FlightSet
    BY FreshTypes
  <2>2. Queue(g) /\ g.root # "clock" /\ UNCHANGED loopVars
    BY <1>19 DEF SendFlight, Trigger, Flight
  <2>. HIDE DEF g
  <2>. QED
    BY <2>1, <2>2, <1>q DEF loopVars
<1>20. ASSUME NEW w \in Workflows, Switch(w) PROVE IdleInv'
  BY <1>20, <1>s DEF Switch, loopVars
<1>21. CASE SetDraining
  BY <1>21, <1>s DEF SetDraining, loopVars
<1>22. ASSUME NEW restarted \in SUBSET Ids, Crash(restarted) PROVE IdleInv'
  BY <1>22, <1>o DEF Crash
<1>. QED
  BY <1>1, <1>2, <1>3, <1>4, <1>5, <1>6, <1>7, <1>8, <1>9, <1>10, <1>11, <1>12, <1>13, <1>14, <1>15,
     <1>16, <1>17, <1>18, <1>19, <1>20, <1>21, <1>22 DEF Next, Loop

---------------------------------------------------------------------------
(* One flight for a layover, as long as nothing fails and the Tower lives. *)

For(l) == \E f \in Ids : flights[f].layover = l

OneEach ==
  /\ \A f \in Ids : flights[f].layover \in {0} \cup DOMAIN layovers
  /\ \A f, g \in Ids : flights[f].layover = flights[g].layover => f = g \/ flights[f].layover = 0
  /\ \A l \in DOMAIN layovers : layovers[l].standing # "resumed" /\ l # owed => ~For(l)
  /\ \A l \in shelf : layovers[l].standing # "resumed"

OnceInv ==
  /\ faults \in Nat /\ crashes \in Nat
  /\ faults = 0 /\ crashes = 0 => OneEach

LEMMA OneEachStep ==
  ASSUME TypeOK, OneEach, [Next]_vars, faults' = faults, crashes' = crashes,
         faults \in Nat, crashes \in Nat
  PROVE  OneEach'
<1>. USE DEF OneEach, For
<1>0. /\ DOMAIN layovers = 1..Len(layovers) /\ Len(layovers) \in Nat
      /\ DOMAIN flights = 1..Len(flights) /\ Len(flights) \in Nat
  BY LenProperties DEF TypeOK
<1>l. \A l \in DOMAIN layovers : layovers[l] \in LayoverSet
  BY ElementOfSeq DEF TypeOK
<1>1. ASSUME NEW g, Queue(g), g.layover = 0, UNCHANGED <<layovers, shelf, owed>> PROVE OneEach'
  <2>1. /\ DOMAIN flights' = DOMAIN flights \cup {Len(flights) + 1}
        /\ \A f \in DOMAIN flights : flights'[f] = flights[f]
        /\ flights'[Len(flights) + 1] = g
    BY <1>1, LenProperties DEF Queue, TypeOK
  <2>2. 0 \notin DOMAIN layovers
    BY <1>0
  <2>. QED
    BY <1>1, <2>1, <2>2
<1>2. ASSUME NEW l \in DOMAIN layovers, Resume(l) PROVE OneEach'
  <2>1. Queue(Resumption(l)) /\ owed' = l /\ UNCHANGED <<shelf, layovers>> /\ l \in shelf /\ owed = 0
    BY <1>2 DEF Resume
  <2>2. flights' = Append(flights, Resumption(l)) /\ Resumption(l).layover = l
    BY <2>1 DEF Queue, Resumption, Flight
  <2>3. /\ DOMAIN flights' = DOMAIN flights \cup {Len(flights) + 1}
        /\ \A f \in DOMAIN flights : flights'[f] = flights[f]
        /\ flights'[Len(flights) + 1].layover = l
    BY <2>2, LenProperties DEF TypeOK
  <2>4. /\ \A f \in Ids : flights[f].layover # l
        /\ l # 0
    BY <2>1, <1>0
  <2>5. (\A f \in Ids : flights[f].layover \in {0} \cup DOMAIN layovers)'
    BY <2>1, <2>3
  <2>6. (\A f, g \in Ids : flights[f].layover = flights[g].layover => f = g \/ flights[f].layover = 0)'
    BY <2>1, <2>3, <2>4
  <2>7. (\A k \in DOMAIN layovers : layovers[k].standing # "resumed" /\ k # owed => ~For(k))'
    <3>1. \A k \in DOMAIN layovers : k # 0
      BY <1>0
    <3>. QED
      BY <2>1, <2>3, <3>1
  <2>8. (\A k \in shelf : layovers[k].standing # "resumed")'
    BY <2>1
  <2>. QED
    BY <2>5, <2>6, <2>7, <2>8
<1>3. CASE Mark
  <2>0. owed \in DOMAIN layovers /\ layovers' = [layovers EXCEPT ![owed].standing = "resumed"]
    BY <1>3 DEF Mark, TypeOK
  <2>1. /\ \A l \in DOMAIN layovers \ {owed} : layovers'[l] = layovers[l]
        /\ layovers'[owed].standing = "resumed" /\ DOMAIN layovers' = DOMAIN layovers
    BY <2>0, <1>l DEF LayoverSet
  <2>. QED
    BY <1>3, <2>1 DEF Mark, workVars, TypeOK
<1>4. ASSUME NEW f \in Ids, Wait(f) PROVE OneEach'
  <2>1. /\ DOMAIN layovers' = DOMAIN layovers \cup {Len(layovers) + 1}
        /\ \A l \in DOMAIN layovers : layovers'[l] = layovers[l]
    BY <1>4, LenProperties DEF Wait, TypeOK
  <2>2. UNCHANGED <<flights, shelf, owed>>
    BY <1>4 DEF Wait, workVars, loopVars
  <2>3. ~For(Len(layovers) + 1)
    BY <1>0
  <2>. QED
    BY <2>1, <2>2, <2>3 DEF TypeOK
<1>5. ASSUME NEW k \in DOMAIN layovers, Ripen(k) PROVE OneEach'
  <2>1. /\ DOMAIN layovers' = DOMAIN layovers
        /\ \A l \in DOMAIN layovers \ {k} : layovers'[l] = layovers[l]
        /\ layovers[k].standing = "booked" /\ layovers'[k].standing = "due"
    BY <1>5, <1>l DEF Ripen, LayoverSet
  <2>. QED
    BY <1>5, <2>1 DEF Ripen, workVars, loopVars
<1>6. ASSUME NEW w \in Workflows, Collect(w) PROVE OneEach'
  BY <1>6 DEF Collect, Due, workVars
<1>7. ASSUME UNCHANGED <<flights, layovers, shelf, owed>> PROVE OneEach'
  BY <1>7
<1>8. ~ \E restarted \in SUBSET Ids : Crash(restarted)
  BY DEF Crash
<1>9. \/ \E g : Queue(g) /\ g.layover = 0 /\ UNCHANGED <<layovers, shelf, owed>>
      \/ \E l \in DOMAIN layovers : Resume(l) \/ Ripen(l)
      \/ Mark
      \/ \E f \in Ids : Wait(f)
      \/ \E w \in Workflows : Collect(w)
      \/ UNCHANGED <<flights, layovers, shelf, owed>>
  <2>1. ASSUME NEW f \in Ids, NEW to \in Agents, Send(f, to)
        PROVE  Queue(Sent(f, to)) /\ Sent(f, to).layover = 0 /\ UNCHANGED <<layovers, shelf, owed>>
    BY <2>1 DEF Send, Sent, Flight, loopVars
  <2>2. ASSUME NEW w \in Workflows, SendFlight(w)
        PROVE  \E g : Queue(g) /\ g.layover = 0 /\ UNCHANGED <<layovers, shelf, owed>>
    BY <2>2 DEF SendFlight, Trigger, Flight, loopVars
  <2>3. ASSUME NEW w \in Workflows, Fire(w)
        PROVE  \/ \E g : Queue(g) /\ g.layover = 0 /\ UNCHANGED <<layovers, shelf, owed>>
               \/ UNCHANGED <<flights, layovers, shelf, owed>>
    BY <2>3 DEF Fire, Trigger, Flight, workVars
  <2>. QED
    BY <1>8, <2>1, <2>2, <2>3
    DEF Next, Loop, vars, workVars, loopVars, TickComes, ReadBusy, HoldTicks, ReadPending, Decide,
        Collected, Ticked, Launch, LaunchFails, Hold, Moved, Round, Answered, Finish, Switch, SetDraining
<1>. QED
  BY <1>1, <1>2, <1>3, <1>4, <1>5, <1>6, <1>7, <1>9

LEMMA OnceStep ==
  ASSUME TypeOK, OnceInv, [Next]_vars
  PROVE  OnceInv'
<1>1. /\ faults' = faults \/ faults' = faults + 1
      /\ crashes' = crashes \/ crashes' = crashes + 1
  BY DEF Next, Loop, vars, bounds, workVars, loopVars, TickComes, ReadBusy, HoldTicks, ReadPending, Decide,
     Fire, Collect, Resume, Mark, Collected, Ticked, Launch, LaunchFails, Hold, Round, Send, Wait, Answered,
     Finish, Ripen, SendFlight, Switch, SetDraining, Crash
<1>. QED
  BY <1>1, OneEachStep DEF OnceInv

---------------------------------------------------------------------------

LEMMA TypeInit == ASSUME FloorAssumption, Init PROVE TypeOK /\ ReachInv /\ OwedInv /\ TokensDieWithRuns
<1>1. TypeOK
  BY EmptySeq DEF Init, TypeOK
<1>2. ReachInv
  BY DEF Init, ReachInv, Chained, FlightsSound, ChainsAgree, ChainsRecorded, LiveRecorded, LayoversSound,
     Collecting
<1>3. OwedInv
  BY DEF Init, OwedInv, OwedWorkIsQueued
<1>4. TokensDieWithRuns
  BY DEF Init, TokensDieWithRuns
<1>. QED
  BY <1>1, <1>2, <1>3, <1>4

\* What each part says of its variables holds always, for any factory, bounds and number of restarts.
THEOREM TypeCorrect == Spec => [](TypeOK /\ ReachInv)
<1>1. Init => TypeOK /\ ReachInv
  BY TypeInit, FloorAssumption
<1>2. (TypeOK /\ ReachInv) /\ [Next]_vars => (TypeOK /\ ReachInv)'
  BY TypeStep, ReachStep, FloorAssumption DEF ReachInv
<1>. QED
  BY <1>1, <1>2, PTL DEF Spec

\* No agent ever sends along a route that one of the workflows its work has been through lacks.
THEOREM ReachIsKept == Spec => []ReachNeverWidens
<1>1. TypeOK /\ ReachInv => ReachNeverWidens
  BY DEF ReachInv, Chained, FlightsSound, Sound, ReachNeverWidens
<1>. QED
  BY <1>1, TypeCorrect, PTL

\* A layover marked as resumed has been queued, whatever failed or went away in between.
THEOREM MarkedWorkWasQueued == Spec => []OwedWorkIsQueued
<1>1. Init => OwedInv
  BY TypeInit, FloorAssumption
<1>2. TypeOK /\ TypeOK' /\ OwedInv /\ [Next]_vars => OwedInv'
  BY OwedStep
<1>3. OwedInv => OwedWorkIsQueued
  BY DEF OwedInv
<1>. QED
  BY <1>1, <1>2, <1>3, TypeCorrect, PTL DEF Spec

\* No token is live whose run is neither starting nor alive.
THEOREM NoTokenOutlivesItsRun == Spec => []TokensDieWithRuns
<1>1. Init => TokensDieWithRuns
  BY TypeInit, FloorAssumption
<1>2. TypeOK /\ TokensDieWithRuns /\ [Next]_vars => TokensDieWithRuns'
  BY TokensStep
<1>. QED
  BY <1>1, <1>2, TypeCorrect, PTL DEF Spec

\* A schedule whose waves may not overlap never starts its workflow while work a clock set off for it
\* is under way, provided that no call of a run is carried out after its run is over and that the
\* queue can be read.
THEOREM NoSecondWaveStarts == ASSUME ~LateCalls, ~Unreadable PROVE Spec => NoSecondWave
<1>1. Init => OneStarts /\ IdleInv
  BY DEF Init, OneStarts, IdleInv, AtAny
<1>2. TypeOK /\ ReachInv /\ OneStarts /\ IdleInv /\ [Next]_vars => (OneStarts /\ IdleInv)'
  BY OneStartsStep, IdleStep, FloorAssumption
<1>3. TypeOK /\ IdleInv => \A w \in Workflows \ Overlapping : pc = "fire" /\ w \in fire \ fire' => Going(w) = {}
  BY DEF IdleInv, Idle
<1>4. TypeOK /\ IdleInv =>
        [\A w \in Workflows \ Overlapping : pc = "fire" /\ w \in fire \ fire' => Going(w) = {}]_vars
  BY <1>3
<1>. QED
  BY <1>1, <1>2, <1>4, TypeCorrect, PTL DEF Spec, NoSecondWave

\* As long as nothing fails and the Tower lives, a layover is queued at most once.
THEOREM QueuedOnce == Spec => []ResumedOnce
<1>1. Init => OnceInv
  BY DEF Init, OnceInv, OneEach, For
<1>2. TypeOK /\ OnceInv /\ [Next]_vars => OnceInv'
  BY OnceStep
<1>3. TypeOK /\ OnceInv => ResumedOnce
  <2>. SUFFICES ASSUME TypeOK, OneEach, NEW l \in DOMAIN layovers
                PROVE  Cardinality(Resumptions(l)) <= 1
    BY DEF OnceInv, ResumedOnce
  <2>0. l # 0
    BY LenProperties DEF TypeOK
  <2>1. CASE Resumptions(l) = {}
    BY <2>1, FS_EmptySet
  <2>2. ASSUME NEW f \in Resumptions(l) PROVE Cardinality(Resumptions(l)) <= 1
    <3>1. Resumptions(l) = {f}
      BY <2>0, <2>2 DEF Resumptions, OneEach
    <3>2. Cardinality({f}) = 1
      BY FS_Singleton
    <3>. QED
      BY <3>1, <3>2
  <2>. QED
    BY <2>1, <2>2
<1>. QED
  BY <1>1, <1>2, <1>3, TypeCorrect, PTL DEF Spec
=============================================================================
