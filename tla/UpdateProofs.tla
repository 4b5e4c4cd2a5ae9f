---------------------------- MODULE UpdateProofs ----------------------------
(***************************************************************************)
(* That a Tower starts work only while it holds serving.lock, through any  *)
(* number of installs, crashes and restarts: as long as nobody asks for an *)
(* install while one is under way, and nobody starts a Tower in place      *)
(* while another hands over.                                               *)
(*                                                                         *)
(* Most of the time the lock itself is the argument: whoever is past       *)
(* claiming holds it.  A Tower that hands over in place gives it up and    *)
(* may take it back without looking who has it.  That it finds nobody      *)
(* there needs OneLine (nobody is up beside it but the successor it waits  *)
(* for, and kills before it goes on) and SuccessorSettles (the successor   *)
(* hands over to no third Tower meanwhile), which in turn needs the        *)
(* request it would do that for to be the one already handed over for.     *)
(*                                                                         *)
(* And that a request is said to be applied only with what it asked for in *)
(* place.  What says so is a Tower of that version that answers; that its  *)
(* version is the one in place is PlaceInv, which the lock keeps: nobody   *)
(* else is there to change the binary, but one that has yet to claim it,   *)
(* and was started from a binary that may have been replaced since.        *)
(***************************************************************************)
EXTENDS Update, TLAPS

Holders == {"arriving", "recording", "reverting", "reverted", "opening", "looping", "serving",
            "draining", "ready", "swapped", "written", "stopping"}
Handing == {"handing", "waiting", "undoing", "undone"}
Changing == {"draining", "ready", "swapped", "written"} \cup Handing

SuccessorOf(p, q) == tower[p].at = "waiting" /\ tower[p].child = q

HoldersHold == \A p \in Slots : tower[p].at \in Holders => serving = p
LockIsTheLivings == serving # Nobody => Up(serving)
ClaimingIsWithout == \A p \in Slots : tower[p].at = "claiming" => serving # p
ChangingDrains == \A p \in Slots : tower[p].at \in Changing \cup {"stopping"} => tower[p].drains
HandingIsInPlace == \A p \in Slots : tower[p].at \in Handing => ~supervised
OneLine ==
  ~supervised => \A p, q \in Slots :
    p # q /\ Up(p) /\ Up(q) => SuccessorOf(p, q) \/ SuccessorOf(q, p)
SuccessorSettles == \A p, q \in Slots : SuccessorOf(p, q) => tower[q].at \notin Changing
ChangingIsAsked ==
  \A p \in Slots : tower[p].at \in Changing /\ IsOpen(request) => request = tower[p].asked
WrittenIsHandedOver ==
  \A p \in Slots : tower[p].at \in {"written"} \cup Handing /\ IsOpen(request) => HandedOver(request)
AskedByNow == request # Nothing => request.at <= asked

LockHeld ==
  /\ HoldersHold
  /\ LockIsTheLivings
  /\ ClaimingIsWithout
  /\ ChangingDrains
  /\ HandingIsInPlace
  /\ OneLine
  /\ SuccessorSettles

AskStands ==
  /\ ChangingIsAsked
  /\ WrittenIsHandedOver
  /\ AskedByNow

LockInv == LockHeld /\ AskStands

Places == {"off", "claiming"} \cup Holders \cup Handing

Requests ==
  {Nothing} \cup
    [version: Versions, rollback: BOOLEAN, by: {"dashboard", "watcher", "shell"}, at: Nat,
     outcome: {"none", "cancelled", "failed", "postponed", "applied", "rolled_back"}]

Asks ==
  {Nothing} \cup
    [version: Versions, rollback: BOOLEAN, by: {"dashboard", "watcher", "shell"}, at: Nat,
     outcome: {"none"}]

Records == [from: Versions, to: Versions, started: Nat, boots: 0..MaxBoots,
            late: BOOLEAN, state: {"open", "healthy", "back"}]

Keepings == [Versions -> Versions \cup {NoVersion}]

Works == [at: {"queued", "alive", "cut", "over"}, owner: Slots \cup {Nobody}]

\* A process that is up is some version; one that installs was asked to; one that waits has a child,
\* which is never itself.
Runs(x) ==
  /\ x.at # "off" => x.version \in Versions
  /\ x.at \in Changing => x.asked # Nothing
  /\ x.at = "waiting" => x.child \in Slots

Running == \A p \in Slots : Runs(tower[p]) /\ tower[p].child # p

----------------------------------------------------------------------------
(* Types. *)

LEMMA ProcessesHave ==
  Processes = [at: Places, version: Versions \cup {NoVersion}, drains: BOOLEAN,
               child: Slots \cup {Nobody}, proof: {"none", "due", "answered"}, asked: Asks]
BY DEF Processes, Places, Holders, Handing, Asks

LEMMA TypesHave ==
  TypeOK <=>
    /\ binary \in Versions /\ kept \in Keepings /\ skipped \subseteq Versions
    /\ request \in Requests /\ record \in Records
    /\ serving \in Slots \cup {Nobody}
    /\ tower \in [Slots -> Processes]
    /\ work \in [Tasks -> Works]
    /\ stop \in BOOLEAN /\ asked \in Nat /\ mishaps \in Nat
BY DEF TypeOK, Requests, Records, Keepings, Works

\* One process changes, to what a process may be.
LEMMA OneTower ==
  ASSUME tower \in [Slots -> Processes], Running, NEW p \in Slots,
         NEW x \in Processes, Runs(x), x.child \in {tower[p].child, Nobody},
         tower' = [tower EXCEPT ![p] = x]
  PROVE  tower' \in [Slots -> Processes] /\ Running'
BY UpdateAssumption DEF Running, Runs

LEMMA Placed ==
  ASSUME tower \in [Slots -> Processes], Running, NEW p \in Slots, Up(p),
         NEW place \in Places, Goto(p, place),
         place \in Changing => tower[p].at \in Changing,
         place = "waiting" => tower[p].child \in Slots
  PROVE  tower' \in [Slots -> Processes] /\ Running'
<1> DEFINE x == [tower[p] EXCEPT !.at = place]
<1>1. x \in Processes /\ Runs(x) /\ x.child \in {tower[p].child, Nobody}
  BY ProcessesHave DEF Running, Runs, Up
<1>2. tower' = [tower EXCEPT ![p] = x]
  BY DEF Goto
<1>. QED
  BY <1>1, <1>2, OneTower

LEMMA AbsentTypes == Absent \in Processes /\ Runs(Absent) /\ Absent.child = Nobody
BY DEF Absent, Processes, Runs, Changing, Handing

LEMMA BeginTypes ==
  ASSUME binary \in Versions, NEW p
  PROVE  Begin(p) \in Processes /\ Runs(Begin(p)) /\ Begin(p).child = Nobody
BY DEF Begin, Absent, Processes, Runs, Changing, Handing

LEMMA LeftTypes ==
  ASSUME work \in [Tasks -> Works], NEW p
  PROVE  Left(p) \in [Tasks -> Works]
BY DEF Left, Works

LEMMA SettleTypes ==
  ASSUME work \in [Tasks -> Works], NEW ts
  PROVE  Settle(ts) \in [Tasks -> Works]
BY DEF Settle, Works

LEMMA GoneTypes ==
  ASSUME TypeOK, Running, NEW p \in Slots, Gone(p)
  PROVE  /\ tower' \in [Slots -> Processes] /\ Running'
         /\ serving' \in Slots \cup {Nobody}
         /\ work' \in [Tasks -> Works]
<1>1. tower' \in [Slots -> Processes] /\ Running'
  BY AbsentTypes, OneTower, TypesHave DEF Gone
<1>. QED
  BY <1>1, LeftTypes, TypesHave DEF Gone, Release

LEMMA ResumeTypes ==
  ASSUME TypeOK, Running, NEW p \in Slots, Up(p), Resume(p)
  PROVE  /\ tower' \in [Slots -> Processes] /\ Running'
         /\ serving' \in Slots \cup {Nobody}
         /\ work' \in [Tasks -> Works]
<1>1. Resumed(p) \in Processes /\ Runs(Resumed(p)) /\ Resumed(p).child = Nobody
  <2>1. tower[p] \in Processes /\ Runs(tower[p])
    BY TypesHave DEF Running
  <2>. QED
    BY <2>1, ProcessesHave DEF Resumed, Runs, Changing, Handing, Up, Places, Holders
<1>2. tower' \in [Slots -> Processes] /\ Running'
  BY <1>1, OneTower, TypesHave DEF Resume
<1>. QED
  BY <1>2, SettleTypes, TypesHave DEF Resume

LEMMA ProgressTypes ==
  ASSUME request \in Requests,
         NEW o \in {"none", "cancelled", "failed", "postponed", "applied", "rolled_back"}
  PROVE  Progress(o) \in Requests
BY DEF Progress, Requests, Nothing

LEMMA AskedIs ==
  ASSUME TypeOK, Running, NEW p \in Slots, tower[p].at \in Changing
  PROVE  /\ tower[p].asked \in Asks \ {Nothing}
         /\ tower[p].asked.version \in Versions
         /\ tower[p].asked.rollback \in BOOLEAN
<1>1. tower[p].asked \in Asks \ {Nothing}
  BY TypesHave, ProcessesHave DEF Running, Runs
<1>. QED
  BY <1>1 DEF Asks

LEMMA VersionIs ==
  ASSUME TypeOK, Running, NEW p \in Slots, Up(p)
  PROVE  tower[p].version \in Versions
BY DEF Running, Runs, Up

LEMMA KeptIs ==
  ASSUME kept \in Keepings, NEW v \in Versions, IsKept(v)
  PROVE  kept[v] \in Versions
BY DEF Keepings, IsKept

LEMMA KeepTypes ==
  ASSUME kept \in Keepings, NEW v, NEW x \in Versions \cup {NoVersion}
  PROVE  [kept EXCEPT ![v] = x] \in Keepings
BY DEF Keepings

LEMMA PutBackTypes ==
  ASSUME kept \in Keepings, binary \in Versions, mishaps \in Nat,
         NEW v \in Versions, PutBack(v)
  PROVE  binary' \in Versions /\ mishaps' \in Nat
BY KeptIs DEF PutBack, Mishap

LEMMA TypesStep ==
  ASSUME TypeOK, Running, [Next]_vars
  PROVE  TypeOK' /\ Running'
<1>0. /\ binary \in Versions /\ kept \in Keepings /\ skipped \subseteq Versions
      /\ request \in Requests /\ record \in Records
      /\ serving \in Slots \cup {Nobody}
      /\ tower \in [Slots -> Processes]
      /\ work \in [Tasks -> Works]
      /\ stop \in BOOLEAN /\ asked \in Nat /\ mishaps \in Nat
  BY TypesHave
<1>t. ASSUME /\ binary' \in Versions /\ kept' \in Keepings /\ skipped' \subseteq Versions
             /\ request' \in Requests /\ record' \in Records
             /\ serving' \in Slots \cup {Nobody}
             /\ tower' \in [Slots -> Processes]
             /\ work' \in [Tasks -> Works]
             /\ stop' \in BOOLEAN /\ asked' \in Nat /\ mishaps' \in Nat
      PROVE  TypeOK'
  BY <1>t DEF TypeOK, Requests, Records, Keepings, Works
<1>1. ASSUME NEW p \in Slots, Start(p) PROVE TypeOK' /\ Running'
  <2>1. tower' \in [Slots -> Processes] /\ Running'
    BY <1>0, <1>1, BeginTypes, OneTower DEF Start
  <2>. QED
    BY <1>0, <1>t, <2>1, <1>1 DEF Start, Mishap, Rigid, files, bounds
<1>2. ASSUME NEW p \in Slots, Claim(p) PROVE TypeOK' /\ Running'
  <2>1. tower' \in [Slots -> Processes] /\ Running'
    <3>1. CASE Goto(p, "arriving")
      BY <1>0, <1>2, <3>1, Placed DEF Claim, Up, Places, Holders, Handing, Changing
    <3>2. CASE tower' = [tower EXCEPT ![p] = Absent]
      BY <1>0, <3>2, AbsentTypes, OneTower
    <3>. QED
      BY <1>2, <3>1, <3>2 DEF Claim
  <2>. QED
    BY <1>0, <1>t, <2>1, <1>2 DEF Claim, Rigid, files, bounds
<1>3. ASSUME NEW p \in Slots, ArriveRequest(p) PROVE TypeOK' /\ Running'
  <2>1. tower' \in [Slots -> Processes] /\ Running'
    BY <1>0, <1>3, Placed DEF ArriveRequest, Up, Places, Holders, Handing, Changing
  <2>. QED
    BY <1>0, <1>t, <2>1, <1>3, ProgressTypes DEF ArriveRequest, Rigid, files, bounds
<1>4. ASSUME NEW p \in Slots, ArriveRecord(p) PROVE TypeOK' /\ Running'
  <2> DEFINE x == [tower[p] EXCEPT !.at = "opening", !.proof = "due"]
  <2>1. tower' \in [Slots -> Processes] /\ Running'
    <3>1. CASE \E place \in {"reverting", "opening"} : Goto(p, place)
      BY <1>0, <1>4, <3>1, Placed DEF ArriveRecord, Up, Places, Holders, Handing, Changing
    <3>2. CASE tower' = [tower EXCEPT ![p].at = "opening", ![p].proof = "due"]
      <4>1. x \in Processes /\ Runs(x) /\ x.child \in {tower[p].child, Nobody}
        <5>1. tower[p] \in Processes /\ Runs(tower[p]) /\ tower[p].at # "off"
          BY <1>0, <1>4 DEF ArriveRecord, Running
        <5>2. "opening" \in Places /\ "opening" # "waiting" /\ "opening" \notin Changing
          BY DEF Places, Holders, Handing, Changing
        <5>. QED
          BY <5>1, <5>2, ProcessesHave DEF Runs
      <4>2. tower' = [tower EXCEPT ![p] = x]
        BY <1>0, <3>2
      <4>. QED
        BY <1>0, <4>1, <4>2, OneTower
    <3>. QED
      BY <1>4, <3>1, <3>2 DEF ArriveRecord
  <2>2. kept' \in Keepings
    <3>1. [kept EXCEPT ![record.from] = NoVersion] \in Keepings
      BY <1>0, KeepTypes
    <3>. QED
      BY <1>0, <1>4, <3>1 DEF ArriveRecord
  <2>. QED
    BY <1>0, <1>t, <2>1, <2>2, <1>4, VersionIs
    DEF ArriveRecord, SkipOf, Records, MaxBoots, Up, Rigid, files, bounds
<1>5. ASSUME NEW p \in Slots, Revert(p) PROVE TypeOK' /\ Running'
  <2>1. tower' \in [Slots -> Processes] /\ Running'
    BY <1>0, <1>5, Placed DEF Revert, Up, Places, Holders, Handing, Changing
  <2>. QED
    BY <1>0, <1>t, <2>1, <1>5, PutBackTypes DEF Revert, Records, Rigid, files, bounds
<1>6. ASSUME NEW p \in Slots, Reverted(p) PROVE TypeOK' /\ Running'
  <2>1. /\ tower' \in [Slots -> Processes] /\ Running'
        /\ serving' \in Slots \cup {Nobody} /\ work' \in [Tasks -> Works]
    BY <1>6, GoneTypes DEF Reverted
  <2>. QED
    BY <1>0, <1>t, <2>1, <1>6, ProgressTypes DEF Reverted, SkipOf, Records, Rigid, files, bounds
<1>7. ASSUME NEW p \in Slots, Dies(p) PROVE TypeOK' /\ Running'
  <2>1. /\ tower' \in [Slots -> Processes] /\ Running'
        /\ serving' \in Slots \cup {Nobody} /\ work' \in [Tasks -> Works]
    BY <1>7, GoneTypes DEF Dies
  <2>. QED
    BY <1>0, <1>t, <2>1, <1>7 DEF Dies, Rigid, files, bounds
<1>8. ASSUME NEW p \in Slots, Open(p) PROVE TypeOK' /\ Running'
  <2>1. tower' \in [Slots -> Processes] /\ Running'
    BY <1>0, <1>8, Placed DEF Open, Up, Places, Holders, Handing, Changing
  <2>. QED
    BY <1>0, <1>t, <2>1, <1>8, SettleTypes DEF Open, Rigid, files, bounds
<1>9. ASSUME NEW p \in Slots, Bind(p) PROVE TypeOK' /\ Running'
  <2>1. tower' \in [Slots -> Processes] /\ Running'
    BY <1>0, <1>9, Placed DEF Bind, Up, Places, Holders, Handing, Changing
  <2>. QED
    BY <1>0, <1>t, <2>1, <1>9 DEF Bind, Rigid, files, bounds
<1>10. ASSUME NEW p \in Slots, TakeStop(p) PROVE TypeOK' /\ Running'
  <2> DEFINE x == [tower[p] EXCEPT !.at = "stopping", !.drains = TRUE]
  <2>1. tower' \in [Slots -> Processes] /\ Running'
    <3>1. x \in Processes /\ Runs(x) /\ x.child \in {tower[p].child, Nobody}
      <4>1. tower[p] \in Processes /\ Runs(tower[p]) /\ tower[p].at # "off"
        BY <1>0, <1>10 DEF TakeStop, Running
      <4>2. "stopping" \in Places /\ "stopping" # "waiting" /\ "stopping" \notin Changing
        BY DEF Places, Holders, Handing, Changing
      <4>. QED
        BY <4>1, <4>2, ProcessesHave DEF Runs
    <3>2. tower' = [tower EXCEPT ![p] = x]
      BY <1>0, <1>10 DEF TakeStop
    <3>. QED
      BY <1>0, <3>1, <3>2, OneTower
  <2>. QED
    BY <1>0, <1>t, <2>1, <1>10 DEF TakeStop, Rigid, files, bounds
<1>11. ASSUME NEW p \in Slots, TakeRequest(p) PROVE TypeOK' /\ Running'
  <2> DEFINE x == [tower[p] EXCEPT !.at = "draining", !.drains = TRUE, !.asked = request]
  <2>0. request \in Asks \ {Nothing}
    BY <1>0, <1>11 DEF TakeRequest, IsOpen, Requests, Asks
  <2>1. tower' \in [Slots -> Processes] /\ Running'
    <3>1. x \in Processes /\ Runs(x) /\ x.child \in {tower[p].child, Nobody}
      <4>1. tower[p] \in Processes /\ Runs(tower[p]) /\ tower[p].at # "off"
        BY <1>0, <1>11 DEF TakeRequest, Running
      <4>2. "draining" \in Places /\ "draining" # "waiting"
        BY DEF Places, Holders, Handing, Changing
      <4>. QED
        BY <4>1, <4>2, <2>0, ProcessesHave DEF Runs
    <3>2. tower' = [tower EXCEPT ![p] = x]
      BY <1>0, <1>11 DEF TakeRequest
    <3>. QED
      BY <1>0, <3>1, <3>2, OneTower
  <2>. QED
    BY <1>0, <1>t, <2>1, <1>11 DEF TakeRequest, Rigid, files, bounds
<1>12. ASSUME NEW p \in Slots, DrainStopped(p) PROVE TypeOK' /\ Running'
  <2>1. tower' \in [Slots -> Processes] /\ Running'
    BY <1>0, <1>12, Placed DEF DrainStopped, Up, Places, Holders, Handing, Changing
  <2>. QED
    BY <1>0, <1>t, <2>1, <1>12, ProgressTypes DEF DrainStopped, Rigid, files, bounds
<1>13. ASSUME NEW p \in Slots, DrainAbandoned(p) PROVE TypeOK' /\ Running'
  <2> DEFINE x == [tower[p] EXCEPT !.at = "serving", !.drains = FALSE]
  <2>1. tower' \in [Slots -> Processes] /\ Running'
    <3>1. x \in Processes /\ Runs(x) /\ x.child \in {tower[p].child, Nobody}
      <4>1. tower[p] \in Processes /\ Runs(tower[p]) /\ tower[p].at # "off"
        BY <1>0, <1>13 DEF DrainAbandoned, Running
      <4>2. "serving" \in Places /\ "serving" # "waiting" /\ "serving" \notin Changing
        BY DEF Places, Holders, Handing, Changing
      <4>. QED
        BY <4>1, <4>2, ProcessesHave DEF Runs
    <3>2. tower' = [tower EXCEPT ![p] = x]
      BY <1>0, <1>13 DEF DrainAbandoned
    <3>. QED
      BY <1>0, <3>1, <3>2, OneTower
  <2>. QED
    BY <1>0, <1>t, <2>1, <1>13 DEF DrainAbandoned, Rigid, files, bounds
<1>14. ASSUME NEW p \in Slots, DrainQuiet(p) PROVE TypeOK' /\ Running'
  <2>1. tower' \in [Slots -> Processes] /\ Running'
    BY <1>0, <1>14, Placed DEF DrainQuiet, StillAsked, Up, Places, Holders, Handing, Changing
  <2>. QED
    BY <1>0, <1>t, <2>1, <1>14 DEF DrainQuiet, StillAsked, Rigid, files, bounds
<1>15. ASSUME NEW p \in Slots, Postpone(p) PROVE TypeOK' /\ Running'
  <2> DEFINE x == [tower[p] EXCEPT !.at = "serving", !.drains = FALSE]
  <2>1. tower' \in [Slots -> Processes] /\ Running'
    <3>1. x \in Processes /\ Runs(x) /\ x.child \in {tower[p].child, Nobody}
      <4>1. tower[p] \in Processes /\ Runs(tower[p]) /\ tower[p].at # "off"
        BY <1>0, <1>15 DEF Postpone, StillAsked, Running
      <4>2. "serving" \in Places /\ "serving" # "waiting" /\ "serving" \notin Changing
        BY DEF Places, Holders, Handing, Changing
      <4>. QED
        BY <4>1, <4>2, ProcessesHave DEF Runs
    <3>2. tower' = [tower EXCEPT ![p] = x]
      BY <1>0, <1>15 DEF Postpone
    <3>. QED
      BY <1>0, <3>1, <3>2, OneTower
  <2>. QED
    BY <1>0, <1>t, <2>1, <1>15, ProgressTypes DEF Postpone, StillAsked, Rigid, files, bounds
<1>16. ASSUME NEW p \in Slots, CutOff(p) PROVE TypeOK' /\ Running'
  <2>1. tower' \in [Slots -> Processes] /\ Running'
    BY <1>0, <1>16, Placed DEF CutOff, StillAsked, Up, Places, Holders, Handing, Changing
  <2>. QED
    BY <1>0, <1>t, <2>1, <1>16 DEF CutOff, AliveOf, Of, Works, StillAsked, Rigid, files, bounds
<1>17. ASSUME NEW p \in Slots, Stops(p) PROVE TypeOK' /\ Running'
  <2>1. /\ tower' \in [Slots -> Processes] /\ Running'
        /\ serving' \in Slots \cup {Nobody} /\ work' \in [Tasks -> Works]
    BY <1>17, GoneTypes DEF Stops
  <2>. QED
    BY <1>0, <1>t, <2>1, <1>17 DEF Stops, Rigid, files, bounds
<1>18. ASSUME NEW p \in Slots, Swap(p) PROVE TypeOK' /\ Running'
  <2>1. tower' \in [Slots -> Processes] /\ Running'
    BY <1>0, <1>18, Placed DEF Swap, Up, Places, Holders, Handing, Changing
  <2>2. binary' \in Versions
    BY <1>0, <1>18, AskedIs, KeptIs DEF Swap, HasSource, SourceOf, Changing
  <2>3. kept' \in Keepings
    BY <1>0, <1>18, KeepTypes DEF Swap
  <2>. QED
    BY <1>0, <1>t, <2>1, <2>2, <2>3, <1>18 DEF Swap, Rigid, files, bounds
<1>19. ASSUME NEW p \in Slots, SwapFails(p) PROVE TypeOK' /\ Running'
  <2>1. /\ tower' \in [Slots -> Processes] /\ Running'
        /\ serving' \in Slots \cup {Nobody} /\ work' \in [Tasks -> Works]
    BY <1>19, ResumeTypes DEF SwapFails, Up
  <2>2. kept' \in Keepings
    <3>1. [kept EXCEPT ![tower[p].version] = NoVersion] \in Keepings
      BY <1>0, KeepTypes
    <3>. QED
      BY <1>0, <1>19, <3>1 DEF SwapFails
  <2>. QED
    BY <1>0, <1>t, <2>1, <2>2, <1>19, ProgressTypes DEF SwapFails, Mishap, Rigid, files, bounds
<1>20. ASSUME NEW p \in Slots, WriteHandover(p) PROVE TypeOK' /\ Running'
  <2>1. tower' \in [Slots -> Processes] /\ Running'
    BY <1>0, <1>20, Placed DEF WriteHandover, Up, Places, Holders, Handing, Changing
  <2>. QED
    BY <1>0, <1>t, <2>1, <1>20, AskedIs, VersionIs
    DEF WriteHandover, Handover, Records, MaxBoots, Up, Changing, Rigid, files, bounds
<1>21. ASSUME NEW p \in Slots, WriteHandoverFails(p) PROVE TypeOK' /\ Running'
  <2>1. /\ tower' \in [Slots -> Processes] /\ Running'
        /\ serving' \in Slots \cup {Nobody} /\ work' \in [Tasks -> Works]
    BY <1>21, ResumeTypes DEF WriteHandoverFails, Up
  <2>. QED
    BY <1>0, <1>t, <2>1, <1>21, ProgressTypes, VersionIs, KeptIs
    DEF WriteHandoverFails, Mishap, Up, Rigid, files, bounds
<1>22. ASSUME NEW p \in Slots, Exit75(p) PROVE TypeOK' /\ Running'
  <2>1. /\ tower' \in [Slots -> Processes] /\ Running'
        /\ serving' \in Slots \cup {Nobody} /\ work' \in [Tasks -> Works]
    BY <1>22, GoneTypes DEF Exit75
  <2>. QED
    BY <1>0, <1>t, <2>1, <1>22 DEF Exit75, Rigid, files, bounds
<1>23. ASSUME NEW p \in Slots, GiveUpServing(p) PROVE TypeOK' /\ Running'
  <2>1. tower' \in [Slots -> Processes] /\ Running'
    BY <1>0, <1>23, Placed DEF GiveUpServing, Up, Places, Holders, Handing, Changing
  <2>. QED
    BY <1>0, <1>t, <2>1, <1>23 DEF GiveUpServing, Release, Rigid, files, bounds
<1>24. ASSUME NEW p \in Slots, SuccessorFails(p) PROVE TypeOK' /\ Running'
  <2>1. tower' \in [Slots -> Processes] /\ Running'
    BY <1>0, <1>24, Placed DEF SuccessorFails, Up, Places, Holders, Handing, Changing
  <2>. QED
    BY <1>0, <1>t, <2>1, <1>24 DEF SuccessorFails, Mishap, Rigid, files, bounds
<1>25. ASSUME NEW p \in Slots, Answered(p) PROVE TypeOK' /\ Running'
  <2>1. /\ tower' \in [Slots -> Processes] /\ Running'
        /\ serving' \in Slots \cup {Nobody} /\ work' \in [Tasks -> Works]
    BY <1>25, GoneTypes DEF Answered
  <2>. QED
    BY <1>0, <1>t, <2>1, <1>25, ProgressTypes, AskedIs
    DEF Answered, Outcome, Changing, Handing, Rigid, files, bounds
<1>26. ASSUME NEW p \in Slots, NotAnswered(p) PROVE TypeOK' /\ Running'
  <2> DEFINE q == tower[p].child
             x == [tower[p] EXCEPT !.at = "undoing", !.child = Nobody]
  <2>0. q \in Slots
    BY <1>26 DEF NotAnswered, Running, Runs
  <2>1. tower' \in [Slots -> Processes] /\ Running'
    <3>1. x \in Processes /\ Runs(x) /\ x.child \in {tower[p].child, Nobody}
      <4>1. tower[p] \in Processes /\ Runs(tower[p]) /\ tower[p].at # "off" /\ tower[p].at \in Changing
        BY <1>0, <1>26 DEF NotAnswered, Running, Changing, Handing
      <4>2. "undoing" \in Places /\ "undoing" # "waiting"
        BY DEF Places, Holders, Handing, Changing
      <4>. QED
        BY <4>1, <4>2, ProcessesHave DEF Runs
    <3>2. p # q => tower' = [tower EXCEPT ![q] = Absent, ![p] = x]
      BY <1>0, <2>0, <1>26 DEF NotAnswered
    <3>3. p # q
      BY DEF Running
    <3>4. \A r \in Slots : tower'[r] = IF r = p THEN x ELSE IF r = q THEN Absent ELSE tower[r]
      BY <1>0, <2>0, <3>2, <3>3
    <3>5. tower' \in [Slots -> Processes]
      BY <1>0, <2>0, <3>1, <3>2, <3>3, AbsentTypes
    <3>. QED
      BY <3>1, <3>4, <3>5, AbsentTypes, UpdateAssumption DEF Running
  <2>. QED
    BY <1>0, <1>t, <2>1, <1>26, LeftTypes DEF NotAnswered, Release, Mishap, Rigid, files, bounds
<1>27. ASSUME NEW p \in Slots, Undo(p) PROVE TypeOK' /\ Running'
  <2>1. tower' \in [Slots -> Processes] /\ Running'
    BY <1>0, <1>27, Placed DEF Undo, Up, Places, Holders, Handing, Changing
  <2>. QED
    BY <1>0, <1>t, <2>1, <1>27, VersionIs, PutBackTypes DEF Undo, Up, Rigid, files, bounds
<1>28. ASSUME NEW p \in Slots, Undone(p) PROVE TypeOK' /\ Running'
  <2>1. /\ tower' \in [Slots -> Processes] /\ Running'
        /\ serving' \in Slots \cup {Nobody} /\ work' \in [Tasks -> Works]
    BY <1>28, ResumeTypes DEF Undone, Up
  <2>. QED
    BY <1>0, <1>t, <2>1, <1>28, ProgressTypes, AskedIs
    DEF Undone, SkipOf, Changing, Handing, Records, Rigid, files, bounds
<1>29. ASSUME NEW p \in Slots, Prove(p) PROVE TypeOK' /\ Running'
  <2> DEFINE x == [tower[p] EXCEPT !.proof = "answered"]
  <2>1. tower' \in [Slots -> Processes] /\ Running'
    <3>1. x \in Processes /\ Runs(x) /\ x.child \in {tower[p].child, Nobody}
      BY <1>0, <1>29, ProcessesHave DEF Prove, Up, Running, Runs, Places, Holders, Handing, Changing
    <3>2. tower' = [tower EXCEPT ![p] = x]
      BY <1>0, <1>29 DEF Prove
    <3>. QED
      BY <1>0, <3>1, <3>2, OneTower
  <2>. QED
    BY <1>0, <1>t, <2>1, <1>29, ProgressTypes DEF Prove, Outcome, Rigid, files, bounds
<1>30. ASSUME NEW p \in Slots, Proved(p) PROVE TypeOK' /\ Running'
  <2> DEFINE x == [tower[p] EXCEPT !.proof = "none"]
  <2>1. tower' \in [Slots -> Processes] /\ Running'
    <3>1. x \in Processes /\ Runs(x) /\ x.child \in {tower[p].child, Nobody}
      BY <1>0, <1>30, ProcessesHave
      DEF Proved, Up, Running, Runs, Places, Holders, Handing, Changing
    <3>2. tower' = [tower EXCEPT ![p] = x]
      BY <1>0, <1>30 DEF Proved
    <3>. QED
      BY <1>0, <3>1, <3>2, OneTower
  <2>. QED
    BY <1>0, <1>t, <2>1, <1>30 DEF Proved, Records, Rigid, files, bounds
<1>31. ASSUME NEW p \in Slots, ProofGivenUp(p) PROVE TypeOK' /\ Running'
  <2> DEFINE x == [tower[p] EXCEPT !.proof = "none"]
  <2>1. tower' \in [Slots -> Processes] /\ Running'
    <3>1. x \in Processes /\ Runs(x) /\ x.child \in {tower[p].child, Nobody}
      BY <1>0, <1>31, ProcessesHave
      DEF ProofGivenUp, Up, Running, Runs, Places, Holders, Handing, Changing
    <3>2. tower' = [tower EXCEPT ![p] = x]
      BY <1>0, <1>31 DEF ProofGivenUp
    <3>. QED
      BY <1>0, <3>1, <3>2, OneTower
  <2>. QED
    BY <1>0, <1>t, <2>1, <1>31 DEF ProofGivenUp, Mishap, Rigid, files, bounds
<1>32. ASSUME NEW p \in Slots, Crash(p) PROVE TypeOK' /\ Running'
  <2>1. /\ tower' \in [Slots -> Processes] /\ Running'
        /\ serving' \in Slots \cup {Nobody} /\ work' \in [Tasks -> Works]
    BY <1>32, GoneTypes DEF Crash
  <2>. QED
    BY <1>0, <1>t, <2>1, <1>32 DEF Crash, Mishap, Rigid, files, bounds
<1>33. ASSUME NEW p \in Slots, NEW q \in Slots, StartSuccessor(p, q) PROVE TypeOK' /\ Running'
  <2> DEFINE x == [tower[p] EXCEPT !.at = "waiting", !.child = q]
  <2>1. x \in Processes /\ Runs(x) /\ x.child = q
    BY <1>0, <1>33, ProcessesHave
    DEF StartSuccessor, Running, Runs, Places, Holders, Handing, Changing
  <2>2. p # q
    BY <1>33 DEF StartSuccessor, IsFree, Up
  <2>3. tower' = [tower EXCEPT ![q] = Begin(q), ![p] = x]
    BY <1>0, <1>33, <2>2 DEF StartSuccessor
  <2>4. tower' \in [Slots -> Processes] /\ Running'
    <3>1. \A r \in Slots : tower'[r] = IF r = p THEN x ELSE IF r = q THEN Begin(q) ELSE tower[r]
      BY <1>0, <2>2, <2>3
    <3>2. tower' \in [Slots -> Processes]
      BY <1>0, <2>1, <2>2, <2>3, BeginTypes
    <3>3. Runs(x) /\ x.child # p /\ Runs(Begin(q)) /\ Begin(q).child # q
      BY <1>0, <2>1, <2>2, BeginTypes, UpdateAssumption
    <3>4. \A r \in Slots : Runs(tower'[r]) /\ tower'[r].child # r
      <4> HIDE DEF x
      <4>. QED
        BY <3>1, <3>3 DEF Running
    <3>. QED
      BY <3>2, <3>4 DEF Running, Runs
  <2>. QED
    BY <1>0, <1>t, <1>33, <2>4 DEF StartSuccessor, Rigid, files, bounds
<1>34. ASSUME NEW p \in Slots, NEW t \in Tasks, Launch(p, t) PROVE TypeOK' /\ Running'
  BY <1>0, <1>t, <1>34 DEF Launch, Works, Running, Rigid, files, bounds
<1>35. ASSUME NEW t \in Tasks, RunEnds(t) PROVE TypeOK' /\ Running'
  BY <1>0, <1>t, <1>35 DEF RunEnds, Works, Running, Rigid, files, bounds
<1>36. ASSUME NEW p \in Slots, NEW by \in {"dashboard", "watcher"}, AskToInstall(p, by)
      PROVE  TypeOK' /\ Running'
  BY <1>0, <1>t, <1>36, UpdateAssumption
  DEF AskToInstall, Ask, Requests, Versions, Running, Rigid, files, bounds
<1>37. ASSUME AskFromShell PROVE TypeOK' /\ Running'
  BY <1>0, <1>t, <1>37, UpdateAssumption
  DEF AskFromShell, Ask, Requests, Versions, Running, Rigid, files, bounds
<1>38. ASSUME AskToRollBack PROVE TypeOK' /\ Running'
  BY <1>0, <1>t, <1>38
  DEF AskToRollBack, Ask, SkipOf, Requests, Records, Running, Rigid, files, bounds
<1>39. ASSUME CancelInstall PROVE TypeOK' /\ Running'
  BY <1>0, <1>t, <1>39, ProgressTypes DEF CancelInstall, Mishap, Running, Rigid, files, bounds
<1>40. ASSUME Replace PROVE TypeOK' /\ Running'
  <2>1. Newest \in Versions /\ record.from \in Versions
    BY <1>0, UpdateAssumption DEF Versions, Records
  <2>2. /\ binary' \in Versions /\ skipped' \subseteq Versions
        /\ \E v \in Versions :
             record' = [from |-> binary, to |-> v, started |-> asked + 1, boots |-> 0,
                        late |-> FALSE, state |-> "healthy"]
    <3>1. PICK v \in {Newest, record.from} :
            /\ \/ v = Newest /\ binary' = v /\ UNCHANGED skipped
               \/ IsKept(v) /\ binary' = kept[v] /\ skipped' = SkipOf(binary)
            /\ record' = [from |-> binary, to |-> v, started |-> asked + 1, boots |-> 0,
                          late |-> FALSE, state |-> "healthy"]
      BY <1>40 DEF Replace, Handover
    <3>2. v \in Versions
      BY <2>1
    <3>3. binary' \in Versions /\ skipped' \subseteq Versions
      BY <1>0, <3>1, <3>2, KeptIs DEF SkipOf
    <3>. QED
      BY <3>1, <3>2, <3>3
  <2>3. record' \in Records
    BY <1>0, <2>2 DEF Records, MaxBoots
  <2>4. kept' \in Keepings
    BY <1>0, <1>40, KeepTypes DEF Replace
  <2>. QED
    BY <1>0, <1>t, <1>40, <2>2, <2>3, <2>4 DEF Replace, Running, Rigid, files, bounds
<1>41. ASSUME AskToStop PROVE TypeOK' /\ Running'
  BY <1>0, <1>t, <1>41 DEF AskToStop, Mishap, Running, Rigid, files, bounds
<1>42. ASSUME TimePasses PROVE TypeOK' /\ Running'
  <2>1. record' \in Records
    BY <1>0, <1>42 DEF TimePasses, Records
  <2>2. mishaps' \in Nat
    BY <1>0, <1>42 DEF TimePasses, Mishap
  <2>. QED
    BY <1>0, <1>t, <1>42, <2>1, <2>2 DEF TimePasses, Running, Rigid, files, bounds
<1>43. ASSUME UNCHANGED vars PROVE TypeOK' /\ Running'
  BY <1>0, <1>t, <1>43 DEF vars, Running, Rigid, files, bounds
<1>. QED
  BY <1>1, <1>2, <1>3, <1>4, <1>5, <1>6, <1>7, <1>8, <1>9, <1>10, <1>11, <1>12, <1>13, <1>14,
     <1>15, <1>16, <1>17, <1>18, <1>19, <1>20, <1>21, <1>22, <1>23, <1>24, <1>25, <1>26, <1>27,
     <1>28, <1>29, <1>30, <1>31, <1>32, <1>33, <1>34, <1>35, <1>36, <1>37, <1>38, <1>39, <1>40,
     <1>41, <1>42, <1>43
  DEF Next, Arriving, Draining, HandingOver, Proving, Asking

LEMMA TypesInit == Init => TypeOK /\ Running
<1>. SUFFICES ASSUME Init PROVE TypeOK /\ Running
  OBVIOUS
<1>1. Installed \in Versions /\ Installed - 1 \in Versions
  BY UpdateAssumption DEF Versions
<1>2. tower \in [Slots -> Processes] /\ Running
  BY AbsentTypes, UpdateAssumption DEF Init, Running
<1>. QED
  <2>1. request \in Requests /\ work \in [Tasks -> Works]
    BY DEF Init, Requests, Works
  <2>2. record \in Records
    BY <1>1 DEF Init, Records, MaxBoots
  <2>3. kept \in Keepings
    BY DEF Init, Keepings
  <2>. QED
    BY <1>1, <1>2, <2>1, <2>2, <2>3, TypesHave DEF Init

----------------------------------------------------------------------------
(* The lock. *)

\* What a step leaves of the processes: all of them but p's.
Only(p) == \A q \in Slots : q # p => tower'[q] = tower[q]

LEMMA GotoIs ==
  ASSUME TypeOK, NEW p \in Slots, NEW place, Goto(p, place)
  PROVE  /\ Only(p)
         /\ tower'[p].at = place /\ tower'[p].drains = tower[p].drains
         /\ tower'[p].child = tower[p].child /\ tower'[p].asked = tower[p].asked
BY TypesHave, ProcessesHave DEF Goto, Only

\* A process that holds the lock goes on holding it.
LEMMA Moves ==
  ASSUME LockHeld, NEW p \in Slots, Only(p), UNCHANGED <<serving, supervised>>,
         tower[p].at \in Holders, tower'[p].at \in Holders, tower'[p].child = tower[p].child,
         tower'[p].at \in Changing \cup {"stopping"} => tower'[p].drains,
         tower'[p].at \in Changing =>
           tower[p].at \in Changing \/ \A q \in Slots : ~SuccessorOf(q, p)
  PROVE  LockHeld'
<1>0. /\ "waiting" \notin Holders /\ "claiming" \notin Holders /\ "off" \notin Holders
      /\ \A h \in Handing : h \notin Holders
  BY DEF Holders, Handing
<1>1. \A q, r \in Slots : SuccessorOf(q, r)' => SuccessorOf(q, r)
  BY <1>0 DEF Only, SuccessorOf
<1>2. \A q \in Slots : Up(q)' => Up(q)
  BY <1>0 DEF Only, Up
<1>3. HoldersHold' /\ ClaimingIsWithout'
  BY <1>0 DEF LockHeld, HoldersHold, ClaimingIsWithout, Only
<1>4. LockIsTheLivings'
  BY <1>0 DEF LockHeld, HoldersHold, LockIsTheLivings, Only, Up
<1>5. ChangingDrains' /\ HandingIsInPlace'
  BY <1>0 DEF LockHeld, ChangingDrains, HandingIsInPlace, Only
<1>6. OneLine'
  <2>1. \A q, r \in Slots : SuccessorOf(q, r) => SuccessorOf(q, r)'
    BY <1>0 DEF Only, SuccessorOf
  <2>. QED
    BY <1>2, <2>1 DEF LockHeld, OneLine
<1>7. SuccessorSettles'
  BY <1>1 DEF LockHeld, SuccessorSettles, Only
<1>. QED
  BY <1>3, <1>4, <1>5, <1>6, <1>7 DEF LockHeld

\* Nobody goes anywhere.
LEMMA Stays ==
  ASSUME LockHeld, UNCHANGED <<serving, supervised>>, serving \in Slots \cup {Nobody},
         \A q \in Slots : /\ tower'[q].at = tower[q].at
                          /\ tower'[q].drains = tower[q].drains
                          /\ tower'[q].child = tower[q].child
  PROVE  LockHeld'
BY DEF LockHeld, HoldersHold, LockIsTheLivings, ClaimingIsWithout, ChangingDrains,
       HandingIsInPlace, OneLine, SuccessorSettles, SuccessorOf, Up

\* A process ends, and its lock with it.
LEMMA Ends ==
  ASSUME TypeOK, LockHeld, NEW p \in Slots, UNCHANGED supervised,
         tower' = [tower EXCEPT ![p] = Absent],
         serving' = Release(p) \/ (serving' = serving /\ tower[p].at = "claiming")
  PROVE  LockHeld'
<1>0. /\ Only(p) /\ tower'[p].at = "off" /\ serving \in Slots \cup {Nobody}
      /\ "off" \notin Holders \cup Handing \cup Changing \cup {"stopping", "claiming", "waiting"}
  BY TypesHave DEF Only, Absent, Holders, Handing, Changing
<1>1. serving' = IF serving = p THEN Nobody ELSE serving
  BY DEF LockHeld, ClaimingIsWithout, Release
<1>2. \A q \in Slots : tower'[q].at \in Holders => q # p /\ tower[q].at \in Holders
  BY <1>0 DEF Only
<1>3. HoldersHold'
  BY <1>1, <1>2 DEF LockHeld, HoldersHold
<1>4. LockIsTheLivings' /\ ClaimingIsWithout'
  BY <1>0, <1>1, UpdateAssumption
  DEF LockHeld, LockIsTheLivings, ClaimingIsWithout, Only, Up
<1>5. ChangingDrains' /\ HandingIsInPlace'
  BY <1>0 DEF LockHeld, ChangingDrains, HandingIsInPlace, Only
<1>6. OneLine' /\ SuccessorSettles'
  BY <1>0 DEF LockHeld, OneLine, SuccessorSettles, SuccessorOf, Only, Up
<1>. QED
  BY <1>3, <1>4, <1>5, <1>6 DEF LockHeld

\* A Tower that hands over in place, or has come back from it, is the only one that is up.
LEMMA Alone ==
  ASSUME LockHeld, NEW p \in Slots, tower[p].at \in Handing, tower[p].at # "waiting",
         NEW q \in Slots, Up(q)
  PROVE  q = p
<1>1. Up(p) /\ tower[p].at \in Changing /\ ~supervised
  BY DEF Up, Handing, Changing, LockHeld, HandingIsInPlace
<1>2. ~SuccessorOf(p, q) /\ ~SuccessorOf(q, p)
  BY <1>1 DEF SuccessorOf, LockHeld, SuccessorSettles
<1>. QED
  BY <1>1, <1>2 DEF LockHeld, OneLine

\* A Tower that carries on after its install failed has the lock: still, or because nobody does.
LEMMA Resumes ==
  ASSUME TypeOK, LockHeld, NEW p \in Slots, tower[p].at \in {"ready", "swapped", "undone"},
         Resume(p), UNCHANGED supervised
  PROVE  LockHeld'
<1>0. /\ Only(p) /\ tower'[p].at = "looping" /\ tower'[p].child = Nobody
      /\ serving \in Slots \cup {Nobody} /\ Up(p) /\ tower[p].at \in Changing
      /\ tower[p].at # "waiting"
      /\ "looping" \notin Handing \cup Changing \cup {"stopping", "claiming", "waiting", "off"}
  BY TypesHave, ProcessesHave DEF Resume, Resumed, Only, Up, Handing, Changing
<1>1. serving' = p
  <2>1. CASE tower[p].at \in {"ready", "swapped"}
    BY <2>1, UpdateAssumption DEF Resume, LockHeld, HoldersHold, Holders
  <2>2. CASE tower[p].at = "undone"
    <3>1. \A q \in Slots : Up(q) => q = p
      BY <2>2, Alone DEF Handing
    <3>. QED
      BY <1>0, <3>1 DEF Resume, LockHeld, LockIsTheLivings
  <2>. QED
    BY <2>1, <2>2
<1>2. \A q \in Slots : q # p => tower[q].at \notin Holders
  <2>1. CASE tower[p].at \in {"ready", "swapped"}
    BY <2>1 DEF LockHeld, HoldersHold, Holders
  <2>2. CASE tower[p].at = "undone"
    BY <2>2, Alone DEF Handing, Holders, Up
  <2>. QED
    BY <2>1, <2>2
<1>3. HoldersHold' /\ LockIsTheLivings' /\ ClaimingIsWithout'
  BY <1>0, <1>1, <1>2 DEF HoldersHold, LockIsTheLivings, ClaimingIsWithout, Only, Up
<1>4. ChangingDrains' /\ HandingIsInPlace'
  BY <1>0 DEF LockHeld, ChangingDrains, HandingIsInPlace, Only
<1>5. OneLine' /\ SuccessorSettles'
  <2>1. \A q, r \in Slots : SuccessorOf(q, r)' <=> SuccessorOf(q, r)
    BY <1>0 DEF SuccessorOf, Only
  <2>2. \A q \in Slots : Up(q)' <=> Up(q)
    BY <1>0 DEF Up, Only
  <2>. QED
    BY <1>0, <2>1, <2>2 DEF LockHeld, OneLine, SuccessorSettles, Only
<1>. QED
  BY <1>3, <1>4, <1>5 DEF LockHeld

\* A Tower that handed the lock over goes on without it.
LEMMA GoesOn ==
  ASSUME TypeOK, LockHeld, NEW p \in Slots, Only(p), UNCHANGED supervised,
         tower[p].at \in {"written"} \cup Handing, tower[p].at # "waiting", ~supervised,
         tower'[p].at \in Handing, tower'[p].at # "waiting",
         tower'[p].drains = tower[p].drains,
         serving' \in {serving, Release(p)}
  PROVE  LockHeld'
<1>0. /\ Up(p) /\ Up(p)' /\ tower[p].at \in Changing /\ tower'[p].at \in Changing
      /\ tower'[p].at \notin Holders \cup {"claiming"}
      /\ serving \in Slots \cup {Nobody}
  BY TypesHave DEF Up, Holders, Handing, Changing
<1>1. \A q \in Slots : tower'[q].at \in Holders => q # p /\ tower[q].at \in Holders
  BY <1>0 DEF Only
<1>2. HoldersHold' /\ LockIsTheLivings' /\ ClaimingIsWithout'
  BY <1>0, <1>1, UpdateAssumption
  DEF LockHeld, HoldersHold, LockIsTheLivings, ClaimingIsWithout, Only, Up, Release
<1>3. ChangingDrains' /\ HandingIsInPlace'
  BY <1>0 DEF LockHeld, ChangingDrains, HandingIsInPlace, Only
<1>4. OneLine' /\ SuccessorSettles'
  <2>1. \A q, r \in Slots : SuccessorOf(q, r)' <=> SuccessorOf(q, r)
    BY <1>0 DEF SuccessorOf, Only
  <2>2. \A q \in Slots : Up(q)' <=> Up(q)
    BY <1>0 DEF Up, Only
  <2>. QED
    BY <1>0, <2>1, <2>2 DEF LockHeld, OneLine, SuccessorSettles, Only
<1>. QED
  BY <1>2, <1>3, <1>4 DEF LockHeld

\* What was asked for stands while nothing is asked and no other hand-over is written: a request
\* may end, and a process may stop installing or go on with what it took.
LEMMA AskKept ==
  ASSUME TypeOK, AskStands, asked' = asked,
         request' = request \/ \E o \in {"cancelled", "failed", "postponed", "applied",
                                         "rolled_back"} : request' = Progress(o),
         record'.to = record.to, record'.started = record.started,
         \A q \in Slots : tower'[q].at \in Changing =>
           tower[q].at \in Changing /\ tower'[q].asked = tower[q].asked,
         \A q \in Slots : tower'[q].at \in {"written"} \cup Handing =>
           tower[q].at \in {"written"} \cup Handing
  PROVE  AskStands'
<1>1. IsOpen(request') => request' = request
  BY TypesHave DEF IsOpen, Progress, Requests, Nothing
<1>2. request' # Nothing => request # Nothing /\ request'.at = request.at
  BY TypesHave DEF Progress, Requests, Nothing
<1>3. ChangingIsAsked'
  BY <1>1 DEF AskStands, ChangingIsAsked
<1>4. WrittenIsHandedOver'
  BY <1>1 DEF AskStands, WrittenIsHandedOver, HandedOver
<1>5. AskedByNow'
  BY <1>2 DEF AskStands, AskedByNow
<1>. QED
  BY <1>3, <1>4, <1>5 DEF AskStands

\* A new request is made while nobody installs.
LEMMA AskedAnew ==
  ASSUME TypeOK, AskStands, ~Installing, UNCHANGED tower, asked' = asked + 1,
         request' # Nothing => request'.at <= asked + 1
  PROVE  AskStands'
<1>1. \A q \in Slots : tower[q].at \notin Changing
  BY DEF Installing, Changing, Handing
<1>. QED
  BY <1>1 DEF AskStands, ChangingIsAsked, WrittenIsHandedOver, AskedByNow, Changing

LEMMA LockStep ==
  ASSUME TypeOK, Running, LockInv, ~Hasty, ~Bystanders, [Next]_vars
  PROVE  LockInv'
<1>0. /\ TypeOK /\ LockHeld /\ AskStands /\ tower \in [Slots -> Processes]
      /\ serving \in Slots \cup {Nobody} /\ request \in Requests /\ record \in Records
  BY TypesHave DEF LockInv
<1>1. ASSUME NEW p \in Slots, Start(p) PROVE LockInv'
  <2>1. /\ Only(p) /\ ~Up(p) /\ tower'[p].at = "claiming" /\ \A q \in Slots : tower[q].child # p
        /\ UNCHANGED <<serving, supervised>>
        /\ supervised \/ NoneUp
        /\ "claiming" \notin Holders \cup Handing \cup Changing \cup {"stopping"}
    BY <1>0, <1>1 DEF Start, IsFree, Begin, Absent, Only, Rigid, files, Holders, Handing, Changing
  <2>2. \A q, r \in Slots : SuccessorOf(q, r)' <=> SuccessorOf(q, r) /\ q # p /\ r # p
    BY <2>1 DEF SuccessorOf, Only, Up
  <2>3. serving # p
    BY <1>0, <2>1, UpdateAssumption DEF LockHeld, LockIsTheLivings
  <2>4. HoldersHold'
    BY <1>0, <2>1 DEF LockHeld, HoldersHold, Only
  <2>5. LockIsTheLivings'
    BY <1>0, <2>1, <2>3 DEF LockHeld, LockIsTheLivings, Only, Up
  <2>6. ClaimingIsWithout'
    BY <1>0, <2>1, <2>3 DEF LockHeld, ClaimingIsWithout, Only
  <2>7. ChangingDrains' /\ HandingIsInPlace'
    BY <1>0, <2>1 DEF LockHeld, ChangingDrains, HandingIsInPlace, Only
  <2>8. OneLine'
    <3>1. \A q \in Slots : q # p /\ Up(q)' => Up(q)
      BY <2>1 DEF Only, Up
    <3>. QED
      BY <2>1, <3>1 DEF OneLine, NoneUp
  <2>9. SuccessorSettles'
    BY <1>0, <2>1, <2>2 DEF LockHeld, SuccessorSettles, Only
  <2>10. AskStands'
    BY <1>0, <1>1, <2>1, AskKept DEF Start, Only, files, bounds, Handing, Changing
  <2>. QED
    BY <2>4, <2>5, <2>6, <2>7, <2>8, <2>9, <2>10 DEF LockInv, LockHeld
<1>2. ASSUME NEW p \in Slots, Claim(p) PROVE LockInv'
  <2>1. tower[p].at = "claiming" /\ UNCHANGED <<request, record, asked, supervised>>
    BY <1>2 DEF Claim, Rigid, files, bounds
  <2>2. CASE serving = Nobody /\ serving' = p /\ Goto(p, "arriving")
    <3>1. /\ Only(p) /\ tower'[p].at = "arriving"
          /\ "arriving" \notin Handing \cup Changing \cup {"stopping", "claiming", "waiting", "off"}
      BY <1>0, <2>2, GotoIs DEF Handing, Changing
    <3>2. \A q, r \in Slots : SuccessorOf(q, r)' <=> SuccessorOf(q, r)
      BY <1>0, <2>1, <2>2, GotoIs DEF SuccessorOf, Only
    <3>3. \A q \in Slots : Up(q)' <=> Up(q)
      BY <2>1, <3>1 DEF Only, Up
    <3>4. \A q \in Slots : q # p => tower[q].at \notin Holders
      BY <1>0, <2>2, UpdateAssumption DEF LockHeld, HoldersHold
    <3>5. HoldersHold' /\ LockIsTheLivings' /\ ClaimingIsWithout'
      BY <2>2, <3>1, <3>4 DEF HoldersHold, LockIsTheLivings, ClaimingIsWithout, Only, Up
    <3>6. ChangingDrains' /\ HandingIsInPlace'
      BY <1>0, <2>1, <3>1 DEF LockHeld, ChangingDrains, HandingIsInPlace, Only
    <3>7. OneLine' /\ SuccessorSettles'
      BY <1>0, <2>1, <3>1, <3>2, <3>3 DEF LockHeld, OneLine, SuccessorSettles, Only
    <3>8. AskStands'
      BY <1>0, <2>1, <3>1, AskKept DEF Only, Handing, Changing
    <3>. QED
      BY <3>5, <3>6, <3>7, <3>8 DEF LockInv, LockHeld
  <2>3. CASE serving' = serving /\ tower' = [tower EXCEPT ![p] = Absent]
    <3>1. LockHeld'
      BY <1>0, <2>1, <2>3, Ends
    <3>2. AskStands'
      BY <1>0, <2>1, <2>3, AskKept DEF Absent, Handing, Changing
    <3>. QED
      BY <3>1, <3>2 DEF LockInv
  <2>. QED
    BY <1>2, <2>2, <2>3 DEF Claim
<1>3. ASSUME NEW p \in Slots, ArriveRequest(p) PROVE LockInv'
  <2>1. /\ Only(p) /\ tower[p].at \in Holders /\ tower'[p].at \in Holders
        /\ tower'[p].child = tower[p].child
        /\ tower'[p].at \in Changing \cup {"stopping"} => tower'[p].drains
        /\ tower'[p].at \in Changing => tower[p].at \in Changing
        /\ tower'[p].at = "written" => tower[p].at = "written"
        /\ tower'[p].asked = tower[p].asked
    BY <1>0, <1>3, GotoIs, ProcessesHave
    DEF ArriveRequest, LockHeld, ChangingDrains, Only, StillAsked, Holders, Handing, Changing
  <2>2. UNCHANGED <<serving, supervised>>
    BY <1>3 DEF ArriveRequest, Rigid, files
  <2>3. LockHeld'
    BY <1>0, <2>1, <2>2, Moves
  <2>4. /\ asked' = asked /\ record'.to = record.to /\ record'.started = record.started
        /\ request' = request \/ \E o \in {"cancelled", "failed", "postponed", "applied",
                                          "rolled_back"} : request' = Progress(o)
    BY <1>0, <1>3 DEF ArriveRequest, Rigid, files, bounds
  <2>5. AskStands'
    BY <1>0, <2>1, <2>4, AskKept DEF Only, Holders, Handing, Changing
  <2>. QED
    BY <2>3, <2>5 DEF LockInv
<1>4. ASSUME NEW p \in Slots, ArriveRecord(p) PROVE LockInv'
  <2>1. /\ Only(p) /\ tower[p].at \in Holders /\ tower'[p].at \in Holders
        /\ tower'[p].child = tower[p].child
        /\ tower'[p].at \in Changing \cup {"stopping"} => tower'[p].drains
        /\ tower'[p].at \in Changing => tower[p].at \in Changing
        /\ tower'[p].at = "written" => tower[p].at = "written"
        /\ tower'[p].asked = tower[p].asked
    BY <1>0, <1>4, GotoIs, ProcessesHave
    DEF ArriveRecord, LockHeld, ChangingDrains, Only, StillAsked, Holders, Handing, Changing
  <2>2. UNCHANGED <<serving, supervised>>
    BY <1>4 DEF ArriveRecord, Rigid, files
  <2>3. LockHeld'
    BY <1>0, <2>1, <2>2, Moves
  <2>4. /\ asked' = asked /\ record'.to = record.to /\ record'.started = record.started
        /\ request' = request \/ \E o \in {"cancelled", "failed", "postponed", "applied",
                                          "rolled_back"} : request' = Progress(o)
    BY <1>0, <1>4 DEF ArriveRecord, Records, Rigid, files, bounds
  <2>5. AskStands'
    BY <1>0, <2>1, <2>4, AskKept DEF Only, Holders, Handing, Changing
  <2>. QED
    BY <2>3, <2>5 DEF LockInv
<1>5. ASSUME NEW p \in Slots, Revert(p) PROVE LockInv'
  <2>1. /\ Only(p) /\ tower[p].at \in Holders /\ tower'[p].at \in Holders
        /\ tower'[p].child = tower[p].child
        /\ tower'[p].at \in Changing \cup {"stopping"} => tower'[p].drains
        /\ tower'[p].at \in Changing => tower[p].at \in Changing
        /\ tower'[p].at = "written" => tower[p].at = "written"
        /\ tower'[p].asked = tower[p].asked
    BY <1>0, <1>5, GotoIs, ProcessesHave
    DEF Revert, LockHeld, ChangingDrains, Only, StillAsked, Holders, Handing, Changing
  <2>2. UNCHANGED <<serving, supervised>>
    BY <1>5 DEF Revert, Rigid, files
  <2>3. LockHeld'
    BY <1>0, <2>1, <2>2, Moves
  <2>4. /\ asked' = asked /\ record'.to = record.to /\ record'.started = record.started
        /\ request' = request \/ \E o \in {"cancelled", "failed", "postponed", "applied",
                                          "rolled_back"} : request' = Progress(o)
    BY <1>0, <1>5 DEF Revert, Rigid, files, bounds
  <2>5. AskStands'
    BY <1>0, <2>1, <2>4, AskKept DEF Only, Holders, Handing, Changing
  <2>. QED
    BY <2>3, <2>5 DEF LockInv
<1>6. ASSUME NEW p \in Slots, Reverted(p) PROVE LockInv'
  <2>1. tower' = [tower EXCEPT ![p] = Absent] /\ serving' = Release(p) /\ UNCHANGED supervised
    BY <1>6 DEF Reverted, Gone, Rigid
  <2>2. LockHeld'
    BY <1>0, <2>1, Ends
  <2>3. /\ asked' = asked /\ record'.to = record.to /\ record'.started = record.started
        /\ request' = request \/ \E o \in {"cancelled", "failed", "postponed", "applied",
                                          "rolled_back"} : request' = Progress(o)
    BY <1>0, <1>6 DEF Reverted, Records, Rigid, files, bounds
  <2>4. AskStands'
    BY <1>0, <2>1, <2>3, AskKept DEF Absent, Holders, Handing, Changing
  <2>. QED
    BY <2>2, <2>4 DEF LockInv
<1>7. ASSUME NEW p \in Slots, Dies(p) PROVE LockInv'
  <2>1. tower' = [tower EXCEPT ![p] = Absent] /\ serving' = Release(p) /\ UNCHANGED supervised
    BY <1>7 DEF Dies, Gone, Rigid
  <2>2. LockHeld'
    BY <1>0, <2>1, Ends
  <2>3. /\ asked' = asked /\ record'.to = record.to /\ record'.started = record.started
        /\ request' = request \/ \E o \in {"cancelled", "failed", "postponed", "applied",
                                          "rolled_back"} : request' = Progress(o)
    BY <1>0, <1>7 DEF Dies, Rigid, files, bounds
  <2>4. AskStands'
    BY <1>0, <2>1, <2>3, AskKept DEF Absent, Holders, Handing, Changing
  <2>. QED
    BY <2>2, <2>4 DEF LockInv
<1>8. ASSUME NEW p \in Slots, Open(p) PROVE LockInv'
  <2>1. /\ Only(p) /\ tower[p].at \in Holders /\ tower'[p].at \in Holders
        /\ tower'[p].child = tower[p].child
        /\ tower'[p].at \in Changing \cup {"stopping"} => tower'[p].drains
        /\ tower'[p].at \in Changing => tower[p].at \in Changing
        /\ tower'[p].at = "written" => tower[p].at = "written"
        /\ tower'[p].asked = tower[p].asked
    BY <1>0, <1>8, GotoIs, ProcessesHave
    DEF Open, LockHeld, ChangingDrains, Only, StillAsked, Holders, Handing, Changing
  <2>2. UNCHANGED <<serving, supervised>>
    BY <1>8 DEF Open, Rigid, files
  <2>3. LockHeld'
    BY <1>0, <2>1, <2>2, Moves
  <2>4. /\ asked' = asked /\ record'.to = record.to /\ record'.started = record.started
        /\ request' = request \/ \E o \in {"cancelled", "failed", "postponed", "applied",
                                          "rolled_back"} : request' = Progress(o)
    BY <1>0, <1>8 DEF Open, Rigid, files, bounds
  <2>5. AskStands'
    BY <1>0, <2>1, <2>4, AskKept DEF Only, Holders, Handing, Changing
  <2>. QED
    BY <2>3, <2>5 DEF LockInv
<1>9. ASSUME NEW p \in Slots, Bind(p) PROVE LockInv'
  <2>1. /\ Only(p) /\ tower[p].at \in Holders /\ tower'[p].at \in Holders
        /\ tower'[p].child = tower[p].child
        /\ tower'[p].at \in Changing \cup {"stopping"} => tower'[p].drains
        /\ tower'[p].at \in Changing => tower[p].at \in Changing
        /\ tower'[p].at = "written" => tower[p].at = "written"
        /\ tower'[p].asked = tower[p].asked
    BY <1>0, <1>9, GotoIs, ProcessesHave
    DEF Bind, LockHeld, ChangingDrains, Only, StillAsked, Holders, Handing, Changing
  <2>2. UNCHANGED <<serving, supervised>>
    BY <1>9 DEF Bind, Rigid, files
  <2>3. LockHeld'
    BY <1>0, <2>1, <2>2, Moves
  <2>4. /\ asked' = asked /\ record'.to = record.to /\ record'.started = record.started
        /\ request' = request \/ \E o \in {"cancelled", "failed", "postponed", "applied",
                                          "rolled_back"} : request' = Progress(o)
    BY <1>0, <1>9 DEF Bind, Rigid, files, bounds
  <2>5. AskStands'
    BY <1>0, <2>1, <2>4, AskKept DEF Only, Holders, Handing, Changing
  <2>. QED
    BY <2>3, <2>5 DEF LockInv
<1>10. ASSUME NEW p \in Slots, TakeStop(p) PROVE LockInv'
  <2>1. /\ Only(p) /\ tower[p].at \in Holders /\ tower'[p].at \in Holders
        /\ tower'[p].child = tower[p].child
        /\ tower'[p].at \in Changing \cup {"stopping"} => tower'[p].drains
        /\ tower'[p].at \in Changing => tower[p].at \in Changing
        /\ tower'[p].at = "written" => tower[p].at = "written"
        /\ tower'[p].asked = tower[p].asked
    BY <1>0, <1>10, GotoIs, ProcessesHave
    DEF TakeStop, LockHeld, ChangingDrains, Only, StillAsked, Holders, Handing, Changing
  <2>2. UNCHANGED <<serving, supervised>>
    BY <1>10 DEF TakeStop, Rigid, files
  <2>3. LockHeld'
    BY <1>0, <2>1, <2>2, Moves
  <2>4. /\ asked' = asked /\ record'.to = record.to /\ record'.started = record.started
        /\ request' = request \/ \E o \in {"cancelled", "failed", "postponed", "applied",
                                          "rolled_back"} : request' = Progress(o)
    BY <1>0, <1>10 DEF TakeStop, Rigid, files, bounds
  <2>5. AskStands'
    BY <1>0, <2>1, <2>4, AskKept DEF Only, Holders, Handing, Changing
  <2>. QED
    BY <2>3, <2>5 DEF LockInv
<1>11. ASSUME NEW p \in Slots, TakeRequest(p) PROVE LockInv'
  <2>1. /\ Only(p) /\ tower[p].at = "serving" /\ tower'[p].at = "draining"
        /\ tower'[p].drains /\ tower'[p].child = tower[p].child /\ tower'[p].asked = request
        /\ IsOpen(request) /\ ~HandedOver(request)
        /\ UNCHANGED <<supervised, serving, request, record, asked>>
    BY <1>0, <1>11, ProcessesHave DEF TakeRequest, Only, Rigid, files, bounds
  <2>2. \A q \in Slots : ~SuccessorOf(q, p)
    BY <1>0, <2>1 DEF AskStands, WrittenIsHandedOver, SuccessorOf, Handing
  <2>3. LockHeld'
    BY <1>0, <2>1, <2>2, Moves DEF Holders
  <2>4. AskStands'
    BY <1>0, <2>1
    DEF AskStands, ChangingIsAsked, WrittenIsHandedOver, AskedByNow, Only, HandedOver, Handing
  <2>. QED
    BY <2>3, <2>4 DEF LockInv
<1>12. ASSUME NEW p \in Slots, DrainStopped(p) PROVE LockInv'
  <2>1. /\ Only(p) /\ tower[p].at \in Holders /\ tower'[p].at \in Holders
        /\ tower'[p].child = tower[p].child
        /\ tower'[p].at \in Changing \cup {"stopping"} => tower'[p].drains
        /\ tower'[p].at \in Changing => tower[p].at \in Changing
        /\ tower'[p].at = "written" => tower[p].at = "written"
        /\ tower'[p].asked = tower[p].asked
    BY <1>0, <1>12, GotoIs, ProcessesHave
    DEF DrainStopped, LockHeld, ChangingDrains, Only, StillAsked, Holders, Handing, Changing
  <2>2. UNCHANGED <<serving, supervised>>
    BY <1>12 DEF DrainStopped, Rigid, files
  <2>3. LockHeld'
    BY <1>0, <2>1, <2>2, Moves
  <2>4. /\ asked' = asked /\ record'.to = record.to /\ record'.started = record.started
        /\ request' = request \/ \E o \in {"cancelled", "failed", "postponed", "applied",
                                          "rolled_back"} : request' = Progress(o)
    BY <1>0, <1>12 DEF DrainStopped, Rigid, files, bounds
  <2>5. AskStands'
    BY <1>0, <2>1, <2>4, AskKept DEF Only, Holders, Handing, Changing
  <2>. QED
    BY <2>3, <2>5 DEF LockInv
<1>13. ASSUME NEW p \in Slots, DrainAbandoned(p) PROVE LockInv'
  <2>1. /\ Only(p) /\ tower[p].at \in Holders /\ tower'[p].at \in Holders
        /\ tower'[p].child = tower[p].child
        /\ tower'[p].at \in Changing \cup {"stopping"} => tower'[p].drains
        /\ tower'[p].at \in Changing => tower[p].at \in Changing
        /\ tower'[p].at = "written" => tower[p].at = "written"
        /\ tower'[p].asked = tower[p].asked
    BY <1>0, <1>13, GotoIs, ProcessesHave
    DEF DrainAbandoned, LockHeld, ChangingDrains, Only, StillAsked, Holders, Handing, Changing
  <2>2. UNCHANGED <<serving, supervised>>
    BY <1>13 DEF DrainAbandoned, Rigid, files
  <2>3. LockHeld'
    BY <1>0, <2>1, <2>2, Moves
  <2>4. /\ asked' = asked /\ record'.to = record.to /\ record'.started = record.started
        /\ request' = request \/ \E o \in {"cancelled", "failed", "postponed", "applied",
                                          "rolled_back"} : request' = Progress(o)
    BY <1>0, <1>13 DEF DrainAbandoned, Rigid, files, bounds
  <2>5. AskStands'
    BY <1>0, <2>1, <2>4, AskKept DEF Only, Holders, Handing, Changing
  <2>. QED
    BY <2>3, <2>5 DEF LockInv
<1>14. ASSUME NEW p \in Slots, DrainQuiet(p) PROVE LockInv'
  <2>1. /\ Only(p) /\ tower[p].at \in Holders /\ tower'[p].at \in Holders
        /\ tower'[p].child = tower[p].child
        /\ tower'[p].at \in Changing \cup {"stopping"} => tower'[p].drains
        /\ tower'[p].at \in Changing => tower[p].at \in Changing
        /\ tower'[p].at = "written" => tower[p].at = "written"
        /\ tower'[p].asked = tower[p].asked
    BY <1>0, <1>14, GotoIs, ProcessesHave
    DEF DrainQuiet, LockHeld, ChangingDrains, Only, StillAsked, Holders, Handing, Changing
  <2>2. UNCHANGED <<serving, supervised>>
    BY <1>14 DEF DrainQuiet, Rigid, files
  <2>3. LockHeld'
    BY <1>0, <2>1, <2>2, Moves
  <2>4. /\ asked' = asked /\ record'.to = record.to /\ record'.started = record.started
        /\ request' = request \/ \E o \in {"cancelled", "failed", "postponed", "applied",
                                          "rolled_back"} : request' = Progress(o)
    BY <1>0, <1>14 DEF DrainQuiet, StillAsked, Rigid, files, bounds
  <2>5. AskStands'
    BY <1>0, <2>1, <2>4, AskKept DEF Only, Holders, Handing, Changing
  <2>. QED
    BY <2>3, <2>5 DEF LockInv
<1>15. ASSUME NEW p \in Slots, Postpone(p) PROVE LockInv'
  <2>1. /\ Only(p) /\ tower[p].at \in Holders /\ tower'[p].at \in Holders
        /\ tower'[p].child = tower[p].child
        /\ tower'[p].at \in Changing \cup {"stopping"} => tower'[p].drains
        /\ tower'[p].at \in Changing => tower[p].at \in Changing
        /\ tower'[p].at = "written" => tower[p].at = "written"
        /\ tower'[p].asked = tower[p].asked
    BY <1>0, <1>15, GotoIs, ProcessesHave
    DEF Postpone, LockHeld, ChangingDrains, Only, StillAsked, Holders, Handing, Changing
  <2>2. UNCHANGED <<serving, supervised>>
    BY <1>15 DEF Postpone, Rigid, files
  <2>3. LockHeld'
    BY <1>0, <2>1, <2>2, Moves
  <2>4. /\ asked' = asked /\ record'.to = record.to /\ record'.started = record.started
        /\ request' = request \/ \E o \in {"cancelled", "failed", "postponed", "applied",
                                          "rolled_back"} : request' = Progress(o)
    BY <1>0, <1>15 DEF Postpone, Rigid, files, bounds
  <2>5. AskStands'
    BY <1>0, <2>1, <2>4, AskKept DEF Only, Holders, Handing, Changing
  <2>. QED
    BY <2>3, <2>5 DEF LockInv
<1>16. ASSUME NEW p \in Slots, CutOff(p) PROVE LockInv'
  <2>1. /\ Only(p) /\ tower[p].at \in Holders /\ tower'[p].at \in Holders
        /\ tower'[p].child = tower[p].child
        /\ tower'[p].at \in Changing \cup {"stopping"} => tower'[p].drains
        /\ tower'[p].at \in Changing => tower[p].at \in Changing
        /\ tower'[p].at = "written" => tower[p].at = "written"
        /\ tower'[p].asked = tower[p].asked
    BY <1>0, <1>16, GotoIs, ProcessesHave
    DEF CutOff, LockHeld, ChangingDrains, Only, StillAsked, Holders, Handing, Changing
  <2>2. UNCHANGED <<serving, supervised>>
    BY <1>16 DEF CutOff, Rigid, files
  <2>3. LockHeld'
    BY <1>0, <2>1, <2>2, Moves
  <2>4. /\ asked' = asked /\ record'.to = record.to /\ record'.started = record.started
        /\ request' = request \/ \E o \in {"cancelled", "failed", "postponed", "applied",
                                          "rolled_back"} : request' = Progress(o)
    BY <1>0, <1>16 DEF CutOff, Rigid, files, bounds
  <2>5. AskStands'
    BY <1>0, <2>1, <2>4, AskKept DEF Only, Holders, Handing, Changing
  <2>. QED
    BY <2>3, <2>5 DEF LockInv
<1>17. ASSUME NEW p \in Slots, Stops(p) PROVE LockInv'
  <2>1. tower' = [tower EXCEPT ![p] = Absent] /\ serving' = Release(p) /\ UNCHANGED supervised
    BY <1>17 DEF Stops, Gone, Rigid
  <2>2. LockHeld'
    BY <1>0, <2>1, Ends
  <2>3. /\ asked' = asked /\ record'.to = record.to /\ record'.started = record.started
        /\ request' = request \/ \E o \in {"cancelled", "failed", "postponed", "applied",
                                          "rolled_back"} : request' = Progress(o)
    BY <1>0, <1>17 DEF Stops, Rigid, files, bounds
  <2>4. AskStands'
    BY <1>0, <2>1, <2>3, AskKept DEF Absent, Holders, Handing, Changing
  <2>. QED
    BY <2>2, <2>4 DEF LockInv
<1>18. ASSUME NEW p \in Slots, Swap(p) PROVE LockInv'
  <2>1. /\ Only(p) /\ tower[p].at \in Holders /\ tower'[p].at \in Holders
        /\ tower'[p].child = tower[p].child
        /\ tower'[p].at \in Changing \cup {"stopping"} => tower'[p].drains
        /\ tower'[p].at \in Changing => tower[p].at \in Changing
        /\ tower'[p].at = "written" => tower[p].at = "written"
        /\ tower'[p].asked = tower[p].asked
    BY <1>0, <1>18, GotoIs, ProcessesHave
    DEF Swap, LockHeld, ChangingDrains, Only, StillAsked, Holders, Handing, Changing
  <2>2. UNCHANGED <<serving, supervised>>
    BY <1>18 DEF Swap, Rigid, files
  <2>3. LockHeld'
    BY <1>0, <2>1, <2>2, Moves
  <2>4. /\ asked' = asked /\ record'.to = record.to /\ record'.started = record.started
        /\ request' = request \/ \E o \in {"cancelled", "failed", "postponed", "applied",
                                          "rolled_back"} : request' = Progress(o)
    BY <1>0, <1>18 DEF Swap, Rigid, files, bounds
  <2>5. AskStands'
    BY <1>0, <2>1, <2>4, AskKept DEF Only, Holders, Handing, Changing
  <2>. QED
    BY <2>3, <2>5 DEF LockInv
<1>19. ASSUME NEW p \in Slots, SwapFails(p) PROVE LockInv'
  <2>1. Resume(p) /\ tower[p].at = "ready" /\ UNCHANGED supervised
    BY <1>19 DEF SwapFails, Rigid
  <2>2. LockHeld'
    BY <1>0, <2>1, Resumes
  <2>3. /\ asked' = asked /\ record'.to = record.to /\ record'.started = record.started
        /\ request' = request \/ \E o \in {"cancelled", "failed", "postponed", "applied",
                                          "rolled_back"} : request' = Progress(o)
    BY <1>0, <1>19 DEF SwapFails, Rigid, files, bounds
  <2>4. AskStands'
    BY <1>0, <2>1, <2>3, AskKept DEF Resume, Resumed, Holders, Handing, Changing
  <2>. QED
    BY <2>2, <2>4 DEF LockInv
<1>20. ASSUME NEW p \in Slots, WriteHandover(p) PROVE LockInv'
  <2>1. /\ Only(p) /\ tower[p].at = "swapped" /\ tower'[p].at = "written"
        /\ tower'[p].drains = tower[p].drains
        /\ tower'[p].child = tower[p].child /\ tower'[p].asked = tower[p].asked
        /\ UNCHANGED <<supervised, serving, request, asked>>
        /\ record'.to = tower[p].asked.version /\ record'.started = asked
    BY <1>0, <1>20, GotoIs DEF WriteHandover, Handover, Rigid, files, bounds
  <2>2. LockHeld'
    BY <1>0, <2>1, Moves DEF LockHeld, ChangingDrains, Holders, Changing
  <2>3. ChangingIsAsked' /\ AskedByNow'
    BY <1>0, <2>1 DEF AskStands, ChangingIsAsked, AskedByNow, Only, Changing
  <2>4. \A q \in Slots : q # p => tower[q].at \notin {"written"} \cup Handing
    <3>1. serving = p
      BY <1>0, <2>1 DEF LockHeld, HoldersHold, Holders
    <3>2. ASSUME NEW q \in Slots, tower[q].at \in Handing, q # p PROVE FALSE
      <4>1. tower[p].at \in Changing /\ Up(p) /\ Up(q) /\ ~supervised
        BY <1>0, <2>1, <3>2 DEF LockHeld, HandingIsInPlace, Changing, Handing, Up
      <4>2. ~SuccessorOf(p, q) /\ ~SuccessorOf(q, p)
        BY <1>0, <2>1, <4>1 DEF LockHeld, SuccessorSettles, SuccessorOf
      <4>. QED
        BY <1>0, <3>2, <4>1, <4>2 DEF LockHeld, OneLine
    <3>. QED
      BY <1>0, <3>1, <3>2 DEF LockHeld, HoldersHold, Holders
  <2>5. WrittenIsHandedOver'
    <3>1. SUFFICES ASSUME IsOpen(request) PROVE HandedOver(request)'
      BY <2>1, <2>4 DEF WrittenIsHandedOver, Only
    <3>2. request = tower[p].asked
      BY <1>0, <2>1, <3>1 DEF AskStands, ChangingIsAsked, Changing
    <3>3. asked >= request.at
      <4>1. request # Nothing /\ request.at \in Nat /\ asked \in Nat
        BY <1>0, <3>1, TypesHave DEF IsOpen, Requests
      <4>. QED
        BY <1>0, <4>1 DEF AskStands, AskedByNow
    <3>. QED
      BY <2>1, <3>2, <3>3 DEF HandedOver
  <2>. QED
    BY <2>2, <2>3, <2>5 DEF LockInv, AskStands
<1>21. ASSUME NEW p \in Slots, WriteHandoverFails(p) PROVE LockInv'
  <2>1. Resume(p) /\ tower[p].at = "swapped" /\ UNCHANGED supervised
    BY <1>21 DEF WriteHandoverFails, Rigid
  <2>2. LockHeld'
    BY <1>0, <2>1, Resumes
  <2>3. /\ asked' = asked /\ record'.to = record.to /\ record'.started = record.started
        /\ request' = request \/ \E o \in {"cancelled", "failed", "postponed", "applied",
                                          "rolled_back"} : request' = Progress(o)
    BY <1>0, <1>21 DEF WriteHandoverFails, Rigid, files, bounds
  <2>4. AskStands'
    BY <1>0, <2>1, <2>3, AskKept DEF Resume, Resumed, Holders, Handing, Changing
  <2>. QED
    BY <2>2, <2>4 DEF LockInv
<1>22. ASSUME NEW p \in Slots, Exit75(p) PROVE LockInv'
  <2>1. tower' = [tower EXCEPT ![p] = Absent] /\ serving' = Release(p) /\ UNCHANGED supervised
    BY <1>22 DEF Exit75, Gone, Rigid
  <2>2. LockHeld'
    BY <1>0, <2>1, Ends
  <2>3. /\ asked' = asked /\ record'.to = record.to /\ record'.started = record.started
        /\ request' = request \/ \E o \in {"cancelled", "failed", "postponed", "applied",
                                          "rolled_back"} : request' = Progress(o)
    BY <1>0, <1>22 DEF Exit75, Rigid, files, bounds
  <2>4. AskStands'
    BY <1>0, <2>1, <2>3, AskKept DEF Absent, Holders, Handing, Changing
  <2>. QED
    BY <2>2, <2>4 DEF LockInv
<1>23. ASSUME NEW p \in Slots, GiveUpServing(p) PROVE LockInv'
  <2>1. /\ Only(p) /\ tower[p].at \in {"written"} \cup Handing /\ tower[p].at # "waiting"
        /\ tower'[p].at \in Handing /\ tower'[p].at # "waiting"
        /\ tower'[p].drains = tower[p].drains /\ tower'[p].asked = tower[p].asked
    BY <1>0, <1>23, GotoIs DEF GiveUpServing, Handing
  <2>2. ~supervised
    BY <1>0, <1>23 DEF GiveUpServing, LockHeld, HandingIsInPlace, Handing
  <2>3. serving' \in {serving, Release(p)} /\ UNCHANGED supervised
    BY <1>23 DEF GiveUpServing, Rigid, files
  <2>4. LockHeld'
    BY <1>0, <2>1, <2>2, <2>3, GoesOn
  <2>5. /\ asked' = asked /\ UNCHANGED <<request, record>>
    BY <1>23 DEF GiveUpServing, Rigid, files, bounds
  <2>6. AskStands'
    BY <1>0, <2>1, <2>5, AskKept DEF Only, Holders, Handing, Changing
  <2>. QED
    BY <2>4, <2>6 DEF LockInv
<1>24. ASSUME NEW p \in Slots, NEW q \in Slots, StartSuccessor(p, q) PROVE LockInv'
  <2>1. /\ tower[p].at = "handing" /\ ~Up(q) /\ p # q
        /\ tower'[p].at = "waiting" /\ tower'[p].child = q /\ tower'[p].drains = tower[p].drains
        /\ tower'[p].asked = tower[p].asked
        /\ tower'[q].at = "claiming"
        /\ \A r \in Slots \ {p, q} : tower'[r] = tower[r]
        /\ UNCHANGED <<supervised, serving, request, record, asked>>
    BY <1>0, <1>24, ProcessesHave
    DEF StartSuccessor, IsFree, Begin, Absent, Up, Rigid, files, bounds
  <2>2. \A r \in Slots : r # p => tower[r].at = "off"
    BY <1>0, <2>1, Alone DEF Up, Handing
  <2>3. "claiming" \notin Holders \cup Handing \cup Changing \cup {"stopping"}
    BY DEF Holders, Handing, Changing
  <2>4. "waiting" \in Handing /\ "waiting" \in Changing /\ "waiting" \notin Holders
        /\ "handing" \in Handing /\ "handing" \in Changing
        /\ "off" \notin Holders \cup Handing \cup Changing \cup {"stopping"}
    BY DEF Holders, Handing, Changing
  <2>5. HoldersHold' /\ LockIsTheLivings' /\ ClaimingIsWithout'
    BY <1>0, <2>1, <2>2, <2>3, <2>4, UpdateAssumption
    DEF LockHeld, HoldersHold, LockIsTheLivings, ClaimingIsWithout, Up
  <2>6. ChangingDrains' /\ HandingIsInPlace'
    BY <1>0, <2>1, <2>2, <2>3, <2>4 DEF LockHeld, ChangingDrains, HandingIsInPlace
  <2>7. OneLine' /\ SuccessorSettles'
    BY <2>1, <2>2, <2>3 DEF OneLine, SuccessorSettles, SuccessorOf, Up
  <2>8. AskStands'
    BY <1>0, <2>1, <2>2, <2>3, <2>4, AskKept
  <2>. QED
    BY <2>5, <2>6, <2>7, <2>8 DEF LockInv, LockHeld
<1>25. ASSUME NEW p \in Slots, SuccessorFails(p) PROVE LockInv'
  <2>1. /\ Only(p) /\ tower[p].at \in {"written"} \cup Handing /\ tower[p].at # "waiting"
        /\ tower'[p].at \in Handing /\ tower'[p].at # "waiting"
        /\ tower'[p].drains = tower[p].drains /\ tower'[p].asked = tower[p].asked
    BY <1>0, <1>25, GotoIs DEF SuccessorFails, Handing
  <2>2. ~supervised
    BY <1>0, <1>25 DEF SuccessorFails, LockHeld, HandingIsInPlace, Handing
  <2>3. serving' \in {serving, Release(p)} /\ UNCHANGED supervised
    BY <1>25 DEF SuccessorFails, Rigid, files
  <2>4. LockHeld'
    BY <1>0, <2>1, <2>2, <2>3, GoesOn
  <2>5. /\ asked' = asked /\ UNCHANGED <<request, record>>
    BY <1>25 DEF SuccessorFails, Rigid, files, bounds
  <2>6. AskStands'
    BY <1>0, <2>1, <2>5, AskKept DEF Only, Holders, Handing, Changing
  <2>. QED
    BY <2>4, <2>6 DEF LockInv
<1>26. ASSUME NEW p \in Slots, Answered(p) PROVE LockInv'
  <2>1. tower' = [tower EXCEPT ![p] = Absent] /\ serving' = Release(p) /\ UNCHANGED supervised
    BY <1>26 DEF Answered, Gone, Rigid
  <2>2. LockHeld'
    BY <1>0, <2>1, Ends
  <2>3. /\ asked' = asked /\ record'.to = record.to /\ record'.started = record.started
        /\ request' = request \/ \E o \in {"cancelled", "failed", "postponed", "applied",
                                          "rolled_back"} : request' = Progress(o)
    BY <1>0, <1>26 DEF Answered, Outcome, Rigid, files, bounds
  <2>4. AskStands'
    BY <1>0, <2>1, <2>3, AskKept DEF Absent, Holders, Handing, Changing
  <2>. QED
    BY <2>2, <2>4 DEF LockInv
<1>27. ASSUME NEW p \in Slots, NotAnswered(p) PROVE LockInv'
  <2> DEFINE q == tower[p].child
  <2>0. q \in Slots /\ q # p /\ tower[p].at = "waiting"
    BY <1>27 DEF NotAnswered, Running, Runs
  <2>1. /\ tower'[p].at = "undoing" /\ tower'[p].drains = tower[p].drains
        /\ tower'[p].asked = tower[p].asked
        /\ tower'[q].at = "off"
        /\ \A r \in Slots \ {p, q} : tower'[r] = tower[r]
        /\ serving' = Release(q) /\ UNCHANGED <<supervised, request, record, asked>>
    <3>1. tower' = [tower EXCEPT ![q] = Absent, ![p] = [@ EXCEPT !.at = "undoing", !.child = Nobody]]
      BY <1>0, <2>0, <1>27 DEF NotAnswered
    <3>2. /\ tower'[p] = [tower[p] EXCEPT !.at = "undoing", !.child = Nobody]
          /\ tower'[q] = Absent /\ \A r \in Slots \ {p, q} : tower'[r] = tower[r]
      BY <1>0, <2>0, <3>1
    <3>3. tower[p] \in Processes
      BY <1>0
    <3>4. /\ tower'[p].at = "undoing" /\ tower'[p].drains = tower[p].drains
          /\ tower'[p].asked = tower[p].asked /\ tower'[q].at = "off"
      BY <3>2, <3>3, ProcessesHave DEF Absent
    <3>5. serving' = Release(q) /\ UNCHANGED <<supervised, request, record, asked>>
      BY <1>27 DEF NotAnswered, Rigid, files, bounds
    <3>. QED
      BY <3>2, <3>4, <3>5
  <2>2. tower[p].at \in Handing /\ ~supervised /\ Up(p)
    BY <1>0, <2>0 DEF LockHeld, HandingIsInPlace, Handing, Up
  <2>3. \A r \in Slots \ {p, q} : tower[r].at = "off"
    <3>1. SUFFICES ASSUME NEW r \in Slots \ {p, q}, Up(r) PROVE FALSE
      BY DEF Up
    <3>2. ~SuccessorOf(p, r) /\ ~SuccessorOf(r, p)
      BY <1>0, <2>0, <3>1 DEF LockHeld, SuccessorSettles, SuccessorOf, Changing, Handing
    <3>. QED
      BY <1>0, <2>2, <3>1, <3>2 DEF LockHeld, OneLine
  <2>4. "undoing" \in Handing \cap Changing /\ "undoing" \notin Holders
        /\ "waiting" \in Handing \cap Changing /\ "waiting" \notin Holders
        /\ "off" \notin Holders \cup Handing \cup Changing \cup {"stopping"}
    BY DEF Holders, Handing, Changing
  <2>5. HoldersHold' /\ LockIsTheLivings' /\ ClaimingIsWithout'
    BY <1>0, <2>0, <2>1, <2>2, <2>3, <2>4, UpdateAssumption
    DEF LockHeld, HoldersHold, LockIsTheLivings, ClaimingIsWithout, Up, Release
  <2>6. ChangingDrains' /\ HandingIsInPlace'
    BY <1>0, <2>0, <2>1, <2>2, <2>3, <2>4 DEF LockHeld, ChangingDrains, HandingIsInPlace
  <2>7. OneLine' /\ SuccessorSettles'
    BY <2>0, <2>1, <2>3 DEF OneLine, SuccessorSettles, SuccessorOf, Up
  <2>8. AskStands'
    BY <1>0, <2>0, <2>1, <2>3, <2>4, AskKept
  <2>. QED
    BY <2>5, <2>6, <2>7, <2>8 DEF LockInv, LockHeld
<1>28. ASSUME NEW p \in Slots, Undo(p) PROVE LockInv'
  <2>1. /\ Only(p) /\ tower[p].at \in {"written"} \cup Handing /\ tower[p].at # "waiting"
        /\ tower'[p].at \in Handing /\ tower'[p].at # "waiting"
        /\ tower'[p].drains = tower[p].drains /\ tower'[p].asked = tower[p].asked
    BY <1>0, <1>28, GotoIs DEF Undo, Handing
  <2>2. ~supervised
    BY <1>0, <1>28 DEF Undo, LockHeld, HandingIsInPlace, Handing
  <2>3. serving' \in {serving, Release(p)} /\ UNCHANGED supervised
    BY <1>28 DEF Undo, Rigid, files
  <2>4. LockHeld'
    BY <1>0, <2>1, <2>2, <2>3, GoesOn
  <2>5. /\ asked' = asked /\ UNCHANGED <<request, record>>
    BY <1>28 DEF Undo, Rigid, files, bounds
  <2>6. AskStands'
    BY <1>0, <2>1, <2>5, AskKept DEF Only, Holders, Handing, Changing
  <2>. QED
    BY <2>4, <2>6 DEF LockInv
<1>29. ASSUME NEW p \in Slots, Undone(p) PROVE LockInv'
  <2>1. Resume(p) /\ tower[p].at = "undone" /\ UNCHANGED supervised
    BY <1>29 DEF Undone, Rigid
  <2>2. LockHeld'
    BY <1>0, <2>1, Resumes
  <2>3. /\ asked' = asked /\ record'.to = record.to /\ record'.started = record.started
        /\ request' = request \/ \E o \in {"cancelled", "failed", "postponed", "applied",
                                          "rolled_back"} : request' = Progress(o)
    BY <1>0, <1>29 DEF Undone, Records, Rigid, files, bounds
  <2>4. AskStands'
    BY <1>0, <2>1, <2>3, AskKept DEF Resume, Resumed, Holders, Handing, Changing
  <2>. QED
    BY <2>2, <2>4 DEF LockInv
<1>30. ASSUME NEW p \in Slots, Prove(p) PROVE LockInv'
  <2>1. \A q \in Slots : /\ tower'[q].at = tower[q].at
                         /\ tower'[q].drains = tower[q].drains
                         /\ tower'[q].child = tower[q].child
                         /\ tower'[q].asked = tower[q].asked
    BY <1>0, <1>30, ProcessesHave DEF Prove
  <2>2. LockHeld'
    BY <1>0, <1>30, <2>1, Stays DEF Prove, Rigid, files
  <2>3. /\ asked' = asked /\ record'.to = record.to /\ record'.started = record.started
        /\ request' = request \/ \E o \in {"cancelled", "failed", "postponed", "applied",
                                          "rolled_back"} : request' = Progress(o)
    BY <1>0, <1>30 DEF Prove, Outcome, Records, Rigid, files, bounds
  <2>4. AskStands'
    BY <1>0, <2>1, <2>3, AskKept
  <2>. QED
    BY <2>2, <2>4 DEF LockInv
<1>31. ASSUME NEW p \in Slots, Proved(p) PROVE LockInv'
  <2>1. \A q \in Slots : /\ tower'[q].at = tower[q].at
                         /\ tower'[q].drains = tower[q].drains
                         /\ tower'[q].child = tower[q].child
                         /\ tower'[q].asked = tower[q].asked
    BY <1>0, <1>31, ProcessesHave DEF Proved
  <2>2. LockHeld'
    BY <1>0, <1>31, <2>1, Stays DEF Proved, Rigid, files
  <2>3. /\ asked' = asked /\ record'.to = record.to /\ record'.started = record.started
        /\ request' = request \/ \E o \in {"cancelled", "failed", "postponed", "applied",
                                          "rolled_back"} : request' = Progress(o)
    BY <1>0, <1>31 DEF Proved, Outcome, Records, Rigid, files, bounds
  <2>4. AskStands'
    BY <1>0, <2>1, <2>3, AskKept
  <2>. QED
    BY <2>2, <2>4 DEF LockInv
<1>32. ASSUME NEW p \in Slots, ProofGivenUp(p) PROVE LockInv'
  <2>1. \A q \in Slots : /\ tower'[q].at = tower[q].at
                         /\ tower'[q].drains = tower[q].drains
                         /\ tower'[q].child = tower[q].child
                         /\ tower'[q].asked = tower[q].asked
    BY <1>0, <1>32, ProcessesHave DEF ProofGivenUp
  <2>2. LockHeld'
    BY <1>0, <1>32, <2>1, Stays DEF ProofGivenUp, Rigid, files
  <2>3. /\ asked' = asked /\ record'.to = record.to /\ record'.started = record.started
        /\ request' = request \/ \E o \in {"cancelled", "failed", "postponed", "applied",
                                          "rolled_back"} : request' = Progress(o)
    BY <1>0, <1>32 DEF ProofGivenUp, Outcome, Records, Rigid, files, bounds
  <2>4. AskStands'
    BY <1>0, <2>1, <2>3, AskKept
  <2>. QED
    BY <2>2, <2>4 DEF LockInv
<1>33. ASSUME NEW p \in Slots, Crash(p) PROVE LockInv'
  <2>1. tower' = [tower EXCEPT ![p] = Absent] /\ serving' = Release(p) /\ UNCHANGED supervised
    BY <1>33 DEF Crash, Gone, Rigid
  <2>2. LockHeld'
    BY <1>0, <2>1, Ends
  <2>3. /\ asked' = asked /\ record'.to = record.to /\ record'.started = record.started
        /\ request' = request \/ \E o \in {"cancelled", "failed", "postponed", "applied",
                                          "rolled_back"} : request' = Progress(o)
    BY <1>0, <1>33 DEF Crash, Rigid, files, bounds
  <2>4. AskStands'
    BY <1>0, <2>1, <2>3, AskKept DEF Absent, Holders, Handing, Changing
  <2>. QED
    BY <2>2, <2>4 DEF LockInv
<1>34. ASSUME NEW p \in Slots, NEW t \in Tasks, Launch(p, t) PROVE LockInv'
  <2>1. UNCHANGED <<tower, serving, supervised, asked>>
    BY <1>34 DEF Launch, Rigid, files, bounds
  <2>2. LockHeld'
    BY <1>0, <2>1, Stays
  <2>3. /\ record'.to = record.to /\ record'.started = record.started
        /\ request' = request \/ request' = Progress("cancelled")
    BY <1>0, <1>34 DEF Launch, Records, files
  <2>4. AskStands'
    BY <1>0, <2>1, <2>3, AskKept
  <2>. QED
    BY <2>2, <2>4 DEF LockInv
<1>35. ASSUME NEW t \in Tasks, RunEnds(t) PROVE LockInv'
  <2>1. UNCHANGED <<tower, serving, supervised, asked>>
    BY <1>35 DEF RunEnds, Rigid, files, bounds
  <2>2. LockHeld'
    BY <1>0, <2>1, Stays
  <2>3. /\ record'.to = record.to /\ record'.started = record.started
        /\ request' = request \/ request' = Progress("cancelled")
    BY <1>0, <1>35 DEF RunEnds, Records, files
  <2>4. AskStands'
    BY <1>0, <2>1, <2>3, AskKept
  <2>. QED
    BY <2>2, <2>4 DEF LockInv
<1>36. ASSUME CancelInstall PROVE LockInv'
  <2>1. UNCHANGED <<tower, serving, supervised, asked>>
    BY <1>36 DEF CancelInstall, Rigid, files, bounds
  <2>2. LockHeld'
    BY <1>0, <2>1, Stays
  <2>3. /\ record'.to = record.to /\ record'.started = record.started
        /\ request' = request \/ request' = Progress("cancelled")
    BY <1>0, <1>36 DEF CancelInstall, Records, files
  <2>4. AskStands'
    BY <1>0, <2>1, <2>3, AskKept
  <2>. QED
    BY <2>2, <2>4 DEF LockInv
<1>37. ASSUME AskToStop PROVE LockInv'
  <2>1. UNCHANGED <<tower, serving, supervised, asked>>
    BY <1>37 DEF AskToStop, Rigid, files, bounds
  <2>2. LockHeld'
    BY <1>0, <2>1, Stays
  <2>3. /\ record'.to = record.to /\ record'.started = record.started
        /\ request' = request \/ request' = Progress("cancelled")
    BY <1>0, <1>37 DEF AskToStop, Records, files
  <2>4. AskStands'
    BY <1>0, <2>1, <2>3, AskKept
  <2>. QED
    BY <2>2, <2>4 DEF LockInv
<1>38. ASSUME TimePasses PROVE LockInv'
  <2>1. UNCHANGED <<tower, serving, supervised, asked>>
    BY <1>38 DEF TimePasses, Rigid, files, bounds
  <2>2. LockHeld'
    BY <1>0, <2>1, Stays
  <2>3. /\ record'.to = record.to /\ record'.started = record.started
        /\ request' = request \/ request' = Progress("cancelled")
    BY <1>0, <1>38 DEF TimePasses, Records, files
  <2>4. AskStands'
    BY <1>0, <2>1, <2>3, AskKept
  <2>. QED
    BY <2>2, <2>4 DEF LockInv
<1>39. ASSUME UNCHANGED vars PROVE LockInv'
  <2>1. UNCHANGED <<tower, serving, supervised, asked>>
    BY <1>39 DEF vars, Rigid, files, bounds
  <2>2. LockHeld'
    BY <1>0, <2>1, Stays
  <2>3. /\ record'.to = record.to /\ record'.started = record.started
        /\ request' = request \/ request' = Progress("cancelled")
    BY <1>0, <1>39 DEF vars, Records, files
  <2>4. AskStands'
    BY <1>0, <2>1, <2>3, AskKept
  <2>. QED
    BY <2>2, <2>4 DEF LockInv
<1>40. ASSUME NEW p \in Slots, NEW by \in {"dashboard", "watcher"}, AskToInstall(p, by)
      PROVE  LockInv'
  <2>1. UNCHANGED <<tower, serving, supervised>> /\ asked' = asked + 1
    BY <1>40 DEF AskToInstall, Ask, Rigid, files, bounds
  <2>2. LockHeld'
    BY <1>0, <2>1, Stays
  <2>3. ~Installing
    BY <1>40 DEF AskToInstall
  <2>4. request' # Nothing => request'.at <= asked + 1
    BY <1>0, <1>40, TypesHave DEF AskToInstall, Ask
  <2>. QED
    BY <1>0, <2>1, <2>2, <2>3, <2>4, AskedAnew DEF LockInv
<1>41. ASSUME AskFromShell
      PROVE  LockInv'
  <2>1. UNCHANGED <<tower, serving, supervised>> /\ asked' = asked + 1
    BY <1>41 DEF AskFromShell, Ask, Rigid, files, bounds
  <2>2. LockHeld'
    BY <1>0, <2>1, Stays
  <2>3. ~Installing
    BY <1>41 DEF AskFromShell
  <2>4. request' # Nothing => request'.at <= asked + 1
    BY <1>0, <1>41, TypesHave DEF AskFromShell, Ask
  <2>. QED
    BY <1>0, <2>1, <2>2, <2>3, <2>4, AskedAnew DEF LockInv
<1>42. ASSUME AskToRollBack
      PROVE  LockInv'
  <2>1. UNCHANGED <<tower, serving, supervised>> /\ asked' = asked + 1
    BY <1>42 DEF AskToRollBack, Ask, Rigid, files, bounds
  <2>2. LockHeld'
    BY <1>0, <2>1, Stays
  <2>3. ~Installing
    BY <1>42 DEF AskToRollBack
  <2>4. request' # Nothing => request'.at <= asked + 1
    BY <1>0, <1>42, TypesHave DEF AskToRollBack, Ask
  <2>. QED
    BY <1>0, <2>1, <2>2, <2>3, <2>4, AskedAnew DEF LockInv
<1>43. ASSUME Replace
      PROVE  LockInv'
  <2>1. UNCHANGED <<tower, serving, supervised>> /\ asked' = asked + 1
    BY <1>43 DEF Replace, Ask, Rigid, files, bounds
  <2>2. LockHeld'
    BY <1>0, <2>1, Stays
  <2>3. ~Installing
    BY <1>43 DEF Replace, NoneUp, Up, Installing
  <2>4. request' # Nothing => request'.at <= asked + 1
    BY <1>0, <1>43, TypesHave DEF Replace, AskStands, AskedByNow, Requests
  <2>. QED
    BY <1>0, <2>1, <2>2, <2>3, <2>4, AskedAnew DEF LockInv
<1>. QED
  BY <1>1, <1>2, <1>3, <1>4, <1>5, <1>6, <1>7, <1>8, <1>9, <1>10, <1>11, <1>12, <1>13, <1>14,
     <1>15, <1>16, <1>17, <1>18, <1>19, <1>20, <1>21, <1>22, <1>23, <1>24, <1>25, <1>26, <1>27,
     <1>28, <1>29, <1>30, <1>31, <1>32, <1>33, <1>34, <1>35, <1>36, <1>37, <1>38, <1>39, <1>40,
     <1>41, <1>42, <1>43
  DEF Next, Arriving, Draining, HandingOver, Proving, Asking

LEMMA LockInit == Init => LockInv
<1>. SUFFICES ASSUME Init PROVE LockInv
  OBVIOUS
<1>1. \A p \in Slots : tower[p].at = "off" /\ serving = Nobody /\ request = Nothing
  BY DEF Init, Absent
<1>2. "off" \notin Holders \cup Handing \cup Changing \cup {"stopping", "claiming", "written"}
  BY DEF Holders, Handing, Changing
<1>3. LockHeld
  BY <1>1, <1>2 DEF Init, LockHeld, HoldersHold, LockIsTheLivings, ClaimingIsWithout,
       ChangingDrains, HandingIsInPlace, OneLine, SuccessorSettles, SuccessorOf, Up
<1>4. AskStands
  BY <1>1, <1>2 DEF Init, AskStands, ChangingIsAsked, WrittenIsHandedOver, AskedByNow
<1>. QED
  BY <1>3, <1>4 DEF LockInv

LEMMA LockInvHolds == LockInv => WorkStartsUnderTheLock
<1>. SUFFICES ASSUME LockInv, NEW p \in Slots, MayStartWork(p) PROVE serving = p
  BY DEF WorkStartsUnderTheLock
<1>1. tower[p].at \in {"looping", "serving"}
  BY DEF MayStartWork, Loops, LockInv, LockHeld, ChangingDrains, Changing, Handing
<1>. QED
  BY <1>1 DEF LockInv, LockHeld, HoldersHold, Holders

----------------------------------------------------------------------------
(* What is said to be applied. *)

\* A Tower takes the lock that was started from a binary which is no longer the one in place.
Overtaken == \E p \in Slots : Claim(p) /\ serving' = p /\ tower[p].version # binary

Early == {"off", "claiming", "arriving", "recording", "reverting", "reverted"}
Settling == {"opening", "looping", "serving", "draining", "ready"}

\* Whoever has a proof to give is version v, and b is in place: it is that version, or the record is
\* no longer about it.
Holds(r, v, b) == b = v \/ r.to # v \/ r.state = "back"

AskedIsRequest ==
  \A p \in Slots : tower[p].at \in Changing /\ request # Nothing =>
    request.version = tower[p].asked.version /\ request.rollback = tower[p].asked.rollback
EarlyOwesNothing == \A p \in Slots : tower[p].at \in Early => tower[p].proof = "none"
RevertingIsSupervised == \A p \in Slots : tower[p].at \in {"reverting", "reverted"} => supervised
ArrivingIsInPlace ==
  \A p \in Slots : tower[p].at \in {"arriving", "recording"} => tower[p].version = binary
SuccessorIsInPlace == \A p, q \in Slots : SuccessorOf(p, q) /\ Up(q) => tower[q].version = binary
DueIsInPlace ==
  \A p \in Slots : tower[p].at \in Settling /\ tower[p].proof = "due" =>
    Holds(record, tower[p].version, binary)
KeptIsInPlace ==
  \A p \in Slots : tower[p].at = "swapped" /\ tower[p].proof = "due" =>
    Holds(record, tower[p].version, kept[tower[p].version])

PlaceInv ==
  /\ AskedIsRequest
  /\ EarlyOwesNothing
  /\ RevertingIsSupervised
  /\ ArrivingIsInPlace
  /\ SuccessorIsInPlace
  /\ DueIsInPlace
  /\ KeptIsInPlace

\* The request keeps what it asks for, or there is none.
SameAsked ==
  request' # Nothing =>
    request # Nothing /\ request'.version = request.version /\ request'.rollback = request.rollback

\* Nothing is put in place, nothing is kept under another name, and the record stays about what it
\* was about.
Leaves ==
  /\ UNCHANGED <<supervised, binary>>
  /\ record'.to = record.to /\ (record.state = "back" => record'.state = "back")
  /\ kept' = kept \/ \A q \in Slots : tower[q].at # "swapped"

\* What a process may become while that is so.
Goes(x, y) ==
  /\ y.at \in Changing => (x.at \in Changing /\ y.asked = x.asked) \/ y.asked = request
  /\ y.at \in Early => y.proof = "none"
  /\ y.at \in {"reverting", "reverted"} => supervised
  /\ y.at \in {"arriving", "recording"} => y.version = binary
  /\ y.at \in Settling /\ y.proof = "due" =>
       y.version = binary \/ (x.at \in Settling /\ x.proof = "due" /\ y.version = x.version)
  /\ y.at = "swapped" /\ y.proof = "due" =>
       x.at = "swapped" /\ x.proof = "due" /\ y.version = x.version

LEMMA StaysAsItIs ==
  ASSUME PlaceInv, NEW q \in Slots
  PROVE  Goes(tower[q], tower[q])
BY DEF PlaceInv, EarlyOwesNothing, RevertingIsSupervised, ArrivingIsInPlace, Goes

LEMMA PlaceKept ==
  ASSUME PlaceInv, Leaves, SameAsked,
         \A q \in Slots : Goes(tower[q], tower'[q]),
         \A q, r \in Slots : SuccessorOf(q, r)' /\ Up(r)' =>
           \/ tower'[r].version = binary
           \/ SuccessorOf(q, r) /\ Up(r) /\ tower'[r].version = tower[r].version
  PROVE  PlaceInv'
<1>1. AskedIsRequest'
  BY DEF PlaceInv, AskedIsRequest, SameAsked, Goes
<1>2. EarlyOwesNothing' /\ RevertingIsSupervised' /\ ArrivingIsInPlace'
  BY DEF EarlyOwesNothing, RevertingIsSupervised, ArrivingIsInPlace, Goes, Leaves
<1>3. SuccessorIsInPlace'
  BY DEF PlaceInv, SuccessorIsInPlace, Leaves
<1>4. DueIsInPlace'
  BY DEF PlaceInv, DueIsInPlace, Holds, Goes, Leaves
<1>5. KeptIsInPlace'
  BY DEF PlaceInv, KeptIsInPlace, Holds, Goes, Leaves
<1>. QED
  BY <1>1, <1>2, <1>3, <1>4, <1>5 DEF PlaceInv

\* One process goes on.
LEMMA PlaceMoves ==
  ASSUME PlaceInv, Leaves, SameAsked, NEW p \in Slots, Only(p), Goes(tower[p], tower'[p]),
         Up(p)' => Up(p) /\ tower'[p].version = tower[p].version,
         tower'[p].at = "waiting" => tower[p].at = "waiting" /\ tower'[p].child = tower[p].child
  PROVE  PlaceInv'
<1>1. \A q \in Slots : Goes(tower[q], tower'[q])
  BY StaysAsItIs DEF Only
<1>2. \A q, r \in Slots : SuccessorOf(q, r)' => SuccessorOf(q, r)
  BY DEF SuccessorOf, Only
<1>3. \A r \in Slots : Up(r)' => Up(r) /\ tower'[r].version = tower[r].version
  BY DEF Only, Up
<1>. QED
  BY <1>1, <1>2, <1>3, PlaceKept

\* One goes somewhere else, with all that it is.
LEMMA PlaceGoto ==
  ASSUME TypeOK, PlaceInv, Leaves, SameAsked, NEW p \in Slots, NEW place, Goto(p, place), Up(p),
         place \notin {"swapped", "waiting"},
         place \in Changing => tower[p].at \in Changing,
         place \in Early => tower[p].at \in Early,
         place \in {"reverting", "reverted"} => supervised,
         place \in {"arriving", "recording"} => tower[p].at \in {"arriving", "recording"},
         place \in Settling => tower[p].at \in Settling \cup Early
  PROVE  PlaceInv'
<1>1. /\ Only(p) /\ tower'[p].at = place /\ tower'[p].version = tower[p].version
      /\ tower'[p].asked = tower[p].asked /\ tower'[p].proof = tower[p].proof
  BY TypesHave, ProcessesHave DEF Goto, Only
<1>2. Goes(tower[p], tower'[p])
  BY <1>1 DEF Goes, PlaceInv, EarlyOwesNothing, ArrivingIsInPlace
<1>. QED
  BY <1>1, <1>2, PlaceMoves

LEMMA PlaceEnds ==
  ASSUME TypeOK, PlaceInv, Leaves, SameAsked, NEW p \in Slots,
         tower' = [tower EXCEPT ![p] = Absent]
  PROVE  PlaceInv'
<1>1. Only(p) /\ tower'[p] = Absent
  BY TypesHave DEF Only
<1>2. Goes(tower[p], tower'[p]) /\ ~Up(p)' /\ tower'[p].at # "waiting"
  BY <1>1 DEF Goes, Absent, Up, Changing, Handing, Settling
<1>. QED
  BY <1>1, <1>2, PlaceMoves

LEMMA PlaceRests ==
  ASSUME PlaceInv, Leaves, SameAsked, UNCHANGED tower
  PROVE  PlaceInv'
<1>1. \A q \in Slots : Goes(tower[q], tower'[q])
  BY StaysAsItIs
<1>. QED
  BY <1>1, PlaceKept DEF SuccessorOf, Up

\* A binary is put in place, or the record comes to be about another: by the one Tower there is
\* besides those that have still to claim the lock.
LEMMA PlaceTurns ==
  ASSUME PlaceInv, SameAsked, UNCHANGED supervised, NEW p \in Slots, Only(p), Up(p),
         \A q \in Slots : q # p /\ Up(q) => tower[q].at = "claiming",
         tower'[p].at \in {"swapped", "written", "looping", "reverted", "undone"},
         tower'[p].version = tower[p].version, tower'[p].proof = tower[p].proof,
         tower'[p].asked = tower[p].asked,
         tower'[p].at \in Changing => tower[p].at \in Changing,
         tower'[p].at = "reverted" => tower[p].at = "reverting",
         tower'[p].at = "looping" /\ tower[p].proof = "due" =>
           Holds(record', tower[p].version, binary'),
         tower'[p].at = "swapped" /\ tower[p].proof = "due" =>
           Holds(record', tower[p].version, kept'[tower[p].version])
  PROVE  PlaceInv'
<1>1. \A q \in Slots : q # p => tower'[q] = tower[q] /\ tower[q].at \in {"off", "claiming"}
  BY DEF Only, Up
<1>2. /\ {"off", "claiming"} \cap (Changing \cup Settling) = {}
      /\ {"swapped", "written", "looping", "undone"} \cap Early = {}
      /\ {"swapped", "written", "reverted", "undone"} \cap Settling = {}
      /\ "reverting" \in Early /\ "reverted" \in Early
  BY DEF Changing, Handing, Settling, Early
<1>3. AskedIsRequest'
  BY <1>1, <1>2 DEF PlaceInv, AskedIsRequest, SameAsked
<1>4. EarlyOwesNothing' /\ RevertingIsSupervised' /\ ArrivingIsInPlace'
  BY <1>1, <1>2 DEF PlaceInv, EarlyOwesNothing, RevertingIsSupervised, ArrivingIsInPlace
<1>5. SuccessorIsInPlace'
  BY <1>1 DEF SuccessorIsInPlace, SuccessorOf
<1>6. DueIsInPlace'
  BY <1>1, <1>2 DEF DueIsInPlace
<1>7. KeptIsInPlace'
  BY <1>1 DEF KeptIsInPlace
<1>. QED
  BY <1>3, <1>4, <1>5, <1>6, <1>7 DEF PlaceInv

\* Beside a Tower that changes the binary or the record there is none but those.
LEMMA Beside ==
  ASSUME TypeOK, LockHeld, PlaceInv, NEW p \in Slots,
         tower[p].at \in {"ready", "swapped", "reverting", "undoing", "undone"},
         NEW q \in Slots, q # p, Up(q)
  PROVE  tower[q].at = "claiming"
<1>1. CASE tower[p].at \in {"undoing", "undone"}
  BY <1>1, Alone DEF Handing
<1>2. CASE tower[p].at \in {"ready", "swapped", "reverting"}
  <2>1. tower[q].at \notin Holders
    BY <1>2 DEF LockHeld, HoldersHold, Holders
  <2>2. CASE supervised
    BY <2>1, <2>2, TypesHave, ProcessesHave DEF LockHeld, HandingIsInPlace, Places, Up
  <2>3. CASE ~supervised
    <3>1. tower[p].at \in Changing /\ tower[p].at # "waiting" /\ Up(p)
      BY <1>2, <2>3 DEF PlaceInv, RevertingIsSupervised, Changing, Up
    <3>. QED
      BY <2>3, <3>1 DEF LockHeld, OneLine, SuccessorSettles, SuccessorOf
  <2>. QED
    BY <2>2, <2>3
<1>. QED
  BY <1>1, <1>2

LEMMA ProgressAsks ==
  ASSUME request \in Requests, NEW o, request' = request \/ request' = Progress(o)
  PROVE  SameAsked
BY DEF SameAsked, Progress, Requests, Nothing

LEMMA GotoKeeps ==
  ASSUME TypeOK, NEW p \in Slots, NEW place, Goto(p, place)
  PROVE  tower'[p].version = tower[p].version /\ tower'[p].proof = tower[p].proof
BY TypesHave, ProcessesHave DEF Goto

\* A new request is made while nobody installs.
LEMMA PlaceAsked ==
  ASSUME PlaceInv, ~Installing, UNCHANGED <<tower, supervised, binary, kept, record>>
  PROVE  PlaceInv'
<1>1. \A q \in Slots : tower[q].at \notin Changing
  BY DEF Installing, Changing, Handing
<1>. QED
  BY <1>1
  DEF PlaceInv, AskedIsRequest, EarlyOwesNothing, RevertingIsSupervised, ArrivingIsInPlace,
      SuccessorIsInPlace, DueIsInPlace, KeptIsInPlace, SuccessorOf, Up

LEMMA PlaceStep ==
  ASSUME TypeOK, Running, LockInv, PlaceInv, ~Hasty, ~Bystanders, [Next]_vars, ~Overtaken
  PROVE  PlaceInv'
<1>0. /\ TypeOK /\ Running /\ LockHeld /\ PlaceInv /\ ~Hasty /\ ~Overtaken
      /\ request \in Requests /\ record \in Records /\ kept \in Keepings
      /\ tower \in [Slots -> Processes]
  BY TypesHave DEF LockInv
<1>1. ASSUME NEW p \in Slots, Start(p) PROVE PlaceInv'
  <2>1. Leaves /\ SameAsked /\ Only(p) /\ tower'[p] = Begin(p) /\ ~Up(p)
        /\ \A q \in Slots : tower[q].child # p
    BY <1>0, <1>1, ProgressAsks DEF Start, IsFree, Leaves, Only, Rigid, files
  <2>2. Begin(p).at = "claiming" /\ Begin(p).proof = "none" /\ Begin(p).version = binary
    BY DEF Begin, Absent
  <2>3. \A q \in Slots : Goes(tower[q], tower'[q])
    BY <1>0, <2>1, <2>2, StaysAsItIs DEF Only, Goes, Changing, Handing, Settling
  <2>4. \A q, r \in Slots : SuccessorOf(q, r)' /\ Up(r)' =>
          SuccessorOf(q, r) /\ Up(r) /\ tower'[r] = tower[r]
    BY <2>1, <2>2 DEF SuccessorOf, Up, Only
  <2>. QED
    BY <1>0, <2>1, <2>3, <2>4, PlaceKept
<1>2. ASSUME NEW p \in Slots, Claim(p) PROVE PlaceInv'
  <2>1. Leaves /\ SameAsked
    BY <1>0, <1>2, ProgressAsks DEF Claim, Leaves, Rigid, files
  <2>2. CASE tower' = [tower EXCEPT ![p] = Absent]
    BY <1>0, <2>1, <2>2, PlaceEnds
  <2>3. CASE serving' = p /\ Goto(p, "arriving")
    <3>1. tower[p].version = binary
      BY <1>0, <1>2, <2>3 DEF Overtaken
    <3>2. /\ Only(p) /\ tower'[p].at = "arriving" /\ tower'[p].version = tower[p].version
          /\ tower'[p].proof = tower[p].proof /\ tower[p].at = "claiming"
      BY <1>0, <1>2, <2>3, ProcessesHave DEF Claim, Goto, Only
    <3>3. Goes(tower[p], tower'[p]) /\ Up(p)
      BY <1>0, <3>1, <3>2
      DEF Goes, PlaceInv, EarlyOwesNothing, Early, Changing, Handing, Settling, Up
    <3>. QED
      BY <1>0, <2>1, <3>2, <3>3, PlaceMoves
  <2>. QED
    BY <1>2, <2>2, <2>3 DEF Claim
<1>3. ASSUME NEW p \in Slots, ArriveRequest(p) PROVE PlaceInv'
  <2>1. Leaves /\ SameAsked
    BY <1>0, <1>3, ProgressAsks DEF ArriveRequest, Leaves, Rigid, files, Records
  <2>. QED
    BY <1>0, <1>3, <2>1, PlaceGoto DEF ArriveRequest, Early, Settling, Changing, Handing, Up
<1>4. ASSUME NEW p \in Slots, ArriveRecord(p) PROVE PlaceInv'
  <2>1. Leaves /\ SameAsked
    <3>1. \A q \in Slots : tower[q].at # "swapped"
      BY <1>0, <1>4 DEF ArriveRecord, LockHeld, HoldersHold, Holders
    <3>. QED
      BY <1>0, <1>4, <3>1, ProgressAsks
      DEF ArriveRecord, IsUnsettled, Leaves, Rigid, files, Records
  <2>2. CASE Goto(p, "opening")
    BY <1>0, <1>4, <2>1, <2>2, PlaceGoto DEF ArriveRecord, Early, Settling, Changing, Handing, Up
  <2>3. CASE Goto(p, "reverting") /\ supervised
    BY <1>0, <1>4, <2>1, <2>3, PlaceGoto DEF ArriveRecord, Early, Settling, Changing, Handing, Up
  <2>4. CASE tower' = [tower EXCEPT ![p].at = "opening", ![p].proof = "due"]
    <3>1. /\ Only(p) /\ tower'[p].at = "opening" /\ tower'[p].version = tower[p].version
          /\ Up(p)
      BY <1>0, <1>4, <2>4, ProcessesHave DEF ArriveRecord, Only, Up
    <3>2. tower[p].version = binary
      BY <1>0, <1>4 DEF ArriveRecord, PlaceInv, ArrivingIsInPlace
    <3>3. Goes(tower[p], tower'[p])
      BY <3>1, <3>2 DEF Goes, Early, Changing, Handing
    <3>. QED
      BY <1>0, <2>1, <3>1, <3>3, PlaceMoves
  <2>. QED
    BY <1>4, <2>2, <2>3, <2>4 DEF ArriveRecord
<1>5. ASSUME NEW p \in Slots, Revert(p) PROVE PlaceInv'
  <2>1. /\ Only(p) /\ tower[p].at = "reverting" /\ tower'[p].at = "reverted"
        /\ tower'[p].version = tower[p].version /\ tower'[p].asked = tower[p].asked
        /\ tower'[p].proof = tower[p].proof /\ UNCHANGED supervised
    BY <1>0, <1>5, GotoIs, GotoKeeps DEF Revert, Rigid
  <2>2. SameAsked
    BY <1>0, <1>5, ProgressAsks DEF Revert
  <2>. QED
    BY <1>0, <2>1, <2>2, Beside, PlaceTurns DEF Up, Changing, Handing
<1>6. ASSUME NEW p \in Slots, Reverted(p) PROVE PlaceInv'
  <2>1. Leaves /\ SameAsked /\ tower' = [tower EXCEPT ![p] = Absent]
    BY <1>0, <1>6, ProgressAsks DEF Reverted, Gone, Leaves, Rigid, files, Records
  <2>. QED
    BY <1>0, <2>1, PlaceEnds
<1>7. ASSUME NEW p \in Slots, Dies(p) PROVE PlaceInv'
  <2>1. Leaves /\ SameAsked /\ tower' = [tower EXCEPT ![p] = Absent]
    BY <1>0, <1>7, ProgressAsks DEF Dies, Gone, Leaves, Rigid, files, Records
  <2>. QED
    BY <1>0, <2>1, PlaceEnds
<1>8. ASSUME NEW p \in Slots, Open(p) PROVE PlaceInv'
  <2>1. Leaves /\ SameAsked
    BY <1>0, <1>8, ProgressAsks DEF Open, Leaves, Rigid, files, Records
  <2>. QED
    BY <1>0, <1>8, <2>1, PlaceGoto DEF Open, Early, Settling, Changing, Handing, Up
<1>9. ASSUME NEW p \in Slots, Bind(p) PROVE PlaceInv'
  <2>1. Leaves /\ SameAsked
    BY <1>0, <1>9, ProgressAsks DEF Bind, Leaves, Rigid, files, Records
  <2>. QED
    BY <1>0, <1>9, <2>1, PlaceGoto DEF Bind, Early, Settling, Changing, Handing, Up
<1>10. ASSUME NEW p \in Slots, TakeStop(p) PROVE PlaceInv'
  <2>1. Leaves /\ SameAsked /\ Only(p)
    BY <1>0, <1>10, ProgressAsks DEF TakeStop, Leaves, Only, Rigid, files, Records
  <2>2. /\ Up(p) /\ tower'[p].version = tower[p].version
        /\ tower'[p].child = tower[p].child
        /\ Goes(tower[p], tower'[p])
    BY <1>0, <1>10, StaysAsItIs, ProcessesHave DEF TakeStop, Goes, Early, Settling, Changing, Handing, Up
  <2>3. tower'[p].at = "waiting" => tower[p].at = "waiting"
    BY <1>0, <1>10, ProcessesHave DEF TakeStop, Up
  <2>. QED
    BY <1>0, <2>1, <2>2, <2>3, PlaceMoves
<1>11. ASSUME NEW p \in Slots, TakeRequest(p) PROVE PlaceInv'
  <2>1. Leaves /\ SameAsked /\ Only(p)
    BY <1>0, <1>11, ProgressAsks DEF TakeRequest, Leaves, Only, Rigid, files, Records
  <2>2. /\ Up(p) /\ tower'[p].version = tower[p].version
        /\ tower'[p].child = tower[p].child
        /\ Goes(tower[p], tower'[p])
    BY <1>0, <1>11, StaysAsItIs, ProcessesHave DEF TakeRequest, Goes, Early, Settling, Changing, Handing, Up
  <2>3. tower'[p].at = "waiting" => tower[p].at = "waiting"
    BY <1>0, <1>11, ProcessesHave DEF TakeRequest, Up
  <2>. QED
    BY <1>0, <2>1, <2>2, <2>3, PlaceMoves
<1>12. ASSUME NEW p \in Slots, DrainStopped(p) PROVE PlaceInv'
  <2>1. Leaves /\ SameAsked
    BY <1>0, <1>12, ProgressAsks DEF DrainStopped, Leaves, Rigid, files, Records
  <2>. QED
    BY <1>0, <1>12, <2>1, PlaceGoto DEF DrainStopped, Early, Settling, Changing, Handing, Up
<1>13. ASSUME NEW p \in Slots, DrainAbandoned(p) PROVE PlaceInv'
  <2>1. Leaves /\ SameAsked /\ Only(p)
    BY <1>0, <1>13, ProgressAsks DEF DrainAbandoned, Leaves, Only, Rigid, files, Records
  <2>2. /\ Up(p) /\ tower'[p].version = tower[p].version
        /\ tower'[p].child = tower[p].child
        /\ Goes(tower[p], tower'[p])
    BY <1>0, <1>13, StaysAsItIs, ProcessesHave DEF DrainAbandoned, Goes, Early, Settling, Changing, Handing, Up
  <2>3. tower'[p].at = "waiting" => tower[p].at = "waiting"
    BY <1>0, <1>13, ProcessesHave DEF DrainAbandoned, Up
  <2>. QED
    BY <1>0, <2>1, <2>2, <2>3, PlaceMoves
<1>14. ASSUME NEW p \in Slots, DrainQuiet(p) PROVE PlaceInv'
  <2>1. Leaves /\ SameAsked
    BY <1>0, <1>14, ProgressAsks DEF DrainQuiet, Leaves, Rigid, files, Records
  <2>. QED
    BY <1>0, <1>14, <2>1, PlaceGoto DEF DrainQuiet, StillAsked, Early, Settling, Changing, Handing, Up
<1>15. ASSUME NEW p \in Slots, Postpone(p) PROVE PlaceInv'
  <2>1. Leaves /\ SameAsked /\ Only(p)
    BY <1>0, <1>15, ProgressAsks DEF Postpone, StillAsked, Leaves, Only, Rigid, files, Records
  <2>2. /\ Up(p) /\ tower'[p].version = tower[p].version
        /\ tower'[p].child = tower[p].child
        /\ Goes(tower[p], tower'[p])
    BY <1>0, <1>15, StaysAsItIs, ProcessesHave DEF Postpone, StillAsked, Goes, Early, Settling, Changing, Handing, Up
  <2>3. tower'[p].at = "waiting" => tower[p].at = "waiting"
    BY <1>0, <1>15, ProcessesHave DEF Postpone, StillAsked, Up
  <2>. QED
    BY <1>0, <2>1, <2>2, <2>3, PlaceMoves
<1>16. ASSUME NEW p \in Slots, CutOff(p) PROVE PlaceInv'
  <2>1. Leaves /\ SameAsked
    BY <1>0, <1>16, ProgressAsks DEF CutOff, Leaves, Rigid, files, Records
  <2>. QED
    BY <1>0, <1>16, <2>1, PlaceGoto DEF CutOff, StillAsked, Early, Settling, Changing, Handing, Up
<1>17. ASSUME NEW p \in Slots, Stops(p) PROVE PlaceInv'
  <2>1. Leaves /\ SameAsked /\ tower' = [tower EXCEPT ![p] = Absent]
    BY <1>0, <1>17, ProgressAsks DEF Stops, Gone, Leaves, Rigid, files, Records
  <2>. QED
    BY <1>0, <2>1, PlaceEnds
<1>18. ASSUME NEW p \in Slots, Swap(p) PROVE PlaceInv'
  <2>1. /\ Only(p) /\ tower[p].at = "ready" /\ tower'[p].at = "swapped"
        /\ tower'[p].version = tower[p].version /\ tower'[p].asked = tower[p].asked
        /\ tower'[p].proof = tower[p].proof /\ UNCHANGED supervised
    BY <1>0, <1>18, GotoIs, GotoKeeps DEF Swap, Rigid
  <2>2. SameAsked /\ UNCHANGED record
    BY <1>0, <1>18, ProgressAsks DEF Swap
  <2>3. kept'[tower[p].version] = binary
    BY <1>0, <1>18, VersionIs DEF Swap, Keepings, Up
  <2>4. tower[p].proof = "due" => Holds(record', tower[p].version, kept'[tower[p].version])
    BY <1>0, <2>1, <2>2, <2>3 DEF PlaceInv, DueIsInPlace, Settling
  <2>. QED
    BY <1>0, <2>1, <2>2, <2>4, Beside, PlaceTurns DEF Up, Changing, Handing
<1>19. ASSUME NEW p \in Slots, SwapFails(p) PROVE PlaceInv'
  <2>1. /\ Leaves /\ SameAsked /\ Only(p) /\ tower[p].at = "ready"
    <3>1. \A q \in Slots : tower[q].at # "swapped"
      BY <1>0, <1>19 DEF SwapFails, LockHeld, HoldersHold, Holders
    <3>. QED
      BY <1>0, <1>19, <3>1, ProgressAsks DEF SwapFails, Resume, Only, Leaves, Rigid
  <2>2. /\ tower'[p].at = "looping" /\ tower'[p].version = tower[p].version
        /\ tower'[p].proof = tower[p].proof
    BY <1>0, <1>19, ProcessesHave DEF SwapFails, Resume, Resumed
  <2>3. Goes(tower[p], tower'[p]) /\ Up(p)
    BY <2>1, <2>2 DEF Goes, Early, Settling, Changing, Handing, Up
  <2>. QED
    BY <1>0, <2>1, <2>2, <2>3, PlaceMoves
<1>20. ASSUME NEW p \in Slots, WriteHandover(p) PROVE PlaceInv'
  <2>1. /\ Only(p) /\ tower[p].at = "swapped" /\ tower'[p].at = "written"
        /\ tower'[p].version = tower[p].version /\ tower'[p].asked = tower[p].asked
        /\ tower'[p].proof = tower[p].proof /\ UNCHANGED supervised
    BY <1>0, <1>20, GotoIs, GotoKeeps DEF WriteHandover, Rigid
  <2>2. SameAsked
    BY <1>0, <1>20, ProgressAsks DEF WriteHandover
  <2>. QED
    BY <1>0, <2>1, <2>2, Beside, PlaceTurns DEF Up, Changing, Handing
<1>21. ASSUME NEW p \in Slots, WriteHandoverFails(p) PROVE PlaceInv'
  <2>1. /\ Only(p) /\ tower[p].at = "swapped" /\ tower'[p].at = "looping"
        /\ tower'[p].version = tower[p].version /\ tower'[p].asked = tower[p].asked
        /\ tower'[p].proof = tower[p].proof /\ UNCHANGED supervised
    BY <1>0, <1>21, ProcessesHave DEF WriteHandoverFails, Resume, Resumed, Only, Rigid
  <2>2. SameAsked /\ UNCHANGED record
    BY <1>0, <1>21, ProgressAsks DEF WriteHandoverFails
  <2>3. tower[p].version \in Versions
    BY <1>0, <2>1, VersionIs DEF Up
  <2>4. tower[p].proof = "due" => Holds(record', tower[p].version, binary')
    <3>1. kept[tower[p].version] = tower[p].version => binary' = tower[p].version
      BY <1>21, <2>3, UpdateAssumption DEF WriteHandoverFails, IsKept
    <3>. QED
      BY <1>0, <2>1, <2>2, <3>1 DEF PlaceInv, KeptIsInPlace, Holds
  <2>. QED
    BY <1>0, <2>1, <2>2, <2>4, Beside, PlaceTurns DEF Up, Changing, Handing
<1>22. ASSUME NEW p \in Slots, Exit75(p) PROVE PlaceInv'
  <2>1. Leaves /\ SameAsked /\ tower' = [tower EXCEPT ![p] = Absent]
    BY <1>0, <1>22, ProgressAsks DEF Exit75, Gone, Leaves, Rigid, files, Records
  <2>. QED
    BY <1>0, <2>1, PlaceEnds
<1>23. ASSUME NEW p \in Slots, GiveUpServing(p) PROVE PlaceInv'
  <2>1. Leaves /\ SameAsked
    BY <1>0, <1>23, ProgressAsks DEF GiveUpServing, Leaves, Rigid, files, Records
  <2>. QED
    BY <1>0, <1>23, <2>1, PlaceGoto DEF GiveUpServing, Early, Settling, Changing, Handing, Up
<1>24. ASSUME NEW p \in Slots, SuccessorFails(p) PROVE PlaceInv'
  <2>1. Leaves /\ SameAsked
    BY <1>0, <1>24, ProgressAsks DEF SuccessorFails, Leaves, Rigid, files, Records
  <2>. QED
    BY <1>0, <1>24, <2>1, PlaceGoto DEF SuccessorFails, Early, Settling, Changing, Handing, Up
<1>25. ASSUME NEW p \in Slots, NEW q \in Slots, StartSuccessor(p, q) PROVE PlaceInv'
  <2>1. /\ Leaves /\ SameAsked /\ p # q /\ tower[p].at = "handing"
        /\ \A r \in Slots : r \notin {p, q} => tower'[r] = tower[r]
        /\ tower'[q] = Begin(q)
        /\ \A r \in Slots : tower[r].child # q
    BY <1>0, <1>25, ProgressAsks DEF StartSuccessor, IsFree, Up, Leaves, Rigid, files
  <2>2. /\ tower'[p].at = "waiting" /\ tower'[p].child = q /\ tower'[p].asked = tower[p].asked
        /\ tower'[p].version = tower[p].version
    BY <1>0, <1>25, <2>1, ProcessesHave DEF StartSuccessor
  <2>3. Begin(q).at = "claiming" /\ Begin(q).proof = "none" /\ Begin(q).version = binary
    BY DEF Begin, Absent
  <2>4. Goes(tower[p], tower'[p])
    BY <2>1, <2>2 DEF Goes, Early, Settling, Changing, Handing
  <2>5. Goes(tower[q], tower'[q])
    BY <2>1, <2>3 DEF Goes, Settling, Changing, Handing
  <2>6. \A r \in Slots : Goes(tower[r], tower'[r])
    BY <1>0, <2>1, <2>4, <2>5, StaysAsItIs
  <2>7. \A r, s \in Slots : SuccessorOf(r, s)' /\ Up(s)' =>
          \/ tower'[s].version = binary
          \/ SuccessorOf(r, s) /\ Up(s) /\ tower'[s].version = tower[s].version
    <3>1. TAKE r, s \in Slots
    <3>2. CASE s = q
      BY <2>1, <2>3, <3>2
    <3>3. CASE s # q
      BY <2>1, <2>2, <3>3 DEF SuccessorOf, Up, Begin, Absent
    <3>. QED
      BY <3>2, <3>3
  <2>. QED
    BY <1>0, <2>1, <2>6, <2>7, PlaceKept
<1>26. ASSUME NEW p \in Slots, Answered(p) PROVE PlaceInv'
  <2>1. Leaves /\ SameAsked /\ tower' = [tower EXCEPT ![p] = Absent]
    BY <1>0, <1>26, ProgressAsks DEF Answered, Gone, Leaves, Rigid, files, Records
  <2>. QED
    BY <1>0, <2>1, PlaceEnds
<1>27. ASSUME NEW p \in Slots, NotAnswered(p) PROVE PlaceInv'
  <2> DEFINE q == tower[p].child
  <2>1. /\ Leaves /\ SameAsked /\ tower[p].at = "waiting" /\ q \in Slots /\ q # p
    BY <1>0, <1>27, ProgressAsks DEF NotAnswered, Running, Runs, Leaves, Rigid, files
  <2>2. /\ \A r \in Slots : r \notin {p, q} => tower'[r] = tower[r]
        /\ tower'[q] = Absent
        /\ tower'[p].at = "undoing" /\ tower'[p].asked = tower[p].asked
        /\ tower'[p].version = tower[p].version
    BY <1>0, <1>27, <2>1, ProcessesHave DEF NotAnswered
  <2>3. Goes(tower[p], tower'[p]) /\ Goes(tower[q], tower'[q])
    BY <2>1, <2>2 DEF Goes, Absent, Early, Settling, Changing, Handing
  <2>4. \A r \in Slots : Goes(tower[r], tower'[r])
    BY <1>0, <2>2, <2>3, StaysAsItIs
  <2>5. \A r, s \in Slots : SuccessorOf(r, s)' /\ Up(s)' =>
          SuccessorOf(r, s) /\ Up(s) /\ tower'[s].version = tower[s].version
    BY <2>1, <2>2 DEF SuccessorOf, Up, Absent
  <2>. QED
    BY <1>0, <2>1, <2>4, <2>5, PlaceKept
<1>28. ASSUME NEW p \in Slots, Undo(p) PROVE PlaceInv'
  <2>1. /\ Only(p) /\ tower[p].at = "undoing" /\ tower'[p].at = "undone"
        /\ tower'[p].version = tower[p].version /\ tower'[p].asked = tower[p].asked
        /\ tower'[p].proof = tower[p].proof /\ UNCHANGED supervised
    BY <1>0, <1>28, GotoIs, GotoKeeps DEF Undo, Rigid
  <2>2. SameAsked
    BY <1>0, <1>28, ProgressAsks DEF Undo
  <2>. QED
    BY <1>0, <2>1, <2>2, Beside, PlaceTurns DEF Up, Changing, Handing
<1>29. ASSUME NEW p \in Slots, Undone(p) PROVE PlaceInv'
  <2>1. /\ Only(p) /\ tower[p].at = "undone" /\ tower'[p].at = "looping"
        /\ tower'[p].version = tower[p].version /\ tower'[p].asked = tower[p].asked
        /\ tower'[p].proof = tower[p].proof /\ UNCHANGED supervised
    BY <1>0, <1>29, ProcessesHave DEF Undone, Resume, Resumed, Only, Rigid
  <2>2. SameAsked /\ record'.state = "back"
    BY <1>0, <1>29, ProgressAsks DEF Undone, Records
  <2>. QED
    BY <1>0, <2>1, <2>2, Beside, PlaceTurns DEF Holds, Up, Changing, Handing
<1>30. ASSUME NEW p \in Slots, Prove(p) PROVE PlaceInv'
  <2>1. Leaves /\ SameAsked /\ Only(p)
    BY <1>0, <1>30, ProgressAsks DEF Prove, Outcome, Leaves, Only, Rigid, files, Records
  <2>2. /\ Up(p) /\ tower'[p].version = tower[p].version
        /\ tower'[p].child = tower[p].child
        /\ Goes(tower[p], tower'[p])
    BY <1>0, <1>30, StaysAsItIs, ProcessesHave DEF Prove, Outcome, Goes, Early, Settling, Changing, Handing, Up
  <2>3. tower'[p].at = "waiting" => tower[p].at = "waiting"
    BY <1>0, <1>30, ProcessesHave DEF Prove, Outcome, Up
  <2>. QED
    BY <1>0, <2>1, <2>2, <2>3, PlaceMoves
<1>31. ASSUME NEW p \in Slots, Proved(p) PROVE PlaceInv'
  <2>1. /\ Only(p) /\ Up(p) /\ tower[p].proof = "answered" /\ tower'[p].proof = "none"
        /\ tower'[p].at = tower[p].at /\ tower'[p].version = tower[p].version
        /\ tower'[p].asked = tower[p].asked /\ tower'[p].child = tower[p].child
    BY <1>0, <1>31, ProcessesHave DEF Proved, Only
  <2>2. SameAsked /\ UNCHANGED <<supervised, binary, kept>> /\ record'.to = record.to
    BY <1>0, <1>31, ProgressAsks DEF Proved, Rigid, Records
  <2>3. tower[p].at \notin Early
    BY <1>0, <2>1 DEF PlaceInv, EarlyOwesNothing
  <2>4. ASSUME NEW q \in Slots, q # p, tower[q].at \in Settling \cup {"swapped"}
        PROVE  tower[q].at # "swapped" /\ tower[q].version = binary
    <3>1. tower[q].at \in Holders /\ tower[q].at # "waiting" /\ Up(q)
      BY <2>4 DEF Settling, Holders, Up
    <3>2. tower[p].at \notin Holders
      BY <1>0, <2>4, <3>1 DEF LockHeld, HoldersHold
    <3>3. tower[p].at \in Handing
      BY <1>0, <2>3, <3>2, ProcessesHave DEF Places, Early
    <3>4. SuccessorOf(p, q)
      BY <1>0, <2>1, <2>4, <3>1, <3>3 DEF LockHeld, HandingIsInPlace, OneLine, SuccessorOf
    <3>. QED
      BY <1>0, <3>1, <3>4
      DEF PlaceInv, SuccessorIsInPlace, LockHeld, SuccessorSettles, Changing
  <2>5. AskedIsRequest' /\ EarlyOwesNothing' /\ RevertingIsSupervised' /\ ArrivingIsInPlace'
    BY <1>0, <2>1, <2>2
    DEF PlaceInv, AskedIsRequest, EarlyOwesNothing, RevertingIsSupervised, ArrivingIsInPlace,
        SameAsked, Only
  <2>6. SuccessorIsInPlace'
    BY <1>0, <2>1, <2>2 DEF PlaceInv, SuccessorIsInPlace, SuccessorOf, Up, Only
  <2>7. DueIsInPlace' /\ KeptIsInPlace'
    BY <2>1, <2>2, <2>4 DEF DueIsInPlace, KeptIsInPlace, Holds, Only
  <2>. QED
    BY <2>5, <2>6, <2>7 DEF PlaceInv
<1>32. ASSUME NEW p \in Slots, ProofGivenUp(p) PROVE PlaceInv'
  <2>1. Leaves /\ SameAsked /\ Only(p)
    BY <1>0, <1>32, ProgressAsks DEF ProofGivenUp, Leaves, Only, Rigid, files, Records
  <2>2. /\ Up(p) /\ tower'[p].version = tower[p].version
        /\ tower'[p].child = tower[p].child
        /\ Goes(tower[p], tower'[p])
    BY <1>0, <1>32, StaysAsItIs, ProcessesHave DEF ProofGivenUp, Goes, Early, Settling, Changing, Handing, Up
  <2>3. tower'[p].at = "waiting" => tower[p].at = "waiting"
    BY <1>0, <1>32, ProcessesHave DEF ProofGivenUp, Up
  <2>. QED
    BY <1>0, <2>1, <2>2, <2>3, PlaceMoves
<1>33. ASSUME NEW p \in Slots, Crash(p) PROVE PlaceInv'
  <2>1. Leaves /\ SameAsked /\ tower' = [tower EXCEPT ![p] = Absent]
    BY <1>0, <1>33, ProgressAsks DEF Crash, Gone, Leaves, Rigid, files, Records
  <2>. QED
    BY <1>0, <2>1, PlaceEnds
<1>34. ASSUME NEW p \in Slots, NEW t \in Tasks, Launch(p, t) PROVE PlaceInv'
  <2>1. Leaves /\ SameAsked /\ UNCHANGED tower
    BY <1>0, <1>34, ProgressAsks DEF Launch, Leaves, Rigid, files, Records
  <2>. QED
    BY <1>0, <2>1, PlaceRests
<1>35. ASSUME NEW t \in Tasks, RunEnds(t) PROVE PlaceInv'
  <2>1. Leaves /\ SameAsked /\ UNCHANGED tower
    BY <1>0, <1>35, ProgressAsks DEF RunEnds, Leaves, Rigid, files, Records
  <2>. QED
    BY <1>0, <2>1, PlaceRests
<1>36. ASSUME CancelInstall PROVE PlaceInv'
  <2>1. Leaves /\ SameAsked /\ UNCHANGED tower
    BY <1>0, <1>36, ProgressAsks DEF CancelInstall, Leaves, Rigid, files, Records
  <2>. QED
    BY <1>0, <2>1, PlaceRests
<1>37. ASSUME AskToStop PROVE PlaceInv'
  <2>1. Leaves /\ SameAsked /\ UNCHANGED tower
    BY <1>0, <1>37, ProgressAsks DEF AskToStop, Leaves, Rigid, files, Records
  <2>. QED
    BY <1>0, <2>1, PlaceRests
<1>38. ASSUME TimePasses PROVE PlaceInv'
  <2>1. Leaves /\ SameAsked /\ UNCHANGED tower
    BY <1>0, <1>38, ProgressAsks DEF TimePasses, Leaves, Rigid, files, Records
  <2>. QED
    BY <1>0, <2>1, PlaceRests
<1>39. ASSUME UNCHANGED vars PROVE PlaceInv'
  <2>1. Leaves /\ SameAsked /\ UNCHANGED tower
    BY <1>0, <1>39, ProgressAsks DEF vars, Leaves, files
  <2>. QED
    BY <1>0, <2>1, PlaceRests
<1>40. ASSUME NEW p \in Slots, NEW by \in {"dashboard", "watcher"}, AskToInstall(p, by) PROVE PlaceInv'
  <2>1. UNCHANGED <<tower, supervised, binary, kept, record>> /\ ~Installing
    BY <1>0, <1>40 DEF AskToInstall, Rigid
  <2>. QED
    BY <1>0, <2>1, PlaceAsked
<1>41. ASSUME AskFromShell PROVE PlaceInv'
  <2>1. UNCHANGED <<tower, supervised, binary, kept, record>> /\ ~Installing
    BY <1>0, <1>41 DEF AskFromShell, Rigid
  <2>. QED
    BY <1>0, <2>1, PlaceAsked
<1>42. ASSUME AskToRollBack PROVE PlaceInv'
  <2>1. UNCHANGED <<tower, supervised, binary, kept, record>> /\ ~Installing
    BY <1>0, <1>42 DEF AskToRollBack, Rigid
  <2>. QED
    BY <1>0, <2>1, PlaceAsked
<1>43. ASSUME Replace PROVE PlaceInv'
  <2>1. UNCHANGED <<tower, supervised>> /\ \A q \in Slots : tower[q].at = "off"
    BY <1>0, <1>43 DEF Replace, NoneUp, Up, Rigid
  <2>. QED
    BY <1>0, <2>1
    DEF PlaceInv, AskedIsRequest, EarlyOwesNothing, RevertingIsSupervised, ArrivingIsInPlace,
        SuccessorIsInPlace, DueIsInPlace, KeptIsInPlace, SuccessorOf, Up, Changing, Handing, Settling
<1>. QED
  BY <1>1, <1>2, <1>3, <1>4, <1>5, <1>6, <1>7, <1>8, <1>9, <1>10, <1>11, <1>12, <1>13,
     <1>14, <1>15, <1>16, <1>17, <1>18, <1>19, <1>20, <1>21, <1>22, <1>23, <1>24, <1>25,
     <1>26, <1>27, <1>28, <1>29, <1>30, <1>31, <1>32, <1>33, <1>34, <1>35, <1>36, <1>37,
     <1>38, <1>39, <1>40, <1>41, <1>42, <1>43
  DEF Next, Arriving, Draining, HandingOver, Proving, Asking

\* With no supervisor, whoever is about to take the lock was started from the binary in place.
ClaimInv == ~supervised /\ \A p \in Slots : tower[p].at = "claiming" => tower[p].version = binary

\* A process comes to be about to only when it begins.
ComesToClaim(q) ==
  tower'[q].at = "claiming" =>
    \/ tower[q].at = "claiming" /\ tower'[q].version = tower[q].version
    \/ tower'[q].version = binary /\ binary' = binary

LEMMA ClaimsAsBegun ==
  ASSUME TypeOK, Running, [Next]_vars, NEW q \in Slots
  PROVE  ComesToClaim(q)
<1>0. tower \in [Slots -> Processes]
  BY TypesHave
<1>r. ASSUME NEW p \in Slots, Resume(p) PROVE ComesToClaim(q)
  <2>1. Resumed(p).at = "looping" /\ tower' = [tower EXCEPT ![p] = Resumed(p)]
    BY <1>0, <1>r, ProcessesHave DEF Resume, Resumed
  <2>. QED
    BY <1>0, <2>1 DEF ComesToClaim
<1>1. ASSUME NEW p \in Slots, Arriving(p) PROVE ComesToClaim(q)
  BY <1>0, <1>1, ProcessesHave
  DEF Arriving, Claim, ArriveRequest, ArriveRecord, Revert, Reverted, Dies, Open, Bind, Goto, Gone,
      Absent, ComesToClaim
<1>2. ASSUME NEW p \in Slots, Draining(p) PROVE ComesToClaim(q)
  BY <1>0, <1>2, ProcessesHave
  DEF Draining, TakeStop, TakeRequest, DrainStopped, DrainAbandoned, DrainQuiet, Postpone, CutOff,
      Stops, Goto, Gone, Absent, ComesToClaim
<1>3. ASSUME NEW p \in Slots, HandingOver(p) PROVE ComesToClaim(q)
  <2>1. ASSUME NEW r \in Slots, StartSuccessor(p, r) PROVE ComesToClaim(q)
    BY <1>0, <2>1, ProcessesHave DEF StartSuccessor, Begin, Absent, ComesToClaim, files
  <2>2. CASE NotAnswered(p)
    BY <1>0, <2>2, ProcessesHave DEF NotAnswered, Absent, ComesToClaim
  <2>3. CASE SwapFails(p) \/ Undone(p)
    BY <1>r, <2>3 DEF SwapFails, Undone
  <2>4. CASE Swap(p) \/ WriteHandover(p) \/ GiveUpServing(p) \/ Undo(p)
    BY <1>0, <2>4, ProcessesHave DEF Swap, WriteHandover, GiveUpServing, Undo, Goto, ComesToClaim
  <2>5. CASE Exit75(p) \/ Answered(p)
    BY <1>0, <2>5 DEF Exit75, Answered, Gone, Absent, ComesToClaim
  <2>. QED
    BY <1>3, <2>1, <2>2, <2>3, <2>4, <2>5 DEF HandingOver
<1>4. ASSUME NEW p \in Slots, Proving(p) PROVE ComesToClaim(q)
  BY <1>0, <1>4, ProcessesHave DEF Proving, Prove, Proved, ProofGivenUp, ComesToClaim
<1>5. ASSUME NEW p \in Slots, Start(p) \/ WriteHandoverFails(p) \/ SuccessorFails(p) \/ Crash(p)
      PROVE  ComesToClaim(q)
  <2>1. CASE Start(p)
    BY <1>0, <2>1 DEF Start, Begin, Absent, ComesToClaim, files
  <2>2. CASE WriteHandoverFails(p)
    BY <1>r, <2>2 DEF WriteHandoverFails
  <2>3. CASE SuccessorFails(p) \/ Crash(p)
    BY <1>0, <2>3, ProcessesHave DEF SuccessorFails, Crash, Goto, Gone, Absent, ComesToClaim
  <2>. QED
    BY <1>5, <2>1, <2>2, <2>3
<1>6. ASSUME NEW t \in Tasks, (\E p \in Slots : Launch(p, t)) \/ RunEnds(t) PROVE ComesToClaim(q)
  BY <1>6 DEF Launch, RunEnds, ComesToClaim
<1>7. CASE Asking \/ TimePasses
  BY <1>7
  DEF Asking, AskToInstall, AskFromShell, AskToRollBack, CancelInstall, Replace, AskToStop,
      TimePasses, ComesToClaim
<1>8. CASE UNCHANGED vars
  BY <1>8 DEF vars, ComesToClaim
<1>. QED
  BY <1>1, <1>2, <1>3, <1>4, <1>5, <1>6, <1>7, <1>8 DEF Next

\* What puts a binary in place.
LEMMA BinaryTurns ==
  ASSUME [Next]_vars
  PROVE  \/ binary' = binary
         \/ Replace
         \/ \E p \in Slots : Revert(p) \/ Swap(p) \/ WriteHandoverFails(p) \/ Undo(p)
<1>1. ASSUME NEW p \in Slots, Arriving(p), ~Revert(p) PROVE binary' = binary
  BY <1>1 DEF Arriving, Claim, ArriveRequest, ArriveRecord, Reverted, Dies, Open, Bind, files
<1>2. ASSUME NEW p \in Slots, Draining(p) PROVE binary' = binary
  BY <1>2
  DEF Draining, TakeStop, TakeRequest, DrainStopped, DrainAbandoned, DrainQuiet, Postpone, CutOff,
      Stops, files
<1>3. ASSUME NEW p \in Slots, HandingOver(p), ~Swap(p), ~Undo(p) PROVE binary' = binary
  BY <1>3
  DEF HandingOver, SwapFails, WriteHandover, Exit75, GiveUpServing, StartSuccessor, Answered,
      NotAnswered, Undone, files
<1>4. ASSUME NEW p \in Slots, Proving(p) \/ Start(p) \/ SuccessorFails(p) \/ Crash(p)
      PROVE  binary' = binary
  BY <1>4 DEF Proving, Prove, Proved, ProofGivenUp, Start, SuccessorFails, Crash, files
<1>5. ASSUME NEW t \in Tasks, (\E p \in Slots : Launch(p, t)) \/ RunEnds(t) PROVE binary' = binary
  BY <1>5 DEF Launch, RunEnds, files
<1>6. CASE (Asking /\ ~Replace) \/ TimePasses
  BY <1>6
  DEF Asking, AskToInstall, AskFromShell, AskToRollBack, CancelInstall, AskToStop, TimePasses, files
<1>7. CASE UNCHANGED vars
  BY <1>7 DEF vars, files
<1>. QED
  BY <1>1, <1>2, <1>3, <1>4, <1>5, <1>6, <1>7 DEF Next

LEMMA SupervisionStays == [Next]_vars => supervised' = supervised
<1>1. ASSUME NEW p \in Slots, Arriving(p) PROVE supervised' = supervised
  BY <1>1 DEF Arriving, Claim, ArriveRequest, ArriveRecord, Revert, Reverted, Dies, Open, Bind, Rigid
<1>2. ASSUME NEW p \in Slots, Draining(p) PROVE supervised' = supervised
  BY <1>2
  DEF Draining, TakeStop, TakeRequest, DrainStopped, DrainAbandoned, DrainQuiet, Postpone, CutOff,
      Stops, Rigid
<1>3. ASSUME NEW p \in Slots, HandingOver(p) PROVE supervised' = supervised
  BY <1>3
  DEF HandingOver, Swap, SwapFails, WriteHandover, Exit75, GiveUpServing, StartSuccessor, Answered,
      NotAnswered, Undo, Undone, Rigid
<1>4. ASSUME NEW p \in Slots,
             Proving(p) \/ Start(p) \/ WriteHandoverFails(p) \/ SuccessorFails(p) \/ Crash(p)
      PROVE  supervised' = supervised
  BY <1>4
  DEF Proving, Prove, Proved, ProofGivenUp, Start, WriteHandoverFails, SuccessorFails, Crash, Rigid
<1>5. ASSUME NEW t \in Tasks, (\E p \in Slots : Launch(p, t)) \/ RunEnds(t)
      PROVE  supervised' = supervised
  BY <1>5 DEF Launch, RunEnds, Rigid
<1>6. CASE Asking \/ TimePasses
  BY <1>6
  DEF Asking, AskToInstall, AskFromShell, AskToRollBack, CancelInstall, Replace, AskToStop,
      TimePasses, Rigid
<1>7. CASE UNCHANGED vars
  BY <1>7 DEF vars
<1>. QED
  BY <1>1, <1>2, <1>3, <1>4, <1>5, <1>6, <1>7 DEF Next

LEMMA ClaimStep ==
  ASSUME TypeOK, Running, LockInv, PlaceInv, ClaimInv, ~Hasty, [Next]_vars
  PROVE  ClaimInv'
<1>1. ~supervised'
  BY SupervisionStays DEF ClaimInv
<1>2. ASSUME NEW q \in Slots, tower'[q].at = "claiming" PROVE tower'[q].version = binary'
  <2>1. \/ tower[q].at = "claiming" /\ tower'[q].version = binary
        \/ tower'[q].version = binary /\ binary' = binary
    BY <1>2, ClaimsAsBegun DEF ComesToClaim, ClaimInv
  <2>2. CASE tower[q].at = "claiming"
    <3>1. ASSUME NEW p \in Slots, Revert(p) \/ Swap(p) \/ WriteHandoverFails(p) \/ Undo(p)
          PROVE  FALSE
      <4>1. tower[p].at \in {"reverting", "ready", "swapped", "undoing"}
        BY <3>1 DEF Revert, Swap, WriteHandoverFails, Undo
      <4>2. p # q /\ Up(p) /\ Up(q) /\ tower[p].at # "reverting"
        BY <2>2, <4>1 DEF Up, PlaceInv, RevertingIsSupervised, ClaimInv
      <4>3. tower[p].at \in Changing /\ tower[p].at # "waiting"
        BY <4>1, <4>2 DEF Changing, Handing
      <4>. QED
        BY <2>2, <4>2, <4>3
        DEF LockInv, LockHeld, OneLine, SuccessorSettles, SuccessorOf, ClaimInv
    <3>2. ~Replace
      BY <2>2 DEF Replace, NoneUp, Up
    <3>. QED
      BY <2>1, <3>1, <3>2, BinaryTurns
  <2>. QED
    BY <2>1, <2>2
<1>. QED
  BY <1>1, <1>2 DEF ClaimInv

\* What says that a request has ended well: nothing but a Tower that proves itself, and the one that
\* waits for its successor to answer.
SaidOf(r) ==
  r # request /\ r # Nothing /\ r.outcome \in {"applied", "rolled_back"}
    => request.version = binary /\ r.outcome = Outcome(request)

LEMMA NothingSaid ==
  ASSUME request \in Requests, NEW o \in {"none", "cancelled", "failed", "postponed"},
         NEW r, r = request \/ r = Progress(o) \/ r.outcome = "none"
  PROVE  SaidOf(r)
BY DEF SaidOf, Progress, Requests, Nothing

LEMMA ProvingSaysSo ==
  ASSUME TypeOK, PlaceInv, NEW p \in Slots, Prove(p)
  PROVE  SaidOf(request')
<1>1. tower[p].at \in Settling /\ tower[p].proof = "due"
  BY DEF Prove, Settling
<1>2. tower[p].version = binary
  BY <1>1 DEF PlaceInv, DueIsInPlace, Holds, Prove
<1>3. request \in Requests
  BY TypesHave
<1>. QED
  BY <1>2, <1>3 DEF Prove, SaidOf, Progress, Outcome, IsOpen, Requests, Nothing

LEMMA AnswerSaysSo ==
  ASSUME TypeOK, LockHeld, PlaceInv, NEW p \in Slots, Answered(p)
  PROVE  SaidOf(request')
<1>1. PICK q \in Slots : tower[q].at = "serving" /\ tower[q].version = tower[p].asked.version
  BY DEF Answered
<1>2. tower[p].at = "waiting" /\ p # q /\ Up(p) /\ Up(q) /\ tower[p].at \in Handing
  BY <1>1 DEF Answered, Up, Handing
<1>3. SuccessorOf(p, q)
  BY <1>1, <1>2 DEF LockHeld, HandingIsInPlace, OneLine, SuccessorOf
<1>4. tower[p].asked.version = binary
  BY <1>1, <1>2, <1>3 DEF PlaceInv, SuccessorIsInPlace
<1>5. request # Nothing =>
        request.version = tower[p].asked.version /\ request.rollback = tower[p].asked.rollback
  BY <1>2 DEF PlaceInv, AskedIsRequest, Changing
<1>6. request \in Requests
  BY TypesHave
<1>. QED
  BY <1>4, <1>5, <1>6 DEF Answered, SaidOf, Progress, Outcome, Requests, Nothing

LEMMA SaidIsInPlace ==
  ASSUME TypeOK, LockHeld, PlaceInv, [Next]_vars
  PROVE  SaidOf(request')
<1>0. request \in Requests
  BY TypesHave
<1>1. ASSUME NEW p \in Slots, Arriving(p) PROVE SaidOf(request')
  BY <1>0, <1>1, NothingSaid
  DEF Arriving, Claim, ArriveRequest, ArriveRecord, Revert, Reverted, Dies, Open, Bind, files
<1>2. ASSUME NEW p \in Slots, Draining(p) PROVE SaidOf(request')
  BY <1>0, <1>2, NothingSaid
  DEF Draining, TakeStop, TakeRequest, DrainStopped, DrainAbandoned, DrainQuiet, Postpone, CutOff,
      Stops, files
<1>3. ASSUME NEW p \in Slots, HandingOver(p), ~Answered(p) PROVE SaidOf(request')
  BY <1>0, <1>3, NothingSaid
  DEF HandingOver, Swap, SwapFails, WriteHandover, Exit75, GiveUpServing, StartSuccessor,
      NotAnswered, Undo, Undone, files
<1>4. ASSUME NEW p \in Slots, Proving(p), ~Prove(p) PROVE SaidOf(request')
  BY <1>0, <1>4, NothingSaid DEF Proving, Proved, ProofGivenUp, files
<1>5. ASSUME NEW p \in Slots, Start(p) \/ WriteHandoverFails(p) \/ SuccessorFails(p) \/ Crash(p)
      PROVE  SaidOf(request')
  BY <1>0, <1>5, NothingSaid DEF Start, WriteHandoverFails, SuccessorFails, Crash, files
<1>6. ASSUME NEW t \in Tasks, (\E p \in Slots : Launch(p, t)) \/ RunEnds(t)
      PROVE  SaidOf(request')
  BY <1>0, <1>6, NothingSaid DEF Launch, RunEnds, files
<1>7. ASSUME NEW p \in Slots, NEW by \in {"dashboard", "watcher"}, AskToInstall(p, by)
      PROVE  SaidOf(request')
  BY <1>0, <1>7, NothingSaid DEF AskToInstall, Ask
<1>8. CASE AskFromShell \/ AskToRollBack \/ CancelInstall \/ Replace \/ AskToStop \/ TimePasses
  BY <1>0, <1>8, NothingSaid
  DEF AskFromShell, AskToRollBack, CancelInstall, Replace, AskToStop, TimePasses, Ask, files
<1>9. CASE UNCHANGED vars
  BY <1>0, <1>9, NothingSaid DEF vars, files
<1>. QED
  BY <1>1, <1>2, <1>3, <1>4, <1>5, <1>6, <1>7, <1>8, <1>9, ProvingSaysSo, AnswerSaysSo
  DEF Next, Asking, HandingOver, Proving

LEMMA PlaceInit == Init => PlaceInv
<1>. SUFFICES ASSUME Init PROVE PlaceInv
  OBVIOUS
<1>1. \A p \in Slots : tower[p].at = "off" /\ tower[p].proof = "none"
  BY DEF Init, Absent
<1>. QED
  BY <1>1
  DEF PlaceInv, AskedIsRequest, EarlyOwesNothing, RevertingIsSupervised, ArrivingIsInPlace,
      SuccessorIsInPlace, DueIsInPlace, KeptIsInPlace, SuccessorOf, Changing, Handing, Settling

LEMMA PlaceNext ==
  ASSUME TypeOK, Running, LockInv, PlaceInv, ~Hasty, ~Bystanders, [Next]_vars, [~Overtaken]_vars
  PROVE  PlaceInv'
<1>1. UNCHANGED vars => ~Overtaken
  BY DEF Overtaken, vars, LockInv, LockHeld, ClaimingIsWithout, Claim
<1>. QED
  BY <1>1, PlaceStep

----------------------------------------------------------------------------

\* Whatever is asked, fails or dies, the request, the record, the lock and the processes are what
\* the code can write and be, for any number of processes and versions.
THEOREM TypeCorrect == Spec => []TypeOK
<1>1. TypeOK /\ Running /\ [Next]_vars => TypeOK' /\ Running'
  BY TypesStep
<1>. QED
  BY <1>1, TypesInit, PTL DEF Spec

\* A Tower that may start work holds serving.lock -- so there is one of it -- through every install,
\* crash, restart and failed hand-over, for any number of processes, versions and requests: given
\* that nobody asks while an install is under way and nobody starts a Tower while one hands over.
THEOREM WorkUnderTheLock ==
  ASSUME ~Hasty, ~Bystanders PROVE Spec => []WorkStartsUnderTheLock
<1>1. TypeOK /\ Running /\ [Next]_vars => TypeOK' /\ Running'
  BY TypesStep
<1>2. TypeOK /\ Running /\ LockInv /\ [Next]_vars => LockInv'
  BY LockStep
<1>. QED
  BY <1>1, <1>2, TypesInit, LockInit, LockInvHolds, PTL DEF Spec

\* Where whoever takes the lock was started from the binary that is in place, a request is said to be
\* applied, or rolled back, only with the version it asked for in place: for any number of processes,
\* versions, requests, crashes and failed hand-overs, given that nobody asks while an install is under
\* way and nobody starts a Tower while one hands over.
THEOREM InPlaceUnlessOvertaken ==
  ASSUME ~Hasty, ~Bystanders PROVE Spec /\ [][~Overtaken]_vars => AppliedIsInPlace
<1>1. TypeOK /\ Running /\ [Next]_vars => TypeOK' /\ Running'
  BY TypesStep
<1>2. TypeOK /\ Running /\ LockInv /\ [Next]_vars => LockInv'
  BY LockStep
<1>3. TypeOK /\ Running /\ LockInv /\ PlaceInv /\ [Next]_vars /\ [~Overtaken]_vars => PlaceInv'
  BY PlaceNext
<1>4. TypeOK /\ LockInv /\ PlaceInv /\ [Next]_vars =>
        [request' # request /\ request' # Nothing /\ request'.outcome \in {"applied", "rolled_back"}
           => request.version = binary /\ request'.outcome = Outcome(request)]_vars
  BY SaidIsInPlace DEF SaidOf, LockInv
<1>. QED
  BY <1>1, <1>2, <1>3, <1>4, TypesInit, LockInit, PlaceInit, PTL DEF Spec, AppliedIsInPlace

\* Where no supervisor runs the Tower, and each hands over to the next in place, that is always so: a
\* request is said to be applied, or rolled back, only with the version it asked for in place.
THEOREM InPlaceUnsupervised ==
  ASSUME ~Hasty, ~Bystanders, Supervision = {FALSE} PROVE Spec => AppliedIsInPlace
<1>1. TypeOK /\ Running /\ [Next]_vars => TypeOK' /\ Running'
  BY TypesStep
<1>2. TypeOK /\ Running /\ LockInv /\ [Next]_vars => LockInv'
  BY LockStep
<1>3. LockInv /\ ClaimInv => [~Overtaken]_vars
  BY DEF Overtaken, Claim, ClaimInv
<1>4. TypeOK /\ Running /\ LockInv /\ PlaceInv /\ [Next]_vars /\ [~Overtaken]_vars => PlaceInv'
  BY PlaceNext
<1>5. TypeOK /\ Running /\ LockInv /\ PlaceInv /\ ClaimInv /\ [Next]_vars => ClaimInv'
  BY ClaimStep
<1>6. Init => ClaimInv
  BY DEF Init, ClaimInv, Absent
<1>. QED
  BY <1>1, <1>2, <1>3, <1>4, <1>5, <1>6, TypesInit, LockInit, PlaceInit, InPlaceUnlessOvertaken,
     PTL DEF Spec

=============================================================================
