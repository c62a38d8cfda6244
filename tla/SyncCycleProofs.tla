--------------------------- MODULE SyncCycleProofs ---------------------------
(***************************************************************************)
(* The breaker on refused sessions, for any number of lawyers and any Trip *)
(* and Cooldown.  Each property needs more than itself: that a trip needs  *)
(* Trip refusals holds because the counter never runs ahead of what PJUD   *)
(* refused, and that the block is silent because only a cycle in progress  *)
(* trips, and ends by it.                                                  *)
(***************************************************************************)
EXTENDS SyncCycle, TurnosProofs

\* cycle has the fields it was declared with.
IsCycle ==
    cycle = [pc |-> cycle.pc, queue |-> cycle.queue, rejected |-> cycle.rejected,
             attempt |-> cycle.attempt, relogged |-> cycle.relogged, cut |-> cycle.cut,
             revert |-> cycle.revert]

\* Numbers, and what they say of each other: in a running cycle the counter is at most
\* what PJUD refused, and below the limit that ends it.
Counters ==
    /\ block \in Nat
    /\ seen \in Nat
    /\ cycle.rejected \in Nat
    /\ cycle.pc # "idle" => cycle.rejected <= seen
    /\ cycle.rejected < Trip

IInv == IsCycle /\ Counters /\ BlockIsSilent

LEMMA Limits == Trip \in Nat \ {0} /\ Cooldown \in Nat \ {0}
BY CycleAssumption

LEMMA InitHolds == Init => IInv
BY Limits DEF Init, IInv, IsCycle, Counters, BlockIsSilent, NoCycle

-----------------------------------------------------------------------------
(* The shapes a step gives to cycle *)

LEMMA NextUnitShape ==
    ASSUME NEW n, NextUnit(n)
    PROVE  IsCycle' /\ cycle'.pc = "egress" /\ cycle'.rejected = n
BY DEF NextUnit, NoCycle, IsCycle

LEMMA NoCycleShape ==
    ASSUME cycle' = NoCycle
    PROVE  IsCycle' /\ cycle'.pc = "idle" /\ cycle'.rejected = 0
BY DEF NoCycle, IsCycle

-----------------------------------------------------------------------------
(* What each kind of step preserves *)

LEMMA ClearsKeeps ==
    ASSUME IInv, cycle.pc # "idle", Clears, UNCHANGED block
    PROVE  IInv'
<1>1. IsCycle' /\ cycle'.pc = "egress" /\ cycle'.rejected = 0 /\ seen' = 0
  BY NextUnitShape DEF Clears
<1> QED
  BY <1>1, Limits DEF IInv, Counters, BlockIsSilent

LEMMA FailsKeeps ==
    ASSUME IInv, cycle.pc # "idle", Fails, UNCHANGED block
    PROVE  IInv'
<1>1. IsCycle' /\ cycle'.pc = "egress" /\ cycle'.rejected = cycle.rejected /\ seen' = seen
  BY NextUnitShape DEF Fails
<1> QED
  BY <1>1 DEF IInv, Counters, BlockIsSilent

\* A step inside a unit moves on, and leaves the counter to its end.
LEMMA InsideKeeps ==
    ASSUME IInv, cycle.pc # "idle", UNCHANGED <<block, seen>>, IsCycle',
           cycle'.pc # "idle", cycle'.rejected = cycle.rejected
    PROVE  IInv'
BY DEF IInv, Counters, BlockIsSilent

LEMMA RefusedAgainKeeps ==
    ASSUME IInv, RefusedAgain
    PROVE  IInv' /\ (block' > block => seen' >= Trip)
<1>1. cycle.pc # "idle" /\ seen' = seen + 1 /\ block = 0
  BY DEF RefusedAgain, IInv, Counters, BlockIsSilent
<1>2. CASE cycle.rejected + 1 < Trip /\ NextUnit(cycle.rejected + 1) /\ UNCHANGED block
  <2>1. IsCycle' /\ cycle'.pc = "egress" /\ cycle'.rejected = cycle.rejected + 1
    BY <1>2, NextUnitShape
  <2> QED
    BY <1>1, <1>2, <2>1 DEF IInv, Counters, BlockIsSilent
<1>3. CASE cycle.rejected + 1 >= Trip /\ cycle' = NoCycle /\ block' = Cooldown
  <2>1. IsCycle' /\ cycle'.pc = "idle" /\ cycle'.rejected = 0
    BY <1>3, NoCycleShape
  <2>2. seen' >= Trip
    BY <1>1, <1>3, Limits DEF IInv, Counters
  <2> QED
    BY <1>1, <1>3, <2>1, <2>2, Limits DEF IInv, Counters, BlockIsSilent
<1> QED
  BY <1>2, <1>3 DEF RefusedAgain

LEMMA UnitKeeps ==
    ASSUME IInv, Unit
    PROVE  IInv' /\ (block' > block => seen' >= Trip)
<1> USE DEF IInv, Counters
<1>1. CASE RefusedAgain
  BY <1>1, RefusedAgainKeeps
<1>2. CASE SkipFresh \/ SkipNoSession \/ DetailsDone \/ RecordPartial
  BY <1>2, ClearsKeeps DEF SkipFresh, SkipNoSession, DetailsDone, RecordPartial
<1>3. CASE UnitFails \/ UpsertFails \/ DetailsFail
  BY <1>3, FailsKeeps DEF UnitFails, UpsertFails, DetailsFail
<1>4. CASE StartUnit \/ LoggedIn \/ LoginRetry \/ Listed \/ Refused \/ Relogged \/ Upserted
  <2>1. /\ cycle.pc # "idle" /\ UNCHANGED <<block, seen>>
        /\ IsCycle' /\ cycle'.pc # "idle" /\ cycle'.rejected = cycle.rejected
    BY <1>4 DEF IsCycle, StartUnit, LoggedIn, LoginRetry, Listed, Refused, Relogged, Upserted
  <2> QED
    BY <2>1, InsideKeeps
<1> QED
  BY <1>1, <1>2, <1>3, <1>4 DEF Unit

LEMMA StepKeeps ==
    ASSUME IInv, [Next]_vars
    PROVE  IInv' /\ (block' > block => seen' >= Trip)
<1>1. CASE Unit
  BY <1>1, UnitKeeps
<1>2. CASE BeginCycle
  <2>1. IsCycle' /\ cycle'.pc = "egress" /\ cycle'.rejected = 0
    BY <1>2 DEF BeginCycle, NoCycle, IsCycle
  <2> QED
    BY <1>2, <2>1, Limits DEF BeginCycle, IInv, Counters, BlockIsSilent
<1>3. CASE EndCycle
  <2>1. IsCycle' /\ cycle'.pc = "idle" /\ cycle'.rejected = 0
    BY <1>3, NoCycleShape DEF EndCycle
  <2> QED
    BY <1>3, <2>1, Limits DEF EndCycle, IInv, Counters, BlockIsSilent
<1>4. CASE PassEgress
  <2>1. /\ cycle.pc # "idle" /\ UNCHANGED <<block, seen>>
        /\ IsCycle' /\ cycle'.pc # "idle" /\ cycle'.rejected = cycle.rejected
    BY <1>4 DEF IInv, IsCycle, PassEgress
  <2> QED
    BY <2>1, InsideKeeps DEF IInv, Counters
<1>5. CASE BlockWaits
  BY <1>5 DEF BlockWaits, IInv, IsCycle, Counters, BlockIsSilent
<1>6. CASE Restart
  <2>1. IsCycle' /\ cycle'.pc = "idle" /\ cycle'.rejected = 0
    BY <1>6, NoCycleShape DEF Restart
  <2> QED
    BY <1>6, <2>1, Limits DEF Restart, IInv, Counters, BlockIsSilent
<1>7. CASE \E l \in Lawyers : ApiRun(l) \/ ApiRunBreaks(l) \/ Ages(l)
  <2>1. /\ UNCHANGED <<block, seen>>
        /\ IsCycle' /\ cycle'.pc = cycle.pc /\ cycle'.rejected = cycle.rejected
    BY <1>7 DEF IInv, IsCycle, ApiRun, ApiRunBreaks, Ages
  <2> QED
    BY <2>1 DEF IInv, Counters, BlockIsSilent
<1>8. CASE UNCHANGED vars
  BY <1>8 DEF vars, IInv, IsCycle, Counters, BlockIsSilent
<1> QED
  BY <1>1, <1>2, <1>3, <1>4, <1>5, <1>6, <1>7, <1>8 DEF Next

-----------------------------------------------------------------------------
(* The types *)

Ciclo == [pc : {"idle", "egress", "turn", "login", "listing", "relogin", "upsert", "detail"},
          queue : SeqOf(Lawyers, Cardinality(Lawyers)), rejected : 0..Trip - 1,
          attempt : 1..Logins, relogged : BOOLEAN, cut : BOOLEAN,
          revert : SetToSeqs(Lawyers) \cup {<<>>}]

\* A unit under way has its lawyer, and once it has its row the order to go back to; the
\* counter of a running cycle is what PJUD refused in a row, no less.
UnitOK ==
    /\ cycle.pc \notin {"idle", "egress"} => cycle.queue # <<>>
    /\ cycle.pc = "detail" => cycle.revert \in SetToSeqs(Lawyers)
    /\ cycle.pc # "idle" => seen = cycle.rejected

TInv == TypeOK /\ UnitOK

LEMMA Sizes ==
    /\ IsFiniteSet(Lawyers) /\ Cardinality(Lawyers) \in Nat
    /\ Trip \in Nat \ {0} /\ Cooldown \in Nat \ {0} /\ Logins \in Nat \ {0}
BY CycleAssumption, FS_CardinalityType

LEMMA EmptyQueue == <<>> \in SeqOf(Lawyers, Cardinality(Lawyers))
<1>1. <<>> \in [1..0 -> Lawyers] /\ 0 \in 0..Cardinality(Lawyers)
  BY Sizes
<1> QED
  BY <1>1 DEF SeqOf

\* A queue loses its first lawyer; <<>> has none to lose.
LEMMA ShorterQueue ==
    ASSUME NEW q \in SeqOf(Lawyers, Cardinality(Lawyers)), q # <<>>
    PROVE  Head(q) \in Lawyers /\ Tail(q) \in SeqOf(Lawyers, Cardinality(Lawyers))
<1>1. PICK m \in 0..Cardinality(Lawyers) : q \in [1..m -> Lawyers]
  BY DEF SeqOf
<1>2. q \in Seq(Lawyers) /\ Len(q) = m /\ m \in Nat
  BY <1>1, Sizes
<1>3. m # 0
  BY <1>2
<1>4. Head(q) \in Lawyers /\ Tail(q) \in Seq(Lawyers) /\ Len(Tail(q)) = m - 1
  BY <1>2, <1>3
<1>5. ASSUME NEW t, t = Tail(q) PROVE t \in [1..m-1 -> Lawyers]
  BY <1>4, <1>5, SeqDef, LenProperties
<1>6. m - 1 \in 0..Cardinality(Lawyers)
  BY <1>1, <1>3, Sizes
<1> QED
  BY <1>4, <1>5, <1>6 DEF SeqOf

\* An order of the lawyers is a queue of them all.
LEMMA WholeQueue == SetToSeqs(Lawyers) \subseteq SeqOf(Lawyers, Cardinality(Lawyers))
<1>1. Cardinality(Lawyers) \in 0..Cardinality(Lawyers)
  BY Sizes
<1> QED
  BY <1>1, Orden, Sizes DEF SeqOf

LEMMA NoCycleTyped == NoCycle \in Ciclo /\ NoCycle.pc = "idle"
BY EmptyQueue, Sizes DEF NoCycle, Ciclo

LEMMA BegunTyped ==
    ASSUME NEW q \in SeqOf(Lawyers, Cardinality(Lawyers)), NEW n \in 0..Trip - 1,
           NEW r, r = [pc |-> "egress", queue |-> q, rejected |-> n, attempt |-> 1,
                       relogged |-> FALSE, cut |-> FALSE, revert |-> <<>>]
    PROVE  r \in Ciclo /\ r.pc = "egress" /\ r.rejected = n
BY Sizes DEF Ciclo

LEMMA NextUnitTyped ==
    ASSUME TInv, cycle.pc \notin {"idle", "egress"}, NEW n \in 0..Trip - 1, NextUnit(n)
    PROVE  cycle' \in Ciclo /\ cycle'.pc = "egress" /\ cycle'.rejected = n
<1>1. Tail(cycle.queue) \in SeqOf(Lawyers, Cardinality(Lawyers))
  BY ShorterQueue DEF TInv, TypeOK, UnitOK
<1>2. cycle' = [pc |-> "egress", queue |-> Tail(cycle.queue), rejected |-> n, attempt |-> 1,
                relogged |-> FALSE, cut |-> FALSE, revert |-> <<>>]
  BY DEF NextUnit, NoCycle
<1> QED
  BY <1>1, <1>2, BegunTyped

\* The lawyer whose turn it is, and what a completed run makes of an order.
LEMMA ItsLawyer ==
    ASSUME TInv, cycle.pc \notin {"idle", "egress"}
    PROVE  Lawyer \in Lawyers
BY ShorterQueue DEF TInv, TypeOK, UnitOK, Lawyer

LEMMA TurnTaken ==
    ASSUME NEW s \in SetToSeqs(Lawyers), NEW l \in Lawyers
    PROVE  ToBack(s, l) \in SetToSeqs(Lawyers)
BY AlFinal, Sizes

LEMMA UnitTyped ==
    ASSUME TInv, Unit
    PROVE  TInv'
<1> USE DEF TInv, UnitOK
<1>1. /\ order \in SetToSeqs(Lawyers) /\ fresh \subseteq Lawyers /\ undated \subseteq Lawyers
      /\ block \in 0..Cooldown /\ seen \in 0..Trip /\ cycle \in Ciclo
      /\ cycle.rejected \in 0..Trip - 1
  BY DEF TypeOK, Ciclo
<1>2. cycle.pc \notin {"idle", "egress"}
  BY DEF Unit, SkipFresh, StartUnit, LoggedIn, LoginRetry, SkipNoSession, Listed, Refused,
         Relogged, RefusedAgain, UnitFails, Upserted, UpsertFails, DetailsDone, RecordPartial,
         DetailsFail
<1>3. Lawyer \in Lawyers
  BY <1>2, ItsLawyer
<1>4. ASSUME Clears PROVE cycle' \in Ciclo /\ cycle'.pc = "egress" /\ cycle'.rejected = 0 /\ seen' = 0
  BY <1>2, <1>4, NextUnitTyped, Sizes DEF Clears
<1>5. ASSUME Fails
      PROVE  cycle' \in Ciclo /\ cycle'.pc = "egress" /\ cycle'.rejected = seen' /\ seen' = seen
  BY <1>1, <1>2, <1>5, NextUnitTyped DEF Fails
<1>6. CASE SkipFresh \/ SkipNoSession \/ DetailsDone
  <2>1. Clears /\ UNCHANGED <<order, fresh, undated, block>>
    BY <1>6 DEF SkipFresh, SkipNoSession, DetailsDone
  <2> QED
    BY <1>1, <1>4, <2>1, Sizes DEF TypeOK, Ciclo
<1>7. CASE RecordPartial
  <2>1. order' \in SetToSeqs(Lawyers) /\ Clears /\ UNCHANGED <<fresh, undated, block>>
    BY <1>7 DEF RecordPartial
  <2> QED
    BY <1>1, <1>4, <2>1, Sizes DEF TypeOK, Ciclo
<1>8. CASE UnitFails \/ UpsertFails \/ DetailsFail
  <2>1. /\ Fails /\ UNCHANGED <<order, fresh, block>>
        /\ undated' \in {undated, undated \cup {Lawyer}}
    BY <1>8 DEF UnitFails, UpsertFails, DetailsFail
  <2> QED
    BY <1>1, <1>3, <1>5, <2>1 DEF TypeOK, Ciclo
<1>9. CASE RefusedAgain
  <2>1. seen' = cycle.rejected + 1 /\ UNCHANGED <<order, fresh, undated>>
    BY <1>2, <1>9 DEF RefusedAgain
  <2>2. seen' \in 0..Trip
    BY <1>1, <2>1, Sizes
  <2>3. CASE cycle.rejected + 1 < Trip /\ NextUnit(cycle.rejected + 1) /\ UNCHANGED block
    <3>1. cycle' \in Ciclo /\ cycle'.pc = "egress" /\ cycle'.rejected = cycle.rejected + 1
      BY <1>1, <1>2, <2>3, NextUnitTyped, Sizes
    <3> QED
      BY <1>1, <2>1, <2>2, <2>3, <3>1 DEF TypeOK, Ciclo
  <2>4. CASE cycle' = NoCycle /\ block' = Cooldown
    BY <1>1, <2>1, <2>2, <2>4, NoCycleTyped, Sizes DEF TypeOK, Ciclo
  <2> QED
    BY <1>9, <2>3, <2>4 DEF RefusedAgain
<1>10. CASE Upserted
  <2>1. cycle' = [cycle EXCEPT !.pc = "detail", !.revert = order]
    BY <1>10 DEF Upserted
  <2>2. /\ cycle' \in Ciclo /\ cycle'.pc = "detail" /\ cycle'.revert = order
        /\ cycle'.queue = cycle.queue /\ cycle'.rejected = cycle.rejected
    BY <1>1, <2>1 DEF Ciclo
  <2>3. /\ order' \in SetToSeqs(Lawyers) /\ fresh' \subseteq Lawyers
        /\ UNCHANGED <<undated, block, seen>>
    BY <1>1, <1>3, <1>10, TurnTaken DEF Upserted
  <2> QED
    BY <1>1, <1>2, <2>2, <2>3 DEF TypeOK, Ciclo
<1>11. CASE StartUnit \/ LoggedIn \/ LoginRetry \/ Listed \/ Refused \/ Relogged
  <2>1. /\ cycle' \in Ciclo /\ cycle'.pc \notin {"idle", "egress", "detail"}
        /\ cycle'.queue = cycle.queue /\ cycle'.rejected = cycle.rejected
    <3>1. CASE StartUnit \/ LoggedIn \/ Refused \/ Relogged
      BY <1>1, <3>1 DEF Ciclo, StartUnit, LoggedIn, Refused, Relogged
    <3>2. CASE LoginRetry
      <4>1. cycle.attempt + 1 \in 1..Logins
        BY <1>1, <3>2, Sizes DEF Ciclo, LoginRetry
      <4> QED
        BY <1>1, <3>2, <4>1 DEF Ciclo, LoginRetry
    <3>3. CASE Listed
      BY <1>1, <3>3 DEF Ciclo, Listed
    <3> QED
      BY <1>11, <3>1, <3>2, <3>3
  <2>2. UNCHANGED <<order, fresh, undated, block, seen>>
    BY <1>11 DEF StartUnit, LoggedIn, LoginRetry, Listed, Refused, Relogged
  <2> QED
    BY <1>1, <1>2, <2>1, <2>2 DEF TypeOK, Ciclo
<1> QED
  BY <1>6, <1>7, <1>8, <1>9, <1>10, <1>11 DEF Unit

LEMMA ApiTyped ==
    ASSUME TInv, NEW l \in Lawyers, ApiRun(l) \/ ApiRunBreaks(l) \/ Ages(l)
    PROVE  TInv'
<1>1. /\ order \in SetToSeqs(Lawyers) /\ cycle \in Ciclo
      /\ cycle.pc = "detail" => cycle.revert \in SetToSeqs(Lawyers)
  BY DEF TInv, TypeOK, UnitOK, Ciclo
<1>2. /\ order' \in SetToSeqs(Lawyers) /\ cycle' \in Ciclo /\ cycle'.pc = cycle.pc
      /\ cycle'.queue = cycle.queue /\ cycle'.rejected = cycle.rejected
      /\ cycle'.pc = "detail" => cycle'.revert \in SetToSeqs(Lawyers)
  <2>1. CASE ApiRun(l)
    <3>1. PICK completed \in BOOLEAN :
            /\ order' = IF completed THEN ToBack(order, l) ELSE order
            /\ cycle' = [cycle EXCEPT !.revert =
                            IF cycle.pc # "detail" THEN @
                            ELSE IF l = Lawyer THEN order
                            ELSE IF completed THEN ToBack(@, l) ELSE @]
      BY <2>1 DEF ApiRun
    <3>2. cycle.pc = "detail" => ToBack(cycle.revert, l) \in SetToSeqs(Lawyers)
      BY <1>1, TurnTaken
    <3>3. ToBack(order, l) \in SetToSeqs(Lawyers)
      BY <1>1, TurnTaken
    <3> QED
      BY <1>1, <3>1, <3>2, <3>3 DEF Ciclo
  <2>2. CASE ApiRunBreaks(l)
    BY <1>1, <2>2 DEF ApiRunBreaks, Ciclo
  <2>3. CASE Ages(l)
    BY <1>1, <2>3 DEF Ages
  <2> QED
    BY <2>1, <2>2, <2>3
<1>3. fresh' \subseteq Lawyers /\ undated' \subseteq Lawyers /\ UNCHANGED <<block, seen>>
  BY DEF TInv, TypeOK, ApiRun, ApiRunBreaks, Ages
<1> QED
  BY <1>2, <1>3 DEF TInv, TypeOK, UnitOK, Ciclo

LEMMA InitTyped == Init => TInv
BY NoCycleTyped, Sizes DEF Init, TInv, TypeOK, UnitOK, Ciclo

LEMMA StepTyped ==
    ASSUME TInv, [Next]_vars
    PROVE  TInv'
<1> USE DEF TInv, UnitOK
<1>1. /\ order \in SetToSeqs(Lawyers) /\ fresh \subseteq Lawyers /\ undated \subseteq Lawyers
      /\ block \in 0..Cooldown /\ seen \in 0..Trip /\ cycle \in Ciclo
  BY DEF TypeOK, Ciclo
<1>2. CASE Unit
  BY <1>2, UnitTyped
<1>3. CASE BeginCycle
  <2>1. cycle' \in Ciclo /\ cycle'.pc = "egress" /\ cycle'.rejected = 0
    <3>1. cycle' = [pc |-> "egress", queue |-> order, rejected |-> 0, attempt |-> 1,
                    relogged |-> FALSE, cut |-> FALSE, revert |-> <<>>]
      BY <1>3 DEF BeginCycle, NoCycle
    <3> QED
      BY <1>1, <3>1, WholeQueue, BegunTyped, Sizes
  <2> QED
    BY <1>1, <1>3, <2>1, Sizes DEF BeginCycle, TypeOK, Ciclo
<1>4. CASE EndCycle
  BY <1>1, <1>4, NoCycleTyped DEF EndCycle, TypeOK, Ciclo
<1>5. CASE PassEgress
  <2>1. /\ cycle' \in Ciclo /\ cycle'.pc = "turn" /\ cycle'.queue = cycle.queue
        /\ cycle.queue # <<>> /\ cycle'.rejected = cycle.rejected
    BY <1>1, <1>5 DEF PassEgress, Ciclo
  <2> QED
    BY <1>1, <1>5, <2>1 DEF PassEgress, TypeOK, Ciclo
<1>6. CASE BlockWaits
  <2>1. block' \in 0..Cooldown
    BY <1>1, <1>6, Sizes DEF BlockWaits
  <2> QED
    BY <1>1, <1>6, <2>1 DEF BlockWaits, TypeOK, Ciclo
<1>7. CASE Restart
  <2>1. undated' \subseteq Lawyers
    BY <1>1, <1>7, ItsLawyer DEF Restart
  <2> QED
    BY <1>1, <1>7, <2>1, NoCycleTyped, Sizes DEF Restart, TypeOK, Ciclo
<1>8. CASE \E l \in Lawyers : ApiRun(l) \/ ApiRunBreaks(l) \/ Ages(l)
  BY <1>8, ApiTyped
<1>9. CASE UNCHANGED vars
  BY <1>1, <1>9 DEF vars, TypeOK, Ciclo
<1> QED
  BY <1>2, <1>3, <1>4, <1>5, <1>6, <1>7, <1>8, <1>9 DEF Next

-----------------------------------------------------------------------------
(* The theorems *)

LEMMA AlwaysIInv == Spec => []IInv
<1>1. IInv /\ [Next]_vars => IInv'
  BY StepKeeps
<1> QED
  BY InitHolds, <1>1, PTL DEF Spec

\* While the scheduler waits after refused sessions no cycle is in progress: it asks PJUD
\* for nothing, whatever else happens in between.
THEOREM SilentBlock == Spec => []BlockIsSilent
<1>1. IInv => BlockIsSilent
  BY DEF IInv
<1> QED
  BY AlwaysIInv, <1>1, PTL

\* The block is only ever set after Trip units in a row whose newest login PJUD refused.
THEOREM OnlyRejectionsTrip == Spec => TripOnlyOnRejections
<1>1. IInv /\ [Next]_vars => [block' > block => seen' >= Trip]_vars
  BY StepKeeps
<1> QED
  BY AlwaysIInv, <1>1, PTL DEF Spec, TripOnlyOnRejections

\* The types: the order is always one of all the lawyers, each of them once, whoever
\* completes runs; a unit under way has its lawyer; the counter of a running cycle is below
\* the limit that ends it.
THEOREM TypesAlways == Spec => []TypeOK
<1>1. TInv /\ [Next]_vars => TInv'
  BY StepTyped
<1>2. TInv => TypeOK
  BY DEF TInv
<1> QED
  BY InitTyped, <1>1, <1>2, PTL DEF Spec
=============================================================================
