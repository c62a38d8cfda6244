------------------------------ MODULE SyncCycle ------------------------------
(***************************************************************************)
(* The scheduled cycle of the station (workers/sync_scheduler.py): one pass *)
(* over the lawyers, the one whose last completed run is oldest first.  For *)
(* each: a session of PJUD (stored, or a login), its listing, its upsert,   *)
(* its detail batch (DetailBatch, whose outcome alone matters here) and the *)
(* record of the run in sync_history.                                       *)
(*                                                                         *)
(* sync_history is kept as what its two readers make of it: the order of    *)
(* the lawyers by last completed run, and whether the last run is recent.   *)
(* One competencia (SYNC_COMPETENCIAS is "civil"), one cycle at a time      *)
(* (max_instances=1).  The API may complete runs of the same lawyers.       *)
(***************************************************************************)
EXTENDS Naturals, Turnos, FiniteSets

CONSTANTS
    Lawyers,    \* the active lawyers this station visits
    Trip,       \* SYNC_AUTH_REJECT_TRIP
    Cooldown,   \* SYNC_AUTH_BLOCK_COOLDOWN_MINUTES, in ticks
    Logins      \* REAUTH_NETWORK_ATTEMPTS

ASSUME CycleAssumption == IsFiniteSet(Lawyers) /\ {Trip, Cooldown, Logins} \subseteq Nat \ {0}

VARIABLES
    order,    \* the lawyers by their last run recorded as completed, the oldest first
    fresh,    \* those whose last completed or partial run is within MAX_DATA_AGE_HOURS
    undated,  \* those with a row "completed" whose completed_at was never set
    block,    \* what remains of _auth_block_until; memory of the process
    cycle,    \* the local state of _run_sync_cycle and of the unit in progress
    seen      \* history: units in a row whose newest login PJUD then refused

vars == <<order, fresh, undated, block, cycle, seen>>

\* revert: what order was before the unit's row, in case the row stops being "completed".
NoCycle == [pc |-> "idle", queue |-> <<>>, rejected |-> 0, attempt |-> 1,
            relogged |-> FALSE, cut |-> FALSE, revert |-> <<>>]

Init ==
    /\ order \in SetToSeqs(Lawyers)
    /\ fresh = {}
    /\ undated = {}
    /\ block = 0
    /\ cycle = NoCycle
    /\ seen = 0

-----------------------------------------------------------------------------
(* sync_history, as its readers see it *)

\* last_sync is the first row by completed_at DESC, where a missing date sorts first.
NeedsSync(l) == l \in undated \/ l \notin fresh

Lawyer == Head(cycle.queue)

-----------------------------------------------------------------------------
(* How a unit ends *)

\* The next lawyer, after whatever the unit did to the rejection counter.
NextUnit(rejected) ==
    cycle' = [NoCycle EXCEPT !.pc = "egress", !.queue = Tail(cycle.queue), !.rejected = rejected]

\* Mutant: a unit that worked leaves the counter as it was.
ClearsNothing == NextUnit(cycle.rejected) /\ seen' = 0

\* Fresh, skipped and synced units clear consecutive_rejections.
Clears == NextUnit(0) /\ seen' = 0

\* Mutant: a failed unit ends the cycle.
FailsForGood == cycle' = NoCycle /\ UNCHANGED seen

\* Other failures neither count nor clear.
Fails == NextUnit(cycle.rejected) /\ UNCHANGED seen

-----------------------------------------------------------------------------
(* The loop over the lawyers *)

\* Mutant: the cooldown is not looked at.
BeginCycleInBlock ==
    /\ cycle.pc = "idle"
    /\ cycle' = [NoCycle EXCEPT !.pc = "egress", !.queue = order]
    /\ seen' = 0
    /\ UNCHANGED <<order, fresh, undated, block>>

\* Mutant: the lawyers come in one fixed order, whoever waited most.
BeginCycleInFixedOrder ==
    /\ cycle.pc = "idle"
    /\ block = 0
    /\ cycle' = [NoCycle EXCEPT !.pc = "egress", !.queue = SetToSeq(Lawyers)]
    /\ seen' = 0
    /\ UNCHANGED <<order, fresh, undated, block>>

\* In the cooldown a cycle does its maintenance and returns (no step here).
BeginCycle ==
    /\ cycle.pc = "idle"
    /\ block = 0
    /\ cycle' = [NoCycle EXCEPT !.pc = "egress", !.queue = order]
    /\ seen' = 0
    /\ UNCHANGED <<order, fresh, undated, block>>

EndCycle ==
    /\ cycle.pc = "egress"
    /\ cycle.queue = <<>>
    /\ cycle' = NoCycle
    /\ UNCHANGED <<order, fresh, undated, block, seen>>

\* _wait_for_allowed_egress returns; it waits for as long as the address is forbidden.
PassEgress ==
    /\ cycle.pc = "egress"
    /\ cycle.queue # <<>>
    /\ cycle' = [cycle EXCEPT !.pc = "turn"]
    /\ UNCHANGED <<order, fresh, undated, block, seen>>

SkipFresh ==
    /\ cycle.pc = "turn"
    /\ ~NeedsSync(Lawyer)
    /\ Clears
    /\ UNCHANGED <<order, fresh, undated, block>>

\* The session store may or may not hold a session of the lawyer.
StartUnit ==
    /\ cycle.pc = "turn"
    /\ NeedsSync(Lawyer)
    /\ \E pc \in {"listing", "login"} : cycle' = [cycle EXCEPT !.pc = pc]
    /\ UNCHANGED <<order, fresh, undated, block, seen>>

-----------------------------------------------------------------------------
(* The session and the listing *)

LoggedIn ==
    /\ cycle.pc = "login"
    /\ cycle' = [cycle EXCEPT !.pc = "listing"]
    /\ UNCHANGED <<order, fresh, undated, block, seen>>

\* Only a failure of the network is tried again.
LoginRetry ==
    /\ cycle.pc = "login"
    /\ cycle.attempt < Logins
    /\ cycle' = [cycle EXCEPT !.attempt = @ + 1]
    /\ UNCHANGED <<order, fresh, undated, block, seen>>

\* No credentials, invalid ones, a login page, or the network for the last time.
SkipNoSession ==
    /\ cycle.pc = "login"
    /\ Clears
    /\ UNCHANGED <<order, fresh, undated, block>>

\* The first listing may be cut (PartialListingError carries what was read); the second
\* one, after a new login, has no such handler.
Listed ==
    /\ cycle.pc = "listing"
    /\ \E cut \in IF cycle.relogged THEN {FALSE} ELSE BOOLEAN :
          cycle' = [cycle EXCEPT !.pc = "upsert", !.cut = cut]
    /\ UNCHANGED <<order, fresh, undated, block, seen>>

\* A stored session that PJUD no longer honours: dropped, and one new login.
Refused ==
    /\ cycle.pc = "listing"
    /\ ~cycle.relogged
    /\ cycle' = [cycle EXCEPT !.pc = "relogin"]
    /\ UNCHANGED <<order, fresh, undated, block, seen>>

Relogged ==
    /\ cycle.pc = "relogin"
    /\ cycle' = [cycle EXCEPT !.pc = "listing", !.relogged = TRUE]
    /\ UNCHANGED <<order, fresh, undated, block, seen>>

\* Mutant: the limit is compared with > instead of >=.
RefusedAgainLate ==
    /\ cycle.pc = "listing"
    /\ cycle.relogged
    /\ seen' = seen + 1
    /\ \/ /\ cycle.rejected + 1 <= Trip
          /\ NextUnit(cycle.rejected + 1)
          /\ UNCHANGED block
       \/ /\ cycle.rejected + 1 > Trip
          /\ cycle' = NoCycle
          /\ block' = Cooldown
    /\ UNCHANGED <<order, fresh, undated>>

\* PJUD refuses the session of the new login: the unit counts, and the last one trips.
RefusedAgain ==
    /\ cycle.pc = "listing"
    /\ cycle.relogged
    /\ seen' = seen + 1
    /\ \/ /\ cycle.rejected + 1 < Trip
          /\ NextUnit(cycle.rejected + 1)
          /\ UNCHANGED block
       \/ /\ cycle.rejected + 1 >= Trip
          /\ cycle' = NoCycle
          /\ block' = Cooldown
    /\ UNCHANGED <<order, fresh, undated>>

\* A Shape challenge, the network, the database, a re-login that fails: the failed row is
\* recorded, or its commit raises too.
UnitFails ==
    /\ cycle.pc \in {"turn", "login", "listing", "relogin"}
    /\ Fails
    /\ UNCHANGED <<order, fresh, undated, block>>

-----------------------------------------------------------------------------
(* The record of the run and its details *)

\* sync_cases commits the run as "completed" ("partial" if some case failed) before the
\* details are asked for.
Upserted ==
    /\ cycle.pc = "upsert"
    /\ order' \in {order, ToBack(order, Lawyer)}
    /\ fresh' = fresh \cup {Lawyer}
    /\ cycle' = [cycle EXCEPT !.pc = "detail", !.revert = order]
    /\ UNCHANGED <<undated, block, seen>>

\* A chunk raises.  The row of the run may be committed all the same, with an earlier chunk
\* or with the failed row: its status defaults to "completed", and nobody dates it.
UpsertFails ==
    /\ cycle.pc = "upsert"
    /\ undated' \in {undated, undated \cup {Lawyer}}
    /\ Fails
    /\ UNCHANGED <<order, fresh, block>>

DetailsDone ==
    /\ cycle.pc = "detail"
    /\ ~cycle.cut
    /\ Clears
    /\ UNCHANGED <<order, fresh, undated, block>>

\* The listing was cut or the batch stopped: the lawyer's newest row becomes "partial".
RecordPartial ==
    /\ cycle.pc = "detail"
    /\ order' = cycle.revert
    /\ Clears
    /\ UNCHANGED <<fresh, undated, block>>

\* The rotation, the batch or the last commit raises: a failed row, after the first one.
DetailsFail ==
    /\ cycle.pc = "detail"
    /\ Fails
    /\ UNCHANGED <<order, fresh, undated, block>>

-----------------------------------------------------------------------------
(* The API, time and the process *)

\* POST /sync, a client's sync or an ingest records a run of lawyer l: completed, or partial
\* if some case failed.  It is now the row that RecordPartial of the same lawyer changes.
ApiRun(l) ==
    /\ \E completed \in BOOLEAN :
        LET after(s) == IF completed THEN ToBack(s, l) ELSE s
        IN  /\ order' = after(order)
            /\ cycle' = [cycle EXCEPT !.revert = IF cycle.pc # "detail" THEN @
                                                ELSE IF l = Lawyer THEN order ELSE after(@)]
    /\ fresh' = fresh \cup {l}
    /\ UNCHANGED <<undated, block, seen>>

\* It breaks, before its row or between two chunks (as in UpsertFails).  Its rows complete
\* nothing, and the newest of them is now the one that RecordPartial changes.
ApiRunBreaks(l) ==
    /\ undated' \in {undated, undated \cup {l}}
    /\ cycle' = [cycle EXCEPT !.revert = IF cycle.pc = "detail" /\ l = Lawyer THEN order ELSE @]
    /\ UNCHANGED <<order, fresh, block, seen>>

Ages(l) ==
    /\ l \in fresh
    /\ fresh' = fresh \ {l}
    /\ UNCHANGED <<order, undated, block, cycle, seen>>

BlockWaits ==
    /\ block > 0
    /\ block' = block - 1
    /\ UNCHANGED <<order, fresh, undated, cycle, seen>>

\* The process dies and is started again.  Between two chunks it leaves an undated row.
Restart ==
    /\ cycle' = NoCycle
    /\ block' = 0
    /\ seen' = 0
    /\ \/ UNCHANGED undated
       \/ cycle.pc = "upsert" /\ undated' = undated \cup {Lawyer}
    /\ UNCHANGED <<order, fresh>>

Unit ==
    \/ SkipFresh
    \/ StartUnit
    \/ LoggedIn
    \/ LoginRetry
    \/ SkipNoSession
    \/ Listed
    \/ Refused
    \/ Relogged
    \/ RefusedAgain
    \/ UnitFails
    \/ Upserted
    \/ UpsertFails
    \/ DetailsDone
    \/ RecordPartial
    \/ DetailsFail

Next ==
    \/ BeginCycle
    \/ EndCycle
    \/ PassEgress
    \/ Unit
    \/ BlockWaits
    \/ Restart
    \/ \E l \in Lawyers : ApiRun(l) \/ ApiRunBreaks(l) \/ Ages(l)

Spec == Init /\ [][Next]_vars

\* The scheduler fires at its interval, a unit is a chain of bounded awaits (BatchEnds of
\* DetailBatch), and time passes.  Nothing obliges the egress address to be allowed.
FairSpec ==
    /\ Spec
    /\ WF_vars(BeginCycle)
    /\ WF_vars(EndCycle \/ Unit)
    /\ WF_vars(BlockWaits)
-----------------------------------------------------------------------------
(* What must hold *)

TypeOK ==
    /\ order \in SetToSeqs(Lawyers)
    /\ fresh \subseteq Lawyers
    /\ undated \subseteq Lawyers
    /\ block \in 0..Cooldown
    /\ cycle \in [pc : {"idle", "egress", "turn", "login", "listing", "relogin", "upsert", "detail"},
                  queue : SeqOf(Lawyers, Cardinality(Lawyers)), rejected : 0..Trip - 1,
                  attempt : 1..Logins, relogged : BOOLEAN, cut : BOOLEAN,
                  revert : SetToSeqs(Lawyers) \cup {<<>>}]
    /\ seen \in 0..Trip

\* Once PJUD refused that many fresh sessions, the scheduler leaves it alone until the
\* cooldown ends.
BlockIsSilent == block > 0 => cycle.pc = "idle"

\* The cycle stops only for refusals in a row: no failure of another kind, and no lawyer
\* that worked in between.
TripOnlyOnRejections == [][block' > block => seen' >= Trip]_vars

Turn(l) == cycle.pc = "turn" /\ Lawyer = l

Trips == block' > block

\* As long as the station stays up, has its address and is not refused, every lawyer gets
\* a turn again and again, however the units of the others end.
NoOneLeftOut ==
    \/ []<><<Restart>>_vars
    \/ []<><<Trips>>_vars
    \/ <>[](cycle.pc = "egress")
    \/ \A l \in Lawyers : []<>Turn(l)

\* "Ordering by staleness makes the rotation fair no matter where a cycle gets cut": the
\* station may restart for ever, and everybody still gets a turn or is completed by the
\* API, as long as units do complete and those that are not cut do not fail.
StalenessIsFair ==
    \/ []<><<UnitFails \/ SkipNoSession \/ UpsertFails \/ RecordPartial \/ DetailsFail>>_vars
    \/ []<><<Trips>>_vars
    \/ <>[][~(Upserted /\ order' # order)]_vars
    \/ \A l \in Lawyers : []<>Turn(l) \/ []<><<ApiRun(l)>>_vars

\* needs_sync is "based on last sync time": a lawyer whose last successful sync is recent
\* is not asked for again.
FreshIsSkipped ==
    [][cycle.pc = "turn" /\ cycle'.pc \in {"login", "listing"} => Lawyer \notin fresh]_vars
=============================================================================
