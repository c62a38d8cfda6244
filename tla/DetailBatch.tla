------------------------------ MODULE DetailBatch ------------------------------
(***************************************************************************)
(* detect_and_sync_movements (services/sync_service.py): the detail batches *)
(* of one process, which ask PJUD for the detail of one case after another. *)
(* A batch is a coroutine; the scheduler's batch and those of the API may   *)
(* run at once, and they share the process-wide circuit breaker and Shape   *)
(* cooldown and the cases' place in the rotation (the database).            *)
(*                                                                         *)
(* A batch gives up control wherever the code awaits: before a request, for *)
(* its answer and for a re-login.  The code between two awaits is one       *)
(* action.  PJUD may answer anything the handlers tell apart.               *)
(***************************************************************************)
EXTENDS CircuitBreaker, ShapeCooldown, Turnos, FiniteSets

CONSTANTS
    Batches,        \* coroutines of the process that may be running a batch
    Reauth,         \* those called with a reauth_callback
    Cases,          \* cases in the listing
    BatchSize,      \* cases a batch selects (DETAIL_BATCH_SIZE)
    Attempts,       \* TRANSIENT_NAV_MAX_ATTEMPTS
    MaxTimeouts,    \* MAX_CONSECUTIVE_TIMEOUTS
    MaxTransient    \* MAX_CONSECUTIVE_TRANSIENT_FAILURES

ASSUME BatchAssumption ==
    /\ IsFiniteSet(Batches) /\ IsFiniteSet(Cases) /\ Reauth \subseteq Batches
    /\ {BatchSize, Attempts, MaxTimeouts, MaxTransient} \subseteq Nat \ {0}

VARIABLES
    circuit,   \* the breaker "pjud-detail"
    cooldown,  \* the Shape cooldown
    rotation,  \* the cases by last_detail_checked_at, the stalest first
    batch,     \* the local state of each batch
    seen       \* history: answers of an outage in a row, challenges in this cooldown

vars == <<circuit, cooldown, rotation, batch, seen>>

\* The end_reasons the properties tell apart; any other end leaves an idle batch.
EndReasons == {"consecutive_timeouts", "consecutive_transient_failures"}

\* History, per batch.  asked, logins: requests and re-logins of the current visit;
\* unreachable: visits that ended so since the last fetch that worked.
NoVisits == [asked |-> 0, logins |-> 0, unreachable |-> 0]

\* spared: the last visit failed for no fault of its case; end: how the batch ended.
NewBatch == [pc |-> "idle", todo |-> <<>>, attempt |-> 1, retry |-> FALSE,
             timeouts |-> 0, transient |-> 0, spared |-> FALSE,
             end |-> "-", seen |-> NoVisits]

Init ==
    /\ circuit = NewBreaker
    /\ cooldown = NewCooldown
    /\ rotation \in SetToSeqs(Cases)
    /\ batch = [b \in Batches |-> NewBatch]
    /\ seen = [outages |-> 0, challenges |-> 0]

-----------------------------------------------------------------------------
(* The shared state a visit touches *)

\* What the breaker makes of the way a request ended: a session or Shape verdict is
\* ignored, and so is a request the per-case timeout cancelled.
Unavailable == {"unreachable", "failed", "infra"}   \* record_failure
Answered == {"fetched", "unprocessable", "stranded"} \* record_success
NoSignal == {"expired", "unauthenticated", "challenged", "hung"}

\* "stranded": the detail was stored and committed, and the session expired while its
\* documents were downloaded; the handler cannot tell it from an expired session.
SessionErrors == {"expired", "unauthenticated", "stranded"}

\* Mutant: session errors are not among the breaker's ignored_exceptions.
HeardSessionErrors(cb, answer) ==
    CASE answer \in Unavailable \cup {"expired", "unauthenticated"} -> Failed(cb)
      [] answer \in Answered -> Succeeded(cb)
      [] OTHER -> cb

Heard(cb, answer) ==
    CASE answer \in Unavailable -> Failed(cb)
      [] answer \in Answered -> Succeeded(cb)
      [] OTHER -> cb

Outages(answer) ==
    CASE answer \in Unavailable -> AtMost(seen.outages + 1, FailureThreshold)
      [] answer \in Answered -> 0
      [] OTHER -> seen.outages

Case(b) == Head(batch[b].todo)

\* _mark_detail_checked and its commit: the case goes to the back of the rotation.
MarkChecked(b) == rotation' = ToBack(rotation, Case(b))

\* The same in an error handler, where a commit that raises is swallowed.
TryMarkChecked(b) == MarkChecked(b) \/ UNCHANGED rotation

-----------------------------------------------------------------------------
(* How a visit leaves the batch: w is what the handler made of its counters *)

Put(b, w) == batch' = [batch EXCEPT ![b] = w]

NextCase(b, w, spared) ==
    Put(b, [w EXCEPT !.pc = "head", !.todo = Tail(@), !.attempt = 1, !.retry = FALSE,
                     !.spared = spared, !.seen.asked = 0, !.seen.logins = 0])

Stop(b) == Put(b, NewBatch)

\* Mutant: the limits are compared with > instead of >=.
NextOrStopLate(b, w, spared) ==
    IF w.timeouts <= MaxTimeouts /\ w.transient <= MaxTransient THEN NextCase(b, w, spared)
    ELSE Put(b, [NewBatch EXCEPT !.spared = spared, !.seen = w.seen])

\* The next case, unless one of the counters reached its limit.
NextOrStop(b, w, spared) ==
    IF w.timeouts < MaxTimeouts /\ w.transient < MaxTransient THEN NextCase(b, w, spared)
    ELSE Put(b, [NewBatch EXCEPT
                    !.spared = spared, !.seen = w.seen,
                    !.end = IF w.timeouts >= MaxTimeouts THEN "consecutive_timeouts"
                            ELSE "consecutive_transient_failures"])

\* A request of batch b comes back with this answer.
Answer(b, answer) ==
    /\ batch[b].pc = "flight"
    /\ circuit' = Heard(circuit, answer)
    /\ seen' = [outages |-> Outages(answer),
                challenges |-> seen.challenges + IF answer = "challenged" THEN 1 ELSE 0]

Unreached(b) == [batch[b] EXCEPT !.seen.unreachable = AtMost(@ + 1, MaxTransient)]

-----------------------------------------------------------------------------
(* The head of the loop *)

\* Mutant: the cooldown is not looked at when a batch starts.
StartInCooldown(b) ==
    /\ batch[b].pc = "idle"
    /\ \E c \in Cases : Put(b, [NewBatch EXCEPT !.pc = "head", !.todo = <<c>>])
    /\ UNCHANGED <<circuit, cooldown, rotation, seen>>

\* In a cooldown the batch ends at once (no step).  The scheduler's batch takes the
\* stalest cases; POST /sync those of one rol or the first of the listing, whatever their
\* place in the rotation (bound: one case).
Start(b) ==
    /\ batch[b].pc = "idle"
    /\ ~Active(cooldown)
    /\ \E s \in IF b \in Reauth THEN {SubSeq(rotation, 1, AtMost(BatchSize, Len(rotation)))}
                ELSE {<<c>> : c \in Cases} :
        Put(b, [NewBatch EXCEPT !.pc = "head", !.todo = s])
    /\ UNCHANGED <<circuit, cooldown, rotation, seen>>

\* The egress guard refuses, or the detail clock ran past DETAIL_BATCH_MAX_SECONDS.
StopAtHead(b) ==
    /\ batch[b].pc = "head"
    /\ batch[b].todo # <<>>
    /\ Stop(b)
    /\ UNCHANGED <<circuit, cooldown, rotation, seen>>

\* PJUD may list any case without a detail token.
SkipNoToken(b) ==
    /\ batch[b].pc = "head"
    /\ batch[b].todo # <<>>
    /\ NextCase(b, batch[b], FALSE)
    /\ UNCHANGED <<circuit, cooldown, rotation, seen>>

Attend(b) ==
    /\ batch[b].pc = "head"
    /\ batch[b].todo # <<>>
    /\ Put(b, [batch[b] EXCEPT !.pc = "ready", !.spared = FALSE])
    /\ UNCHANGED <<circuit, cooldown, rotation, seen>>

Finish(b) ==
    /\ batch[b].pc = "head"
    /\ batch[b].todo = <<>>
    /\ Stop(b)
    /\ UNCHANGED <<circuit, cooldown, rotation, seen>>

-----------------------------------------------------------------------------
(* The request of a visit and its answers *)

Request(b) ==
    /\ batch[b].pc = "ready"
    /\ Admits(circuit)
    /\ circuit' = Entered(circuit)
    /\ Put(b, [batch[b] EXCEPT !.pc = "flight", !.seen.asked = @ + 1])
    /\ UNCHANGED <<cooldown, rotation, seen>>

\* A success on the retry after a re-login does not reset consecutive_timeouts.
Fetched(b) ==
    /\ Answer(b, "fetched")
    /\ cooldown' = Cleared(cooldown)
    /\ MarkChecked(b)
    /\ NextCase(b, [batch[b] EXCEPT !.transient = 0,
                                    !.timeouts = IF batch[b].retry THEN @ ELSE 0,
                                    !.seen.unreachable = 0], FALSE)

\* ShapeChallengeError, on a first fetch or on a retry: the same handler.
Challenged(b) ==
    /\ Answer(b, "challenged")
    /\ cooldown' = Tripped(cooldown)
    /\ Stop(b)
    /\ UNCHANGED rotation

\* Mutant: every attempt counts against MAX_CONSECUTIVE_TRANSIENT_FAILURES, not every case.
RetryInPlaceCounted(b) ==
    /\ batch[b].attempt < Attempts
    /\ Put(b, [batch[b] EXCEPT !.pc = "ready", !.attempt = @ + 1, !.transient = @ + 1])
    /\ UNCHANGED rotation

\* Mutant: the attempts are not counted.
RetryInPlaceForever(b) ==
    /\ batch[b].attempt < Attempts
    /\ Put(b, [batch[b] EXCEPT !.pc = "ready"])
    /\ UNCHANGED rotation

\* A transient navigation failure is retried in place, without a new login.
RetryInPlace(b) ==
    /\ batch[b].attempt < Attempts
    /\ Put(b, [batch[b] EXCEPT !.pc = "ready", !.attempt = @ + 1])
    /\ UNCHANGED rotation

\* Its retries ran out: the next case, the rotation position kept.
GiveUp(b) ==
    /\ batch[b].attempt = Attempts
    /\ ~batch[b].retry
    /\ NextOrStop(b, [Unreached(b) EXCEPT !.transient = @ + 1], TRUE)
    /\ UNCHANGED rotation

\* Any other error of the retry after a re-login: the case is advanced.
RetryFails(b, w, spared) ==
    /\ batch[b].retry
    /\ NextCase(b, w, spared)
    /\ TryMarkChecked(b)

NavigationFails(b) ==
    /\ \/ RetryInPlace(b)
       \/ GiveUp(b)
       \/ batch[b].attempt = Attempts /\ RetryFails(b, Unreached(b), TRUE)
    /\ UNCHANGED cooldown

Unreachable(b) == Answer(b, "unreachable") /\ NavigationFails(b)

\* CircuitOpenError counts as a page that did not load.
Refused(b) ==
    /\ batch[b].pc = "ready"
    /\ ~Admits(circuit)
    /\ circuit' = Entered(circuit)
    /\ NavigationFails(b)
    /\ UNCHANGED seen

\* asyncio.TimeoutError: wait_for cancels the request after PER_CASE_DETAIL_TIMEOUT_SECONDS.
Hung(b) ==
    /\ Answer(b, "hung")
    /\ \/ /\ ~batch[b].retry
          /\ NextOrStop(b, [batch[b] EXCEPT !.timeouts = @ + 1], FALSE)
          /\ TryMarkChecked(b)
       \/ RetryFails(b, batch[b], FALSE)
    /\ UNCHANGED cooldown

\* An error of the case, while it is fetched or while its detail is processed.
CaseFails(b, answer) ==
    /\ answer \in {"failed", "unprocessable"}
    /\ Answer(b, answer)
    /\ \/ /\ ~batch[b].retry
          /\ NextCase(b, batch[b], FALSE)
          /\ TryMarkChecked(b)
       \/ RetryFails(b, batch[b], FALSE)
    /\ UNCHANGED cooldown

\* "panel not loaded", "modal content empty": not the case's fault, it keeps its position.
InfraFails(b) ==
    /\ Answer(b, "infra")
    /\ \/ /\ ~batch[b].retry
          /\ NextCase(b, batch[b], TRUE)
          /\ UNCHANGED rotation
       \/ RetryFails(b, batch[b], TRUE)
    /\ UNCHANGED cooldown

\* The handler's rollback raises on a dead connection: the error leaves the function.
RollbackRaises(b, answer) ==
    /\ answer \in {"failed", "unprocessable", "infra"}
    /\ ~batch[b].retry
    /\ Answer(b, answer)
    /\ Stop(b)
    /\ UNCHANGED <<cooldown, rotation>>

-----------------------------------------------------------------------------
(* A session error *)

SessionError(b, answer) ==
    /\ answer \in SessionErrors
    /\ Answer(b, answer)
    /\ IF answer = "stranded" THEN MarkChecked(b) ELSE UNCHANGED rotation
    /\ UNCHANGED cooldown

\* Mutant: the fetch after a re-login asks for another one.
AskLoginAgain(b, answer) ==
    /\ SessionError(b, answer)
    /\ b \in Reauth
    /\ Put(b, [batch[b] EXCEPT !.pc = "login", !.seen.logins = @ + 1])

\* The first time, ask for a new session.
AskLogin(b, answer) ==
    /\ SessionError(b, answer)
    /\ ~batch[b].retry
    /\ b \in Reauth
    /\ Put(b, [batch[b] EXCEPT !.pc = "login", !.seen.logins = @ + 1])

Relogged(b) ==
    /\ batch[b].pc = "login"
    /\ Put(b, [batch[b] EXCEPT !.pc = "ready", !.retry = TRUE, !.attempt = 1])
    /\ UNCHANGED <<circuit, cooldown, rotation, seen>>

LoginFails(b) ==
    /\ batch[b].pc = "login"
    /\ Stop(b)
    /\ UNCHANGED <<circuit, cooldown, rotation, seen>>

\* With no way to log in, or on the fetch that followed the re-login, the batch ends: an
\* expired session right after a login is the account's detail limit, not retried either.
SessionLost(b, answer) ==
    /\ SessionError(b, answer)
    /\ \/ batch[b].retry
       \/ b \notin Reauth
    /\ Stop(b)

-----------------------------------------------------------------------------
(* Time, and the process *)

CooldownWaits ==
    /\ Active(cooldown)
    /\ cooldown' = Waited(cooldown)
    /\ seen' = [seen EXCEPT !.challenges = IF Active(cooldown') THEN @ ELSE 0]
    /\ UNCHANGED <<circuit, rotation, batch>>

CircuitWaits ==
    /\ circuit.state = "open"
    /\ circuit.elapsed < RecoveryTimeout
    /\ circuit' = Later(circuit)
    /\ UNCHANGED <<cooldown, rotation, batch, seen>>

\* The process dies and is started again: only the rotation survives.
Restart ==
    /\ circuit' = NewBreaker
    /\ cooldown' = NewCooldown
    /\ batch' = [b \in Batches |-> NewBatch]
    /\ seen' = [outages |-> 0, challenges |-> 0]
    /\ UNCHANGED rotation

Loop(b) ==
    \/ StopAtHead(b)
    \/ SkipNoToken(b)
    \/ Attend(b)
    \/ Finish(b)
    \/ Request(b)
    \/ Refused(b)
    \/ Fetched(b)
    \/ Challenged(b)
    \/ Unreachable(b)
    \/ Hung(b)
    \/ \E answer \in Unavailable \cup Answered : CaseFails(b, answer) \/ RollbackRaises(b, answer)
    \/ InfraFails(b)
    \/ \E answer \in SessionErrors : AskLogin(b, answer) \/ SessionLost(b, answer)
    \/ Relogged(b)
    \/ LoginFails(b)

Next ==
    \/ \E b \in Batches : Start(b) \/ Loop(b)
    \/ CooldownWaits
    \/ CircuitWaits
    \/ Restart

Spec == Init /\ [][Next]_vars

\* A started batch goes on: its requests, its logins and its pauses are all bounded.
FairSpec == Spec /\ \A b \in Batches : WF_vars(Loop(b))
-----------------------------------------------------------------------------
(* What must hold *)

Local == [pc : {"idle", "head", "ready", "flight", "login"}, todo : SeqOf(Cases, Cardinality(Cases)),
          attempt : 1..Attempts, retry : BOOLEAN, timeouts : 0..MaxTimeouts - 1,
          transient : 0..MaxTransient - 1,
          spared : BOOLEAN, end : EndReasons \cup {"-"},
          seen : [asked : Nat, logins : Nat, unreachable : 0..MaxTransient]]

\* The type invariant; a running batch's counters are below the limits that end it.
TypeOK ==
    /\ circuit \in Breaker
    /\ cooldown \in Cooldown
    /\ rotation \in SetToSeqs(Cases)
    /\ batch \in [Batches -> Local]
    /\ seen \in [outages : 0..FailureThreshold, challenges : Nat]

\* One visit costs PJUD at most one login and two rounds of attempts, whatever PJUD
\* answers and whatever the breaker does in between.
VisitBounded ==
    \A b \in Batches : batch[b].seen.logins <= 1 /\ batch[b].seen.asked <= 2 * Attempts

\* Once Shape challenges the station, the batches already running can draw at most one
\* more challenge each before its cooldown ends: nothing hammers the flagged address.
NoHammering == seen.challenges <= Cardinality(Batches)

\* "The network or PJUD is down" is said only when that many visits in a row found PJUD
\* unreachable, no visit of the batch having succeeded in between.
TransientStopIsConsecutive ==
    \A b \in Batches :
        batch[b].end = "consecutive_transient_failures" => batch[b].seen.unreachable >= MaxTransient

\* Only a run of outage answers opens the circuit: never an expired session, a Shape
\* challenge, or failures with an answer of PJUD between them.
OpensOnlyOnOutage ==
    [][circuit.state = "closed" /\ circuit'.state = "open"
        => seen'.outages >= FailureThreshold]_vars

\* Every batch ends, whatever PJUD does: no case and no circuit can hold it for ever.
BatchEnds == \A b \in Batches : []<>(batch[b].pc = "idle")

\* The handlers' comments: a visit that failed for no fault of the case keeps its position.
BlamelessKeepsPosition ==
    [][\A b \in Batches :
        batch[b].pc \in {"ready", "flight"} /\ batch'[b].spared
            => rotation' = rotation]_vars

\* "The last retry probes the half-open circuit": with no request in flight, a half-open
\* circuit lets one through.
HalfOpenIsProbed ==
    circuit.state = "half_open" /\ (\A b \in Batches : batch[b].pc # "flight")
        => Admits(circuit)
=============================================================================
