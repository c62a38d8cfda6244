# segal-case-tracker in TLA+

This directory keeps a TLA+ model of the parts of segal-case-tracker whose correctness
depends on order, concurrency, failures and retries. The TLC runs check it on small
instances and the TLAPS proofs hold for every size. Everything is translated from the
code under `src/app`; `PROJECT.json` maps each definition to the lines it models.

## 1. The system

The system follows the court cases of a law firm's lawyers. A **station worker** logs in to
PJUD (the court's web site) in a real browser and stores what it finds in PostgreSQL; a
**FastAPI application** serves the firm and other systems (GEDOC, SYSGAL); further workers
drain queues. All of them talk through the database; the resilience state (circuit
breaker, Shape cooldown, egress cache) is in the memory of each process.

| Component | State it keeps | Operations | Hard part | What makes it correct |
|---|---|---|---|---|
| Presentación queue (`workers/presentacion_worker.py`, `api/presentacion`) | rows of `presentaciones` with an `estado` | create, revisar, enviar (HTTP); claim, present, record (worker) | handlers and worker read a row in one transaction and write it in another; crash between claim and outcome; retries | one filing per key, loaded in the OJV again only after a lost load, bounded calls, review before send by another person, queue drains |
| Detail batch (`detect_and_sync_movements`) | local counters; `last_detail_checked_at` of the cases | visit a case, retry in place, re-login, mark, stop | concurrent batches, eight kinds of failure at every await, counters reset on some paths | bounded requests and logins per visit, stops only for the reason it gives, rotation is fair, ends |
| Circuit breaker (`resilience/circuit_breaker.py`) | closed, open, half-open; counts | admit, success, failure | answers of concurrent requests interleave; requests that report nothing | opens only on an outage; recovers |
| Shape cooldown (`services/shape_cooldown.py`) | window, consecutive hits | trip, clear, active | read once per batch, shared by all | the station does not hammer PJUD when challenged |
| Sync cycle (`workers/sync_scheduler.py`) | block after rejected logins, sync history | one pass over the lawyers every interval | re-login counted once, partial results never recorded as complete, restarts | stops on repeated rejections, no lawyer starves |
| Listing upsert and rotation (`sync_service.py`) | `cases` | upsert the listing, choose a batch | commit retry, lanes, batch size | no case starves, no case lost |
| Movements, alerts, digests (`sync_service.py`, `notification_service.py`, `movement_digest.py`) | movements, alerts, buckets in memory | insert, alert, accumulate, flush, mark sent | two syncs of one case; crash between mail and mark; bounded bucket | no movement alerted twice, no alert lost |
| Semáforo alerts (`semaforo_alerts.py`) | alerts with a key | create due alerts, dispatch pending | overlapping runs, partial dispatch | once per (plazo, slot, level, recipient) |
| Deadline engine (`deadline_engine.py`, `business_days.py`) | `case_deadlines` | compute terms and verdicts | boundaries of legal calendars | terms agree with their definition |
| Connection queue, session store, rate limiter, egress guard | a row, Redis keys, tokens, a cached verdict | claim, save, take, ask | concurrent consumers, two indexes, shared bucket, staleness | claimed once, one session per lawyer |
| Ingest, merge, hitos, liberaciones, asignación, matriz, roster, read APIs | rows | CRUD and calculations | mostly sequential | unit tests reach them |

How they interact: the sync cycle calls the listing and then the detail batch; client sync
and `POST /sync` call the same batch, in the same process when the scheduler runs inside
the API. A batch asks PJUD only through `resilient_call`, which is where the breaker hears
the outcome; it consults the cooldown at its start and trips or clears it. The
movements it stores produce alerts, which the notification service accumulates and mails
at the end of the batch. The presentación queue shares nothing with the rest but the
database.

`PROJECT.json` lists every component, with the reason where one is not modelled, and every
hazard, at its line.

## 2. How the project was built, and what would come next

In the order of what a mistake costs:

1. `PresentacionPromise`, `Presentacion`, `PresentacionProofs`: the queue of filings, what it
   promises, and the proofs.
2. `CircuitBreaker`, `ShapeCooldown`, `DetailBatch` (which composes both), `DetailBatchProofs`;
   `Turnos` and `TurnosProofs`, the turn-taking order the next module shares.
3. `SyncCycle`, `SyncCycleProofs`: the cycle over the lawyers, in which a detail batch is one
   step, and its breaker on refused sessions.
4. `Novedades`, `NovedadesProofs`: what a visit of the batch does with the movements it brings.
5. `Plazos`, `PlazosProofs`: the deadlines computed from those movements.
6. `AlertasPlazo`, `AlertasPlazoProofs`: the alerts raised from those deadlines.
7. `Hitos`, `HitosProofs`: the milestones of the bonus and the close of a month.

The chain sync cycle, detail batch, movements, deadlines, alerts is cut at the database rows
between them: each module takes what the one before it may leave there, at any moment, as
its environment (`Publica`, `Requiere`, `Juzga`, `Firma`). A single composition would
multiply state spaces that share nothing else.

Next would come the lanes of the rotation as a pure module, the connection queue, a key
changed through the API while the worker's login with the old one is under way, and the
alerts of the parallel plazos (poder, abandono).

## 3. Modules

### Presentacion

| Code | Model |
|---|---|
| the table, its unique index and serial ids | `row`, `KeyTaken`, `IsNextId` |
| `create_presentacion` | `CreateRead` (look-up), `CreateCommit` (insert) |
| `revisar`, `confirmar_envio` | `RevisarRead`, `RevisarCommit`; `EnviarRead`, `EnviarCommit` |
| a commit that raises | `RequestFails` |
| `claim_next` | `ClaimSelect`, `ClaimCommit` |
| `process_one` | `Presentar` (download and `presentar_fn`), `ProcessCommit`, `ProcessCommitFails` |
| `run_loop`'s catch-all and the death of the process | `Abandon` |

A handler that returns an error or repeats the present state changes nothing and is no
step. `Flush` is what SQLAlchemy does at a commit: a column is in the UPDATE only if it
differs from the value read, which is why a late review can leave `revisado_at` of one
person with `revisado_por` of another. `presentar()` is a stub in the repository; `Resultados`
is its documented contract (a semiauto filing is left in the Bandeja, an auto one is
answered), and any failure is possible. `ojv` is a history variable: the calls made, the loads
achieved outside the database, and of these the lost ones. A call loads before its outcome
is known: one that then fails, by a timeout or a broken page, may have loaded the filing
(`cargo`), and when the failure is a `TransientPresentacionError` that load is lost
(`perdidas`), since the row goes back to the queue as if it had not happened.

`PresentacionPromise` is the abstract view of a client: absent, queued, working, bandeja,
closed, with attempts, reviewed and confirmed. `Promise` in `Presentacion` instantiates it
with the mapping `Phase`.

### DetailBatch, CircuitBreaker, ShapeCooldown

`CircuitBreaker` and `ShapeCooldown` are functions on a record, since each method runs
without an await inside its lock. `DetailBatch` holds one record of each and a record per batch.
An action is the code between two awaits:

| Code | Model |
|---|---|
| cooldown check and selection | `Start` |
| egress guard, 55-minute cap | `StopAtHead` |
| no token; next case; end | `SkipNoToken`, `Attend`, `Finish` |
| `wait_for(resilient_call(...))` admitted or refused | `Request`, `Refused` |
| outcomes | `Fetched`, `Challenged`, `Unreachable`, `Hung`, `CaseFails`, `InfraFails`, `RollbackRaises`, `AskLogin`, `SessionLost` |
| `_fetch_with_transient_retry` | `RetryInPlace`, `GiveUp` |
| the re-login and the retry handler | `Relogged`, `LoginFails`, `RetryFails` |
| passing of time, restart of the process | `CooldownWaits`, `CircuitWaits`, `Restart` |

PJUD answers anything the handlers tell apart (`Unavailable`, `Answered`, `NoSignal`). The
rotation is the sequence of cases ordered by `last_detail_checked_at`; a mark moves the case
to the back (`ToBack`, in `Turnos`). `seen` holds history: requests and logins of the visit, visits in a row that
were unreachable, outage answers in a row, challenges in the present cooldown. `spared`
says whether the last visit failed for no fault of its case.

### SyncCycle

| Code | Model |
|---|---|
| `_run_sync_cycle`: block, order, end | `BeginCycle`, `EndCycle`, `BlockWaits` |
| `_wait_for_allowed_egress` | `PassEgress` (the cycle stays at pc `egress` meanwhile) |
| `needs_sync`, session store | `SkipFresh`, `StartUnit`, `Ages` |
| `_reauth_with_network_retry` | `LoggedIn`, `LoginRetry`, `SkipNoSession` |
| listing, its second login and its second refusal | `Listed`, `Refused`, `Relogged`, `RefusedAgain` (which counts, and trips) |
| `sync_cases` | `Upserted`, `UpsertFails` |
| rotation, detail batch and the last record | `DetailsDone`, `RecordPartial`, `DetailsFail` |
| the handler of `sync_lawyer_cases` and of the loop | `UnitFails` |
| `POST /sync` and the other writers of `sync_history` | `ApiRun`, `ApiRunBreaks` |
| restart of the process | `Restart` |

`sync_history` is kept as its readers see it: `order` is what `_active_lawyer_ids_by_staleness`
returns, `fresh` are the lawyers whose last completed or partial run is recent, `undated`
those with a completed row without a date. A row that turns partial gives its lawyer its
old place back; `revert` remembers that order for the newest row. A run of the API is one
step, so it is always the newest row when it falls between the upsert and the details.
`block` is what remains of `_auth_block_until`, in ticks. `seen` holds history: the units in a
row whose newest login PJUD refused, counted apart from `consecutive_rejections`.

### Novedades

| Code | Model |
|---|---|
| `movements`, their alerts, `last_movement_at` | `filas` (a row with its alert), `ultimo` |
| the case in the session, and its expiry at a commit | `leido`; `Carga`, `Expira` |
| `sync_movements` up to its commit | `sync_movements`; `Conocidos`, `Candidatas`, `Curas`, `Nuevas`, `Altas`, `Entradas` |
| `_recompute_last_movement_at` | `UltimoDe`, and `AnotaUltimo`: it is written if it differs from `leido` |
| its commit | `Commit` (of a sync of its own: after its digest, with the date only) |
| `close`, `flush_digests`, `_send_digest`, `_mark_sent_and_commit` | `flush_digests`; `NoSale` (no mail), `SinMarca` (mail, no commit) |
| the batch's handler of an error; a crash | `Rollback`, `Muere` |

A batch (`Lotes`) shares one notification service among its cases and closes it at its end; the
other callers (`Propios`) own theirs and close it before the commit, whose marks then
commit the movements too. Rows repaired by hand lost their text (`texto = Null`) and are
healed by the first movement of their folio and date; several of one folio and date share a
key of the map the loop looks in, so that one of them is healed and the others stay
(`Curas`). `perdio` says that another sync committed since this one read.

### Plazos

| Code | Model |
|---|---|
| movements, escritos, firm side, today | `movs`, `escritos`, `lado`, `hoy` |
| `case_deadlines`, columns of the case, pending release | `plazos`, `caso`, `pedido` |
| the classifier, the anchors, the verdicts | `Etapa`, `Disparo`, `Vence`; `Evalua`, `Pruebas`, `ATiempo` |
| `_recompute_safe`, steps 4, 5, 5b, 6, 6b, 6c | `EnCurso`, `Avanza`, `Sobrepasa`, `Rebeldia`, `Vencido`, `Rejuzga`, composed in `Recalculos` |
| steps 7 and 8 | `Color`, `Liberada`, `Columna` |
| a sync that recomputes | `Recalcula` (uninterrupted); `Lee`, `Commit`, `Aborta` |
| marks, manual plazos, releases | `update_deadline_status`, `create_manual_deadline`, `crear_liberacion`, `aprobar_liberacion`, `rechazar_liberacion` |
| new evidence, time | `Publica`, `RecibeEscrito`, `PasaDia` |

A step of the recomputation is a function from a row to a row, in the code's order; the
result is a set because rebeldía takes whichever active row its query returns first. A
session writes only the columns it changed (`Cambios`), which is how two of them mix in
one row. Two plazos stand for the twelve: `excepciones`, which a defence closes, and
`traslado`, which only the court's next act does. Days are business days.

### AlertasPlazo

| Code | Model |
|---|---|
| the alerts, by key | `alertas`; a key that got a second row has it under 2 |
| one run of `run_semaforo_alerts` | `corrida`: `Empieza`, `CreaAlertas`, `MiraVencido`, `CreaVencido`, `Lista`, `Manda`, `ListaVencidos`, `Cierra` |
| a commit or a mail that fails, a crash | `NoCrea`; `NoManda`, `MandaSinMarca`, `Cierra` with its two flags; `Muere` |
| `assess`, `level_for_day`, `business_days.py` | `Nivel`, `NivelDe`, `SumaHabiles`, `Transcurridos` |
| engine and auditor | `Requiere`, `Juzga`, `Firma` |

Each commit and each mail is a step, since the two processes that run it, the worker and
the cron job, share no lock. A run keeps the day it began on and the keys it read. `SumaHabiles` is the day
`add_business_days` returns, not its loop.

### Hitos

| Code | Model |
|---|---|
| `hitos`, closed months | `hitos`, `cerrado` |
| create and forms, evidence, aprobar, rechazar, eliminar, edit, importar | the set of units of work each could write now: `CrearTrabajos`, `AdjuntarTrabajos`, `AprobarTrabajos`, `RechazarTrabajos`, `EliminarTrabajos`, `EditarTrabajos`, `ImportarTrabajos` |
| `_HitoDedupTracker` | `Conocibles`, `FilasNuevas` |
| `detectar` (a job that runs alone) | `DetectarTrabajos` |
| a session | `Lee`, then `Commit` or `Rollback`; `Atiende` when nobody interrupts |
| the close | `CerrarPeriodo`, `ReabrirPeriodo` |

Every request reads and checks first and writes later; it is slow when it awaits an upload or
when another process of the API serves the others. `mira` is what a request judged before it
wrote (rows, months, that no other row names the client), and `despues`, history, what others
changed of it meanwhile. Evidence is a document (`Evidencias`), so that replacing one by another is a change; an edit may
also take the client's RUT away, and then nothing collides with the row. `Textos` are the
ways a sheet may write the causa: the tracker knows the stored rows by `_causa_key` and looks
each row of the sheet up by its text, so that it recognizes only the text that is the key.
`ajenos`, history, are the rows that came in by another text. Creations name the
client, and a sheet has one or two rows of the causa that differ in their text only (bounds).
An approval, rejection or edit that changes nothing of a row sends no UPDATE for it
(`Distintas`). The refusal of form hitos without evidence (`FaltaEvidencia`) is kept, though the
forms already demand it.

## 4. Runs

| Run | Instance | What it shows |
|---|---|---|
| `presentacion` | 2 filings, 2 keys, 1 person or anonymous, 2 handlers, 1 worker, 2 attempts, 2 crashes | the invariants and the refinement below; `QueueDrains` |
| `presentacion_four_eyes` | 1 filing, 2 people, 2 handlers | `FourEyes` is violated: two reviews overlap |
| `detail_batch` | 2 cases, the scheduler's batch and one of the API, every limit 2 | the invariants below; every batch ends |
| `detail_batch_retry_marks` | 1 batch, 2 cases | `BlamelessKeepsPosition` is violated on the retry after a re-login |
| `detail_batch_circuit_wedge` | 1 batch, 3 half-open slots | `HalfOpenIsProbed` is violated: slots are lost |
| `sync_cycle` | 3 lawyers, 2 refusals trip, 2 logins, runs of the API, restarts | the properties below |
| `sync_cycle_undated_row` | 2 lawyers | `FreshIsSkipped` is violated: a broken run leaves a row without a date |
| `novedades` | 3 movements (two of one folio and day), 4 rows, a batch and a sync of its own, a digest of one entry, one webhook, 1 failure | the properties below |
| `plazos` | both sides, 4 days, 2 movements of 4 kinds, 1 escrito, 1 manual request or release, syncs overlap on day 2 | the properties below |
| `alertas_plazo` | the worker and the job over the days of a two-day term, overlapping on its last day, 1 failure, 2 changes of the plazo | the properties below |
| `hitos` | 2 rows, 2 months, 1 movement, one slow session and any others | the properties below |
| `hitos_closed` | the same | `ClosedIsFrozen` is violated: imports and rejections do not look at the close |

The properties that hold:

- `OneRowPerKey`, `LoadedAgainOnlyIfLost`, `CallsBounded`, `OrphansOnlyByCrash`, `QueueDrains` and
  `KeepsPromise`: no duplicate filing; one is loaded in the OJV again only if a transient error
  lost each load before, and never after a success, a hard failure, a crash or a lost commit;
  the limit of attempts is one on calls, a filing is stuck in `presentando` only after a crash, the queue empties, and every
  step is one the promise allows.
- `VisitBounded`, `NoHammering`, `TransientStopIsConsecutive`, `OpensOnlyOnOutage`, `BatchEnds`:
  one login and two rounds of attempts per visit; one challenge per batch and cooldown;
  the batch gives up on PJUD only after visits in a row that found it unreachable; the circuit
  opens only after a run of outage answers; every batch ends.
- `BlockIsSilent`, `TripOnlyOnRejections`, `NoOneLeftOut`, `StalenessIsFair`: no cycle runs in the
  block, which only refusals in a row set; every lawyer gets a turn for ever, however the
  units of the others end, as long as the station stays up and is neither blocked nor
  without an address; and if units do complete, also when it restarts for ever. The
  exceptions are stated in the properties and are real: a lawyer whose sessions are always
  refused keeps its place at the head, and may trip every cycle.

- `ToldOncePerRow`, `NoNewsLost`, `NewsIsNew`, `LastMovementIsLast`: one mail and one webhook per
  row stored, plus one per failure; an alert that fits in its digest is sent or still in
  somebody's hands; a movement gets a second row only from a sync that missed the first, or
  through a repaired row that another cuaderno's movement of that folio and day took; the
  date of the last movement is right after a sync that nobody overlapped and whose loaded date
  nobody changed since: otherwise an older date may stay (section 6).
- `Estable`, `RedIsOwed` (`LapsedFatalIsRed` and `NoStaleRed`), `OnTimeDefenseIsNeverAMiss`: about
  what the next recomputations say, in every state the evidence can be in. They settle; a fatal
  plazo that lapsed shows; a state that was left behind does not; a defence filed in time
  never counts as missed, whenever its proof arrives. Their hypotheses name the exceptions,
  which are real: with a manual plazo of excepciones, rebeldía may take either row; a pending
  plazo of the firm hides with its colour a mandatory one that lapsed; what one recomputation
  closes with a verdict of the movements alone, only the next judges again; and a row whose
  close and verdict contradict each other is never looked at again.
- `VerdictFitsStatus`: no step makes such a row, but for a sync that had read it before
  others closed it (its late commit writes the verdict it computed over their status).
- `AuditorStands`, `ReleaseStands`: what people decided is changed only by a sync that had read
  the row before, by a later act of the court (releases), or by rebeldía (manual plazos).
- `LastDayIsRojo`: the scales, the calendar and the cutoff agree for every way Sundays and up to
  three holidays in a row can fall. `OnceUnlessOverlap`, `MarkedIsMailed`, `RojoIsTold`: an
  alert is stored and mailed once unless two runs overlapped or something failed, marks are
  honest, and the alert of the last day leaves while the plazo is open, if cycles go on
  beginning (`CiclosSiguen`).
- `OneHitoPerMovement`, `DuplicatesOnlyByKnownGaps`, `EvidenceFrozenUnlessOverlap`,
  `ClosedChangesOnlyByKnownGaps`: one hito per movement whatever is rejected or edited; two hitos
  of a causa only from requests that overlapped, or from a sheet that does not write it by its
  key; the evidence of an approved hito is attached or replaced only by a request that read
  the hito before its approval; a hito enters or leaves the approved ones of a closed month
  only under a request that missed the close or a change of that hito, or by the import and
  the rejection, which ignore the close.

The violations are disagreements between a comment or docstring and the code; each is a
finding in `PROJECT.json` with both lines quoted.

**Bounds.** Two of each actor give every pairwise interleaving, and the properties relate
at most two. Limits (attempts, timeouts, thresholds) are 2: with 1 the counters never hold an
intermediate value, and more repeats the same step. The code's values are 4 attempts, 3
timeouts, 5 unreachable cases, 5 failures, 3 half-open slots, 2 successes. `MaxRows`,
`MaxCrashes` and `MaxHits` bound the instance, not the code. The API's batch visits one
case at a time. `SyncCycle` has no bound but its constants; three lawyers are what makes an
order more than a swap, and there are fewer refusals to a trip than lawyers, so that a
trip leaves some of them out. In `Novedades` a digest of one entry and a budget of one
are already overrun by two movements, and the fourth row is what a duplicate needs. In `Plazos`
one movement starts a plazo and the second moves, ends or answers it; the terms are one
business day and the margin another, so that four days hold the term, the margin and two
days after it; a requerimiento counts for two days (the code's 30), so that one of the last day
comes too late for a notice of the first. A ruling on the opposition, the fifth kind, and longer histories are left to the
proofs, which hold for all of them. `DiasSolape`, in `Plazos` and in `AlertasPlazo`, are the days on which two processes may
overlap; one is enough, since what they do on another day differs in the colour only. The
term of `AlertasPlazo` is two days: with four, the three levels each have days of their own, but
the state space is some twenty times larger; `LastDayIsRojo` judges all the scales apart
from that. Nothing else changes the plazo while two runs overlap. In `Hitos` two rows make a pair, two documents a
replacement and one text besides the key a sheet the tracker does not recognize; while one
request is slow the others are any. Deadlock is not checked where the system may
rest: the queue empty and everybody idle, the egress forbidden for ever, or the last day
and the last piece of evidence of the bound reached.

**Fairness.** `WF(WorkerStep(w))`: `run_loop` polls for ever and downloads and calls are
bounded by timeouts; handlers, crashes and failed commits are not fair. `WF(Loop(b))`: a
started batch goes on because each of its awaits ends (per-case timeout, egress and login
timeouts, sleeps); nothing obliges PJUD to answer in any particular way, a batch to start
or a cooldown to pass. In `SyncCycle`, `WF(BeginCycle)`: the interval trigger with one instance
and coalescing; `WF(EndCycle \/ Unit)`: a unit is a chain of such awaits; `WF(BlockWaits)`: the
clock. `PassEgress` is not fair: the address may stay forbidden. In `AlertasPlazo` nothing obliges a
run to begin: the worker's begins inside a cycle, which may wait for an allowed address for
ever (`sync_scheduler.py:123-138`) and with `max_instances=1` keeps the next from starting, and the
cron job runs only where it is scheduled. That cycles do go on beginning is the hypothesis
`CiclosSiguen` of `RojoIsTold`. `WF(Paso(c))`: a run goes on while its
process lives; `SF(Manda(c))`: a mail that is tried run after run leaves in the end, which is an
assumption about the mail server and the only one on the environment. Days are not fair: they
may pass while a run waits, and then the plazo is over.

## 5. Proofs

`PresentacionProofs` is checked by TLAPS for any number of rows, keys, people, handlers,
workers and attempts. The assumptions are those on the constants (`MaxRows` and
`MaxIntentos` are numbers, the anonymous person is nobody).

- `OrphansAlways` counts: it holds of the larger set of filings in `presentando` that no worker
  will write (`Huerfanas`), which a crash enlarges by one at most and no other step does. The
  property alone is not inductive with two workers on one filing: the one that read it in
  another estado holds it and then writes nothing.
- `TypeCorrect` and `OneFilingPerKey`: from `Inv`, which adds `CopiasVivas` to the two
  properties (a handler or worker that holds a copy holds one of an existing row).
  Without it a commit could write a row that does not exist, so neither is inductive alone.
- `LoadedOnce`, `CallsAreBounded`, `PromiseKept`: under the hypothesis `SingleWorker`, from
  `IInv == Inv /\ Acuerdo`. `Acuerdo` has three parts: `Tomas` (the worker's copy agrees with
  its row in each phase of an iteration), `Revisiones` (a review or confirmation under way is
  of a row that is still in the Bandeja) and `Cuentas` (what a filing has cost against its
  attempts, by estado). `CallsBounded` alone is not inductive: it must be known that the
  attempt was counted before the call and that a claimed row has attempts left. `LoadedOnce`
  says that a call loads a filing again only if every load before was lost to a transient
  error; a step of the worker sees to it only because `Cuentas` says so of each row in the
  queue, and `Tomas` of the row it has claimed: the other outcomes leave the queue. Without the
  hypothesis it fails: a claim is a read and a later write (`claim_next` says
  "atomically"), and two workers can claim one filing.
- `PromiseKept` is the refinement: one lemma per action that writes a row maps it to a step
  of `PresentacionPromise`; all other actions leave the abstract state alone.

`DetailBatchProofs` holds for any finite sets of batches and cases and any limits. Besides positive
limits it assumes that a cooldown is never of zero length (`WindowAssumption`: true of the
code's base and maximum, and checked by TLC for the instance's).

- `VisitBoundedAlways` and `TransientStopAlways`, from `Sounds`, which speaks of one batch at a
  time: what a visit has cost at each await (`Cost`: a round of attempts, a login, another
  round), and that the code's counter is at most the visits that were unreachable in a row
  (`Failures`).
- `NoHammeringAlways`, from `Quiet`: the challenges of a cooldown are at most the batches that
  are idle, since each ended the batch that drew it and none starts before the cooldown is
  over. The property itself, a bound by all batches, is not inductive.
- `OpensOnlyOnOutageAlways`, from `Heeds`: a closed circuit has counted at most the outage answers
  in a row, whichever batches they came to.

- `TypesAlways`, from `IInv` and `Typed`: the counters are first only numbers (`Loose`), since what
  bounds them is `Sounds`; a visit has a case (`Engaged`), without which `Attend` could take the
  head of an empty list; and the rotation stays an order of all the cases, each of them
  once, which is `AlFinal` of `TurnosProofs` (a turn permutes the order: `Orden` says that an
  order of a finite set is a bijection).

`SyncCycleProofs` holds for any finite set of lawyers and any limits, from the assumption that
the limits are positive.

- `SilentBlock` and `OnlyRejectionsTrip`, from `IInv`: `BlockIsSilent`, and `Counters`, by which the
  code's counter is at most what PJUD refused in a running cycle and stays below the
  limit. `BlockIsSilent` is not inductive without it (the block must be a number that only
  counts down), and the second theorem is a property of steps that needs the comparison of
  the two counters. `IsCycle` says that the local state has its fields.
- `TypesAlways`, from `TypeOK /\ UnitOK`: a unit under way has its lawyer, `revert` is an order
  while details may still turn the row partial, and the code's counter is that of the
  refusals in a row. Types alone are not inductive: `RecordPartial` puts `revert` back in
  the table. That `order` loses nobody is again `AlFinal`.

`PlazosProofs` holds for any sides, kinds of movement, terms, margins, days and bounds, from
three assumptions: `Null` is no number, row, colour or verdict; terms and margins are
numbers of days; the destinations of a release are colours.

- `AuditorStandsAlways` and `ReleaseStandsAlways`, from `IInv`: the rows and columns have their
  fields (`Formas`), and the unit of work of the sync in progress agrees with the present rows
  wherever nobody has written since it read (`FilasDe`, `CasoDe`). Without this last part the
  step `Commit` could write anything. Two lemmas carry the weight: no step of the
  recomputation touches a row the auditor signed, or a manual one but by rebeldía; and
  writing the changed columns over an unchanged row yields the computed row.
- `TypesAlways` and `VerdictFitsStatusAlways`, from `VInv`, which adds the types of the rows and
  of the unit of work (`TInv`) and, of each row a sync computed, that close and verdict agree if
  they did in the row it read (`Acuerdo`): each step of the recomputation is shown to keep
  them, and a commit that mixes two sessions' columns is the case the property excludes.
- `RedIsOwedAlways`, `OnTimeDefenseAlways` and `EstableAlways` speak of one to three
  recomputations in a row. `FilasDelRecalculo` reduces a recomputation to a function of each
  row (`Paso`), but for rebeldía's choice; `RecalculoUnico` says that without a manual row there
  is no choice; `DosPasos` that two steps of a row reach a fixed point, by cases on its state;
  `Repara` that two steps undo a miss whose evidence is on file; `FilaVencida` that a lapsed
  row is expired, or judged. All this is about states, so the invariant they need is small: `VInv`,
  and `Docket` (movements are of the known kinds and days). `MinimoDeDias`, that a set of days
  has a least one, replaces an induction: it is the well-foundedness of the numbers.

`NovedadesProofs` holds for any finite sets of movements, ids, batches and syncs and any limits, from the assumptions that `Null` is none of them and the dates of
movements are numbers.

- `NoNewsLostAlways`, from `IInv == Formas /\ (fallas = 0 => Anunciadas /\ NoNewsLost)`:
  `Anunciadas` is the property before the commit (every row a sync is about to store with
  its alert pending has an entry in its digest), without which the commit could break it.
- `NewsIsNewAlways`, `LastMovementIsLastAlways`, `ToldOncePerRowAlways` and `TypesAlways` share `GInv`: what a sync holds is true of the table (`Fiel`: its new rows are free, its
  entries of alerts that wait, one of each for a movement), and no two syncs hold one new row or
  entries of one row (`Aparte`). `Pasos` says what a step can
  be in those terms: nothing, the beginning of a sync, a transaction that stores what one
  held, or a failure. Each theorem then adds a conjunct of its own: the types, `NInv` (what a
  sync holds as new has no row), `FInv` (its date is that of the last movement there will be
  once it is stored; it writes it unless it is the one it loaded, and then, by the hypothesis
  of the property, that one is in the table), `CInv` (the mails and webhooks of a movement against its rows and the
  failures).
- `FinitoMax` (a finite set of dates has a last one) is an induction on finite sets; it is
  proved by taking a smallest counterexample, as inclusion among finite sets is well founded.

`AlertasPlazoProofs` holds for any processes, calendars, scales, readings, recipients and bounds,
from three assumptions: the colours of a scale come in order before its last day and the
terms are finitely many (`semaforo_config.py`); `Null` is no level; a calendar has finitely
many holidays, and few enough for each term to end before the cutoff by age, which is what
`config.py:108` asks of `SEMAFORO_MAX_TRIGGER_AGE_DAYS`.

- `MarkedIsMailedAlways` and `OnceUnlessOverlapAlways`, from `IInv`: the alerts and runs have
  their fields; what a run is sending is stored and unsent as long as it is alone, and the
  keys it read are still all there are (`Corren`); and two runs in progress both know they
  overlap (`SoloUna`). The keys are why a second row needs an overlap, the unsent queue why a
  second mail does.
- `LastDayIsRojoAlways`, a property of the operators: `SumaBien` says that there is a day with n
  business days after the trigger, and that `add_business_days` returns it, `Vence` that it
  is before the cutoff, `UltimoRojo` that the scale is at its last day there; the worst of the
  readings is then rojo, and a day later there is no level left. The existence of such a
  day is an induction over days, proved from the least day with enough of them (`Primero`).
- `TypesAlways`: the table of alerts has keys of the plazo's types only (`InsertaTabla`,
  `EntregaTabla`), and a requerimiento gives the plazo a due date there is (`PlazoKeeps`).

`HitosProofs` holds for any rows, months, movements, documents, texts and sessions, from the
assumptions that `Null` is no row and no document and that the key is none of the other texts.

- `OneHitoAlways`, `DuplicatesOnlyByKnownGapsAlways`, `EvidenceFrozenAlways`, from `IInv`: each unit of
  work has the shape its request gives it (`Simple`), its movement has no hito (`Detectado`), and
  what it judged is still true of the table but for what has changed since (`Comprobado`: no
  row outside the ones it updates names the client; a row it attaches to is not approved);
  and one session at most is detecting (`SoloUno`), without which two could file one movement.
  `Comprobado` is what an optimistic check would enforce, and here bounds the damage: a property is
  broken by no more than what the session lists in `despues`. By `Simple` a unit of work has
  one row that names the client by its key at most, so that the second one of a sheet is in
  `ajenos`. The lemma `OtroCoherente` is the step of another session.
- `TypesAlways` from `TInv`, the types of the table and of each unit of work (`Tipado`), and
  `ClosedChangesOnlyByKnownGapsAlways` from `CInv`: a unit of work that does anything to a row but
  reject it judged that row and its month, neither it nor the month it goes to was closed
  unless that changed since, and an approved row it inserts is an imported one (`Respeta`).

Every invariant and action property of a passing run is stated by one of these theorems.
Only model-checked: liveness (`QueueDrains`, `BatchEnds`, `NoOneLeftOut`, `StalenessIsFair`,
`RojoIsTold`), which with `ENABLED` is beyond the prover, and the five disagreements, which are
counterexamples. No definition under proof is recursive, since the prover could not follow
it; the inductions the proofs need (`FinitoMax`, `MinimoDeDias`, `Primero`, `Acotadas`) are done
by a smallest counterexample.

## 6. Disagreements met while modelling

Those a run shows are findings in `PROJECT.json`. Others, by reading, that no run states:

- A call that fails after the OJV took the filing, with an error its code raises as a
  `TransientPresentacionError`, is retried from the queue (`presentacion_worker.py:210-231`), and
  the filing is loaded again. Nothing asks the OJV first what it has. `LoadedAgainOnlyIfLost`
  has this as its one exception.
- `claim_next` says "atomically", and reads and writes without a lock (`presentacion_worker.py:157`).
- A success after a re-login does not reset the count of timeouts (`sync_service.py:3487`).
- A run is recorded as completed before its details, also when the listing was cut
  (`sync_service.py:1034`).
- `_dispatch_expired` (`semaforo_alerts.py:396`) mails that a plazo was missed after the auditor
  signed it fulfilled, when the alert had been created before; creation does look at it (215).
- A requerimiento de pago moves `due_date`, while the colours of the alerts go on being counted
  from `triggered_at` (`procedural_classifier.py:135`): between the two ends there is no level, and
  no alert.
- Rebeldía may expire a manual plazo: its query (`deadline_engine.py:746`) lacks the filter the
  others have.
- A clash on the insert of a plazo leaves the session of the surrounding sync unusable, where
  `_maybe_recompute_deadlines` (`sync_service.py:2744`) says it must not abort it.
- An escrito older than the plazo counts in `_earliest_defense_evidence` (`deadline_engine.py:1031`)
  and does not in `_evaluate_escritos` (`deadline_verdict.py:279`).
- A digest may announce movements of a visit that was rolled back: the comment at
  `sync_service.py:1246` excludes it for the service a sync owns, not for the batch's.
- A repaired row is matched by folio and date (`sync_service.py:1629`), and two cuadernos may have
  such movements.
- `_rejudge_closed_excepciones` says that it can never turn a `cumplido` into a miss
  (`deadline_engine.py:953`); it compares with the verdict its own sync read (991), so two syncs
  that overlap may leave the worse of their verdicts until the next recomputation.
- The cutoff by age (`config.py:108`) is explained by a term of eight business days, and apelación
  has ten (`semaforo_config.py:93`): with two Sundays and three holidays its last day is the
  fifteenth, past the cutoff of fourteen, and raises no rojo.
- `_recompute_last_movement_at` says that "the result equals `max(movement_date)` in the DB"
  (`sync_service.py:1350`), and writes it only if it differs from the date its session loaded
  (1362). Of two syncs that overlap, one that knows only the older movements may write their date
  last, or write it after the other loaded the right one, which then finds nothing to write:
  the stale date stays until a later visit. `LastMovementIsLast` excludes both.
- `_find_repaired_movement` says "Zero or several candidates -> None" (`sync_service.py:1634`), but it
  looks in a map by folio and text (1239), where several repaired rows of one folio and date
  are one entry: it takes that one for the single candidate and heals it.
- `_HitoDedupTracker` indexes the stored rows by `_causa_key` (`hitos.py:1783`) and is asked for the
  normalized text itself (1869). Free text that is not in capitals, or a text with a ROL in
  it, is never found, so that the same sheet imported twice stores its hitos twice, and two
  such rows of one causa in one sheet are both new, where `_causa_key` says that "dedup keys on
  `(lawyer, rol_causa, _causa_key(descripcion))`" (82). `DuplicatesOnlyByKnownGaps` has it as an
  exception.
- Hitos of the detector carry no RUT, and the look-up of duplicates needs it (`hitos.py:131`).

## 7. Not modelled

Coverage is by behaviour, not by lines. Of some 64 000 lines, most are parsing and browser
automation of PJUD, mail and document contents, report and read APIs, integrations,
migrations and scripts: they have no order to get wrong or are external to the properties,
and a module about them would restate them. What has state and concurrency and is left out,
with its reason, is in `PROJECT.json`: the session store (two Redis keys of one process), the
connection queue (one locked row), the rate limiter (real time), case merge and cartera jobs
(one transaction run by hand), lanes of the rotation (one query).

Of the modelled parts: the manual reset of the breaker (an endpoint of the API process), the
rows of a listed case the database does not have, the entities and documents a visit stores
besides movements, the maintenance before a cycle's loop, the supervisor's credential mail,
competencias other than the default one and `sync_single_lawyer`, which nothing calls; several
lawyers of one case, each with a bucket of its own, in `Novedades`; the parallel plazos,
abandono, prescripción, apremio and the neutralization of medidas prejudiciales in `Plazos`; the
alerts of other plazos than the one of excepciones; amounts, types and tribunales of hitos, and
with the last the re-import of a sheet whose rows gained a tribunal (`hitos.py:1764`); a merge of
cases, which moves the movement of a hito (`case_merge.py:487`); how long the egress verdict is
cached (`egress_guard.py:148`), a trade-off the code documents.
