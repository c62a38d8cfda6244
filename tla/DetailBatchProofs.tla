-------------------------- MODULE DetailBatchProofs --------------------------
(***************************************************************************)
(* What the batches cost PJUD and when they stop, for any number of        *)
(* batches and cases and any limits.  The counters are local to a batch,   *)
(* so most of the argument is about one batch at a time (Sound); the       *)
(* challenges are not: each ends the batch that drew it, and no batch      *)
(* begins before the cooldown is over (Quiet).  The circuit is compared    *)
(* with the history of what PJUD answered (Heeds).                         *)
(***************************************************************************)
EXTENDS DetailBatch, TurnosProofs

Fields == {"pc", "todo", "attempt", "retry", "timeouts", "transient", "spared", "end", "seen"}
Counts == {"asked", "logins", "unreachable"}

Shape(w) ==
    /\ DOMAIN w = Fields /\ DOMAIN w.seen = Counts
    /\ w.timeouts \in Nat /\ w.transient \in Nat
    /\ w.seen.asked \in Nat /\ w.seen.logins \in Nat /\ w.seen.unreachable \in Nat
    /\ w.attempt \in 1..Attempts

\* Where the visit stands and what it has cost: a round of attempts, perhaps a login
\* and a second round.
Rounds(w) == IF w.retry THEN Attempts ELSE 0
Cost(w) ==
    /\ w.pc = "head" => w.seen.asked = 0 /\ w.seen.logins = 0 /\ w.attempt = 1 /\ ~w.retry
    /\ w.pc = "ready" => w.seen.asked < Rounds(w) + w.attempt
    /\ w.pc = "flight" => w.seen.asked <= Rounds(w) + w.attempt
    /\ w.pc = "login" => ~w.retry /\ w.seen.logins = 1 /\ w.seen.asked <= Attempts
    /\ w.pc \in {"ready", "flight"} => w.seen.logins = IF w.retry THEN 1 ELSE 0
    /\ w.seen.logins <= 1 /\ w.seen.asked <= 2 * Attempts

\* The code's counter never runs ahead of the visits that were unreachable in a row.
Failures(w) ==
    /\ w.transient <= w.seen.unreachable /\ w.seen.unreachable <= MaxTransient
    /\ w.pc # "idle" => w.transient < MaxTransient /\ w.timeouts < MaxTimeouts /\ w.end = "-"
    /\ w.end = "consecutive_transient_failures" => w.seen.unreachable >= MaxTransient

Sound(w) == Shape(w) /\ Cost(w) /\ Failures(w)

Idle == {b \in Batches : batch[b].pc = "idle"}

Sounds == DOMAIN batch = Batches /\ \A b \in Batches : Sound(batch[b])

\* Batches that were challenged are over, and none begins in the cooldown.
Quiet ==
    /\ DOMAIN cooldown = {"consecutive", "left"}
    /\ cooldown.left \in Nat /\ cooldown.consecutive \in 0..MaxHits
    /\ seen = [outages |-> seen.outages, challenges |-> seen.challenges]
    /\ seen.challenges \in Nat
    /\ seen.challenges <= Cardinality(Idle)
    /\ ~Active(cooldown) => seen.challenges = 0

\* A closed circuit has counted no more failures than PJUD gave in a row.
Heeds ==
    /\ DOMAIN circuit = {"state", "failures", "successes", "probes", "elapsed"}
    /\ circuit.failures \in Nat /\ seen.outages \in Nat
    /\ circuit.state = "closed" => circuit.failures <= seen.outages

IInv == Sounds /\ Quiet /\ Heeds

LEMMA Limits ==
    /\ Attempts \in Nat \ {0} /\ MaxTimeouts \in Nat \ {0} /\ MaxTransient \in Nat \ {0}
    /\ FailureThreshold \in Nat \ {0} /\ IsFiniteSet(Batches)
BY BatchAssumption, BreakerAssumption

-----------------------------------------------------------------------------
(* The local states a step writes *)

LEMMA NewBatchFields ==
    /\ DOMAIN NewBatch = Fields /\ DOMAIN NewBatch.seen = Counts
    /\ NewBatch.pc = "idle" /\ NewBatch.attempt = 1 /\ ~NewBatch.retry
    /\ NewBatch.timeouts = 0 /\ NewBatch.transient = 0 /\ NewBatch.end = "-"
    /\ NewBatch.seen = NoVisits
    /\ NoVisits.asked = 0 /\ NoVisits.logins = 0 /\ NoVisits.unreachable = 0
BY DEF NewBatch, NoVisits, Fields, Counts

LEMMA NewBatchSound == Sound(NewBatch)
BY NewBatchFields, Limits DEF Sound, Shape, Cost, Failures

LEMMA StartSound ==
    ASSUME NEW s
    PROVE  Sound([NewBatch EXCEPT !.pc = "head", !.todo = s])
<1>1. ASSUME NEW r, r = [NewBatch EXCEPT !.pc = "head", !.todo = s]
      PROVE  /\ DOMAIN r = Fields /\ r.pc = "head" /\ r.attempt = 1 /\ ~r.retry
             /\ r.timeouts = 0 /\ r.transient = 0 /\ r.end = "-" /\ r.seen = NoVisits
  BY <1>1, NewBatchFields DEF Fields
<1> QED
  BY <1>1, NewBatchFields, Limits DEF Sound, Shape, Cost, Failures

\* What a handler may hand over when the visit ends: its counters are not yet compared
\* with the limits.
Handed(w) ==
    /\ Shape(w) /\ w.end = "-"
    /\ w.transient <= w.seen.unreachable /\ w.seen.unreachable <= MaxTransient
    /\ w.seen.logins <= 1 /\ w.seen.asked <= 2 * Attempts

LEMMA NextCaseSound ==
    ASSUME NEW w, NEW spared, Handed(w), w.timeouts < MaxTimeouts, w.transient < MaxTransient
    PROVE  Sound([w EXCEPT !.pc = "head", !.todo = Tail(@), !.attempt = 1, !.retry = FALSE,
                           !.spared = spared, !.seen.asked = 0, !.seen.logins = 0])
<1>1. ASSUME NEW r, r = [w EXCEPT !.pc = "head", !.todo = Tail(@), !.attempt = 1, !.retry = FALSE,
                                  !.spared = spared, !.seen.asked = 0, !.seen.logins = 0]
      PROVE  Sound(r)
  <2>1. /\ DOMAIN r = Fields /\ DOMAIN r.seen = Counts
        /\ r.pc = "head" /\ r.attempt = 1 /\ ~r.retry
        /\ r.timeouts = w.timeouts /\ r.transient = w.transient /\ r.end = w.end
        /\ r.seen.asked = 0 /\ r.seen.logins = 0
        /\ r.seen.unreachable = w.seen.unreachable
    BY <1>1 DEF Handed, Shape, Fields, Counts
  <2>2. Shape(r)
    BY <2>1, Limits DEF Handed, Shape
  <2>3. Cost(r) /\ Failures(r)
    BY <2>1, Limits DEF Handed, Cost, Failures
  <2> QED
    BY <2>2, <2>3 DEF Sound
<1> QED
  BY <1>1

LEMMA StoppedSound ==
    ASSUME NEW w, NEW spared, Handed(w),
           ~(w.timeouts < MaxTimeouts /\ w.transient < MaxTransient)
    PROVE  Sound([NewBatch EXCEPT
                    !.spared = spared, !.seen = w.seen,
                    !.end = IF w.timeouts >= MaxTimeouts THEN "consecutive_timeouts"
                            ELSE "consecutive_transient_failures"])
<1> DEFINE e == IF w.timeouts >= MaxTimeouts THEN "consecutive_timeouts"
                ELSE "consecutive_transient_failures"
<1>1. e = "consecutive_transient_failures" => w.seen.unreachable >= MaxTransient
  BY Limits DEF Handed, Shape
<1> HIDE DEF e
<1>2. ASSUME NEW r, r = [NewBatch EXCEPT !.spared = spared, !.seen = w.seen, !.end = e]
      PROVE  Sound(r)
  <2>1. /\ DOMAIN r = Fields /\ r.pc = "idle" /\ r.attempt = 1 /\ ~r.retry
        /\ r.timeouts = 0 /\ r.transient = 0 /\ r.end = e /\ r.seen = w.seen
    BY <1>2, NewBatchFields DEF Fields
  <2>2. Shape(r)
    BY <2>1, Limits DEF Handed, Shape
  <2>3. Cost(r) /\ Failures(r)
    BY <1>1, <2>1, Limits DEF Handed, Shape, Cost, Failures
  <2> QED
    BY <2>2, <2>3 DEF Sound
<1> QED
  BY <1>2 DEF e

-----------------------------------------------------------------------------
(* The steps of one batch *)

Puts(b) == \E w : Put(b, w) /\ Sound(w)

LEMMA NextCasePuts ==
    ASSUME NEW b, NEW w, NEW spared, Handed(w), w.timeouts < MaxTimeouts,
           w.transient < MaxTransient, NextCase(b, w, spared)
    PROVE  Puts(b)
BY NextCaseSound DEF NextCase, Puts

LEMMA NextOrStopPuts ==
    ASSUME NEW b, NEW w, NEW spared, Handed(w), NextOrStop(b, w, spared)
    PROVE  Puts(b)
<1>1. CASE w.timeouts < MaxTimeouts /\ w.transient < MaxTransient
  BY <1>1, NextCasePuts DEF NextOrStop
<1>2. CASE ~(w.timeouts < MaxTimeouts /\ w.transient < MaxTransient)
  BY <1>2, StoppedSound DEF NextOrStop, Puts
<1> QED
  BY <1>1, <1>2

LEMMA StopPuts == ASSUME NEW b, Stop(b) PROVE Puts(b)
BY NewBatchSound DEF Stop, Puts

\* A visit under way may be handed over as it is.
LEMMA VisitHanded ==
    ASSUME NEW w, Sound(w), w.pc # "idle"
    PROVE  Handed(w) /\ w.timeouts < MaxTimeouts /\ w.transient < MaxTransient
BY DEF Sound, Cost, Failures, Handed

LEMMA PutsKeeps ==
    ASSUME Sounds, NEW b \in Batches, Puts(b)
    PROVE  Sounds'
<1>1. PICK w : batch' = [batch EXCEPT ![b] = w] /\ Sound(w)
  BY DEF Puts, Put
<1>2. DOMAIN batch' = Batches /\ \A c \in Batches : batch'[c] = IF c = b THEN w ELSE batch[c]
  BY <1>1 DEF Sounds
<1> QED
  BY <1>1, <1>2 DEF Sounds, Sound, Shape, Cost, Failures, Rounds

\* A field of w changed: the visit goes on.
LEMMA GoesOn ==
    ASSUME NEW w, Sound(w), w.pc # "idle"
    PROVE  /\ w.pc = "head" => Sound([w EXCEPT !.pc = "ready", !.spared = FALSE])
           /\ w.pc = "ready" => Sound([w EXCEPT !.pc = "flight", !.seen.asked = @ + 1])
           /\ w.pc \in {"ready", "flight"} /\ w.attempt < Attempts
                => Sound([w EXCEPT !.pc = "ready", !.attempt = @ + 1])
           /\ w.pc = "flight" /\ ~w.retry
                => Sound([w EXCEPT !.pc = "login", !.seen.logins = @ + 1])
           /\ w.pc = "login"
                => Sound([w EXCEPT !.pc = "ready", !.retry = TRUE, !.attempt = 1])
<1> USE Limits DEF Sound
<1>1. ASSUME NEW r, r = [w EXCEPT !.pc = "ready", !.spared = FALSE], w.pc = "head"
      PROVE  Sound(r)
  <2>1. /\ DOMAIN r = Fields /\ r.seen = w.seen /\ r.pc = "ready" /\ r.attempt = w.attempt
        /\ r.retry = w.retry /\ r.timeouts = w.timeouts /\ r.transient = w.transient
        /\ r.end = w.end
    BY <1>1 DEF Shape, Fields
  <2>2. Shape(r) /\ Failures(r)
    BY <1>1, <2>1 DEF Shape, Failures
  <2>3. Cost(r)
    BY <1>1, <2>1 DEF Shape, Cost, Rounds
  <2> QED
    BY <2>2, <2>3
<1>2. ASSUME NEW r, r = [w EXCEPT !.pc = "flight", !.seen.asked = @ + 1], w.pc = "ready"
      PROVE  Sound(r)
  <2>1. /\ DOMAIN r = Fields /\ DOMAIN r.seen = Counts /\ r.pc = "flight"
        /\ r.attempt = w.attempt /\ r.retry = w.retry /\ r.timeouts = w.timeouts
        /\ r.transient = w.transient /\ r.end = w.end /\ r.seen.logins = w.seen.logins
        /\ r.seen.asked = w.seen.asked + 1 /\ r.seen.unreachable = w.seen.unreachable
    BY <1>2 DEF Shape, Fields, Counts
  <2>2. Shape(r) /\ Failures(r)
    BY <1>2, <2>1 DEF Shape, Failures
  <2>3. Cost(r)
    BY <1>2, <2>1 DEF Shape, Cost, Rounds
  <2> QED
    BY <2>2, <2>3
<1>3. ASSUME NEW r, r = [w EXCEPT !.pc = "ready", !.attempt = @ + 1],
             w.pc \in {"ready", "flight"}, w.attempt < Attempts
      PROVE  Sound(r)
  <2>1. /\ DOMAIN r = Fields /\ r.seen = w.seen /\ r.pc = "ready"
        /\ r.attempt = w.attempt + 1 /\ r.retry = w.retry /\ r.timeouts = w.timeouts
        /\ r.transient = w.transient /\ r.end = w.end
    BY <1>3 DEF Shape, Fields
  <2>2. Shape(r) /\ Failures(r)
    BY <1>3, <2>1 DEF Shape, Failures
  <2>3. Cost(r)
    BY <1>3, <2>1 DEF Shape, Cost, Rounds
  <2> QED
    BY <2>2, <2>3
<1>4. ASSUME NEW r, r = [w EXCEPT !.pc = "login", !.seen.logins = @ + 1],
             w.pc = "flight", ~w.retry
      PROVE  Sound(r)
  <2>1. /\ DOMAIN r = Fields /\ DOMAIN r.seen = Counts /\ r.pc = "login"
        /\ r.attempt = w.attempt /\ r.retry = w.retry /\ r.timeouts = w.timeouts
        /\ r.transient = w.transient /\ r.end = w.end /\ r.seen.logins = w.seen.logins + 1
        /\ r.seen.asked = w.seen.asked /\ r.seen.unreachable = w.seen.unreachable
    BY <1>4 DEF Shape, Fields, Counts
  <2>2. Shape(r) /\ Failures(r)
    BY <1>4, <2>1 DEF Shape, Failures
  <2>3. Cost(r)
    BY <1>4, <2>1 DEF Shape, Cost, Rounds
  <2> QED
    BY <2>2, <2>3
<1>5. ASSUME NEW r, r = [w EXCEPT !.pc = "ready", !.retry = TRUE, !.attempt = 1], w.pc = "login"
      PROVE  Sound(r)
  <2>1. /\ DOMAIN r = Fields /\ r.seen = w.seen /\ r.pc = "ready" /\ r.attempt = 1
        /\ r.retry /\ r.timeouts = w.timeouts /\ r.transient = w.transient /\ r.end = w.end
    BY <1>5 DEF Shape, Fields
  <2>2. Shape(r) /\ Failures(r)
    BY <1>5, <2>1 DEF Shape, Failures
  <2>3. Cost(r)
    BY <1>5, <2>1 DEF Shape, Cost, Rounds
  <2> QED
    BY <2>2, <2>3
<1> QED
  BY <1>1, <1>2, <1>3, <1>4, <1>5

\* What the handlers make of the counters before they hand the visit over.
LEMMA FetchedHanded ==
    ASSUME NEW w, Sound(w), w.pc # "idle", NEW n, n \in {0, w.timeouts},
           NEW r, r = [w EXCEPT !.transient = 0, !.timeouts = n, !.seen.unreachable = 0]
    PROVE  Handed(r) /\ r.timeouts < MaxTimeouts /\ r.transient < MaxTransient
<1>1. /\ DOMAIN r = Fields /\ DOMAIN r.seen = Counts /\ r.attempt = w.attempt
      /\ r.timeouts = n /\ r.transient = 0 /\ r.end = w.end
      /\ r.seen.asked = w.seen.asked /\ r.seen.logins = w.seen.logins /\ r.seen.unreachable = 0
  BY DEF Sound, Shape, Fields, Counts
<1> QED
  BY <1>1, Limits DEF Sound, Shape, Cost, Failures, Handed

LEMMA UnreachedHanded ==
    ASSUME NEW w, Sound(w), w.pc # "idle",
           NEW r, r = [w EXCEPT !.seen.unreachable = AtMost(@ + 1, MaxTransient)]
    PROVE  /\ Handed(r) /\ r.timeouts < MaxTimeouts /\ r.transient < MaxTransient
           /\ Handed([r EXCEPT !.transient = @ + 1])
<1> DEFINE u == AtMost(w.seen.unreachable + 1, MaxTransient)
<1>1. u \in Nat /\ u <= MaxTransient /\ w.transient + 1 <= u
  BY Limits DEF Sound, Shape, Failures, AtMost
<1> HIDE DEF u
<1>2. r = [w EXCEPT !.seen.unreachable = u]
  BY DEF u
<1>3. /\ DOMAIN r = Fields /\ DOMAIN r.seen = Counts /\ r.attempt = w.attempt
      /\ r.timeouts = w.timeouts /\ r.transient = w.transient /\ r.end = w.end
      /\ r.seen.asked = w.seen.asked /\ r.seen.logins = w.seen.logins /\ r.seen.unreachable = u
  BY <1>2 DEF Sound, Shape, Fields, Counts
<1>4. Handed(r) /\ r.timeouts < MaxTimeouts /\ r.transient < MaxTransient
  BY <1>1, <1>3, Limits DEF Sound, Shape, Cost, Failures, Handed
<1>5. ASSUME NEW q, q = [r EXCEPT !.transient = @ + 1]
      PROVE  Handed(q)
  <2>1. /\ DOMAIN q = Fields /\ q.seen = r.seen /\ q.attempt = r.attempt
        /\ q.timeouts = r.timeouts /\ q.transient = r.transient + 1 /\ q.end = r.end
    BY <1>5, <1>3 DEF Fields
  <2> QED
    BY <1>1, <1>3, <1>4, <2>1 DEF Sound, Shape, Handed
<1> QED
  BY <1>4, <1>5

LEMMA HungHanded ==
    ASSUME NEW w, Sound(w), w.pc # "idle", NEW r, r = [w EXCEPT !.timeouts = @ + 1]
    PROVE  Handed(r)
<1>1. /\ DOMAIN r = Fields /\ r.seen = w.seen /\ r.attempt = w.attempt
      /\ r.timeouts = w.timeouts + 1 /\ r.transient = w.transient /\ r.end = w.end
  BY DEF Sound, Shape, Fields
<1> QED
  BY <1>1 DEF Sound, Shape, Cost, Failures, Handed

-----------------------------------------------------------------------------
\* Every step of a visit leaves its batch sound, and none is of an idle batch.
LEMMA VisitPuts ==
    ASSUME Sounds, NEW b \in Batches, Loop(b)
    PROVE  batch[b].pc # "idle" /\ Puts(b)
<1> DEFINE w == batch[b]
<1>1. Sound(w)
  BY DEF Sounds
<1> HIDE DEF w
<1>2. ASSUME w.pc # "idle", NEW spared, NextCase(b, w, spared) PROVE Puts(b)
  BY <1>1, <1>2, VisitHanded, NextCasePuts
<1>3. CASE StopAtHead(b)
  BY <1>3, StopPuts DEF StopAtHead
<1>4. CASE SkipNoToken(b)
  BY <1>2, <1>4 DEF SkipNoToken, w
<1>5. CASE Attend(b)
  <2>1. w.pc = "head" /\ Put(b, [w EXCEPT !.pc = "ready", !.spared = FALSE])
    BY <1>5 DEF Attend, w
  <2> QED
    BY <1>1, <2>1, GoesOn DEF Puts, w
<1>6. CASE Finish(b)
  BY <1>6, StopPuts DEF Finish
<1>7. CASE Request(b)
  <2>1. w.pc = "ready" /\ Put(b, [w EXCEPT !.pc = "flight", !.seen.asked = @ + 1])
    BY <1>7 DEF Request, w
  <2> QED
    BY <1>1, <2>1, GoesOn DEF Puts, w
<1>8. ASSUME w.pc \in {"ready", "flight"}, NavigationFails(b) PROVE Puts(b)
  <2>1. CASE RetryInPlace(b)
    <3>1. w.attempt < Attempts /\ Put(b, [w EXCEPT !.pc = "ready", !.attempt = @ + 1])
      BY <2>1 DEF RetryInPlace, w
    <3> QED
      BY <1>1, <1>8, <3>1, GoesOn DEF Puts
  <2>2. CASE GiveUp(b)
    <3>1. NextOrStop(b, [Unreached(b) EXCEPT !.transient = @ + 1], TRUE)
      BY <2>2 DEF GiveUp
    <3>2. Handed([Unreached(b) EXCEPT !.transient = @ + 1])
      BY <1>1, <1>8, UnreachedHanded DEF Unreached, w
    <3> QED
      BY <3>1, <3>2, NextOrStopPuts
  <2>3. CASE RetryFails(b, Unreached(b), TRUE)
    <3>1. NextCase(b, Unreached(b), TRUE)
      BY <2>3 DEF RetryFails
    <3>2. /\ Handed(Unreached(b)) /\ Unreached(b).timeouts < MaxTimeouts
          /\ Unreached(b).transient < MaxTransient
      BY <1>1, <1>8, UnreachedHanded DEF Unreached, w
    <3> QED
      BY <3>1, <3>2, NextCasePuts
  <2> QED
    BY <1>8, <2>1, <2>2, <2>3 DEF NavigationFails
<1>9. CASE Refused(b)
  BY <1>8, <1>9 DEF Refused, w
<1>10. CASE Fetched(b)
  <2> DEFINE n == IF w.retry THEN w.timeouts ELSE 0
             r == [w EXCEPT !.transient = 0, !.timeouts = n, !.seen.unreachable = 0]
  <2>1. w.pc = "flight" /\ NextCase(b, r, FALSE)
    BY <1>10 DEF Fetched, Answer, w
  <2>2. n \in {0, w.timeouts}
    OBVIOUS
  <2> HIDE DEF n
  <2>3. Handed(r) /\ r.timeouts < MaxTimeouts /\ r.transient < MaxTransient
    BY <1>1, <2>1, <2>2, FetchedHanded
  <2> QED
    BY <2>1, <2>3, NextCasePuts DEF w
<1>11. CASE Challenged(b)
  BY <1>11, StopPuts DEF Challenged, Answer, w
<1>12. CASE Unreachable(b)
  BY <1>8, <1>12 DEF Unreachable, Answer, w
<1>13. CASE Hung(b)
  <2>1. w.pc = "flight"
    BY <1>13 DEF Hung, Answer, w
  <2>2. CASE NextOrStop(b, [w EXCEPT !.timeouts = @ + 1], FALSE)
    <3>1. Handed([w EXCEPT !.timeouts = @ + 1])
      BY <1>1, <2>1, HungHanded
    <3> QED
      BY <2>1, <2>2, <3>1, NextOrStopPuts DEF w
  <2>3. CASE NextCase(b, w, FALSE)
    BY <1>2, <2>1, <2>3 DEF w
  <2> QED
    BY <1>13, <2>1, <2>2, <2>3 DEF Hung, RetryFails, w
<1>14. ASSUME NEW answer, CaseFails(b, answer) PROVE w.pc # "idle" /\ Puts(b)
  BY <1>2, <1>14 DEF CaseFails, RetryFails, Answer, w
<1>15. ASSUME NEW answer, RollbackRaises(b, answer) PROVE w.pc # "idle" /\ Puts(b)
  BY <1>15, StopPuts DEF RollbackRaises, Answer, w
<1>16. CASE InfraFails(b)
  BY <1>2, <1>16 DEF InfraFails, RetryFails, Answer, w
<1>17. ASSUME NEW answer, AskLogin(b, answer) PROVE w.pc # "idle" /\ Puts(b)
  <2>1. w.pc = "flight" /\ ~w.retry /\ Put(b, [w EXCEPT !.pc = "login", !.seen.logins = @ + 1])
    BY <1>17 DEF AskLogin, SessionError, Answer, w
  <2> QED
    BY <1>1, <2>1, GoesOn DEF Puts
<1>18. ASSUME NEW answer, SessionLost(b, answer) PROVE w.pc # "idle" /\ Puts(b)
  BY <1>18, StopPuts DEF SessionLost, SessionError, Answer, w
<1>19. CASE Relogged(b)
  <2>1. w.pc = "login" /\ Put(b, [w EXCEPT !.pc = "ready", !.retry = TRUE, !.attempt = 1])
    BY <1>19 DEF Relogged, w
  <2> QED
    BY <1>1, <2>1, GoesOn DEF Puts, w
<1>20. CASE LoginFails(b)
  BY <1>20, StopPuts DEF LoginFails
<1>21. batch[b].pc # "idle"
  BY DEF Loop, StopAtHead, SkipNoToken, Attend, Finish, Request, Refused, Fetched, Challenged,
         Unreachable, Hung, CaseFails, RollbackRaises, InfraFails, AskLogin, SessionLost,
         SessionError, Relogged, LoginFails, Answer
<1> QED
  BY <1>3, <1>4, <1>5, <1>6, <1>7, <1>9, <1>10, <1>11, <1>12, <1>13, <1>14, <1>15, <1>16,
     <1>17, <1>18, <1>19, <1>20, <1>21 DEF Loop

-----------------------------------------------------------------------------
(* The challenges *)

LEMMA IdleOnes == Cardinality(Idle) \in Nat /\ Cardinality(Idle) <= Cardinality(Batches)
BY Limits, FS_Subset, FS_CardinalityType DEF Idle

\* A visit only adds to the idle batches.
LEMMA IdleGrows ==
    ASSUME Sounds, NEW b \in Batches, Puts(b), batch[b].pc # "idle"
    PROVE  /\ Idle \subseteq Idle' /\ Cardinality(Idle) <= Cardinality(Idle')
           /\ Cardinality(Idle') \in Nat
           /\ batch'[b].pc = "idle" => Cardinality(Idle') = Cardinality(Idle) + 1
<1>1. PICK w : batch' = [batch EXCEPT ![b] = w]
  BY DEF Puts, Put
<1>2. \A c \in Batches : batch'[c] = IF c = b THEN w ELSE batch[c]
  BY <1>1 DEF Sounds
<1>3. Idle \subseteq Idle' /\ Idle' \subseteq Batches
  BY <1>2 DEF Idle
<1>4. IsFiniteSet(Idle) /\ IsFiniteSet(Idle')
  BY <1>3, Limits, FS_Subset
<1>5. ASSUME batch'[b].pc = "idle" PROVE Idle' = Idle \cup {b} /\ b \notin Idle
  BY <1>2, <1>5 DEF Idle
<1> QED
  BY <1>3, <1>4, <1>5, FS_Subset, FS_AddElement, FS_CardinalityType

\* The cooldown after a trip, or a clear, or a tick.
LEMMA Windows ==
    ASSUME Quiet
    PROVE  /\ Tripped(cooldown).left \in Nat \ {0} /\ Tripped(cooldown).consecutive \in 0..MaxHits
           /\ DOMAIN Tripped(cooldown) = {"consecutive", "left"}
           /\ Cleared(cooldown).left = cooldown.left /\ Cleared(cooldown).consecutive = 0
           /\ DOMAIN Cleared(cooldown) = {"consecutive", "left"}
           /\ Waited(cooldown).left \in Nat
           /\ Waited(cooldown).consecutive = cooldown.consecutive
           /\ DOMAIN Waited(cooldown) = {"consecutive", "left"}
<1>1. Duration(cooldown.consecutive) \in Nat \ {0}
  BY WindowAssumption DEF Quiet
<1>2. MaxHits \in Nat
  BY CooldownAssumption
<1>3. /\ Tripped(cooldown).left \in Nat \ {0} /\ Tripped(cooldown).consecutive \in 0..MaxHits
      /\ DOMAIN Tripped(cooldown) = {"consecutive", "left"}
  BY <1>1, <1>2 DEF Quiet, Tripped
<1>4. /\ Cleared(cooldown).left = cooldown.left /\ Cleared(cooldown).consecutive = 0
      /\ DOMAIN Cleared(cooldown) = {"consecutive", "left"}
  BY DEF Quiet, Cleared
<1>5. /\ Waited(cooldown).left \in Nat
      /\ Waited(cooldown).consecutive = cooldown.consecutive
      /\ DOMAIN Waited(cooldown) = {"consecutive", "left"}
  BY DEF Quiet, Waited
<1> QED
  BY <1>3, <1>4, <1>5

\* A visit that is not challenged.
LEMMA VisitQuiet ==
    ASSUME Sounds, Quiet, NEW b \in Batches, Puts(b), batch[b].pc # "idle",
           seen' = [outages |-> seen'.outages, challenges |-> seen.challenges],
           cooldown' \in {cooldown, Cleared(cooldown)}
    PROVE  Quiet'
<1>1. Cardinality(Idle) <= Cardinality(Idle') /\ Cardinality(Idle') \in Nat
  BY IdleGrows
<1>2. seen'.challenges = seen.challenges
  OBVIOUS
<1>3. /\ DOMAIN cooldown' = {"consecutive", "left"}
      /\ cooldown'.left = cooldown.left /\ cooldown'.consecutive \in 0..MaxHits
  BY Windows, CooldownAssumption DEF Quiet
<1> QED
  BY <1>1, <1>2, <1>3, IdleOnes DEF Quiet, Active

LEMMA ChallengedQuiet ==
    ASSUME Sounds, Quiet, NEW b \in Batches, Challenged(b), Puts(b), batch[b].pc # "idle"
    PROVE  Quiet'
<1>1. seen' = [outages |-> Outages("challenged"), challenges |-> seen.challenges + 1]
  BY DEF Challenged, Answer
<1>2. batch'[b].pc = "idle"
  BY NewBatchFields DEF Challenged, Stop, Put, Sounds
<1>3. Cardinality(Idle') = Cardinality(Idle) + 1 /\ Cardinality(Idle') \in Nat
  BY <1>2, IdleGrows
<1>4. cooldown' = Tripped(cooldown)
  BY DEF Challenged
<1>5. /\ DOMAIN cooldown' = {"consecutive", "left"} /\ cooldown'.left \in Nat \ {0}
      /\ cooldown'.consecutive \in 0..MaxHits
  BY <1>4, Windows
<1> QED
  BY <1>1, <1>3, <1>5, IdleOnes DEF Quiet, Active

-----------------------------------------------------------------------------
(* The circuit *)

\* A step the circuit may take: it opens only on as many outages in a row.
Opens == circuit.state = "closed" /\ circuit'.state = "open"
Minds == Heeds' /\ (Opens => seen'.outages >= FailureThreshold)

LEMMA CountedFailures ==
    ASSUME NEW f \in Nat, NEW o \in Nat
    PROVE  /\ AtMost(f + 1, FailureThreshold) \in Nat
           /\ f <= o => AtMost(f + 1, FailureThreshold) <= AtMost(o + 1, FailureThreshold)
BY Limits DEF AtMost

LEMMA SucceededMinds ==
    ASSUME Heeds, circuit' = Succeeded(circuit), seen'.outages = 0
    PROVE  Minds
<1>1. CASE circuit.state = "half_open"
  BY <1>1 DEF Heeds, Minds, Opens, Succeeded
<1>2. CASE circuit.state = "closed"
  BY <1>2 DEF Heeds, Minds, Opens, Succeeded
<1>3. CASE circuit.state \notin {"half_open", "closed"}
  <2>1. circuit' = circuit
    BY <1>3 DEF Succeeded
  <2> QED
    BY <1>3, <2>1 DEF Heeds, Minds, Opens
<1> QED
  BY <1>1, <1>2, <1>3

LEMMA FailedMinds ==
    ASSUME Heeds, circuit' = Failed(circuit),
           seen'.outages = AtMost(seen.outages + 1, FailureThreshold)
    PROVE  Minds
<1> DEFINE n == AtMost(circuit.failures + 1, FailureThreshold)
<1>1. /\ n \in Nat /\ seen'.outages \in Nat
      /\ circuit.failures <= seen.outages => n <= seen'.outages
  BY CountedFailures DEF Heeds
<1> HIDE DEF n
<1>2. ASSUME NEW r, r = [circuit EXCEPT !.failures = n, !.elapsed = 0]
      PROVE  DOMAIN r = DOMAIN circuit /\ r.failures = n /\ r.state = circuit.state
  BY <1>2 DEF Heeds
<1>3. DOMAIN circuit' = DOMAIN circuit /\ circuit'.failures = n
  BY <1>2 DEF Failed, n, Heeds
<1>4. circuit.state = "half_open" => circuit'.state = "open"
  BY <1>2 DEF Failed, n, Heeds
<1>5. circuit.state = "closed" =>
        /\ n >= FailureThreshold => circuit'.state = "open"
        /\ ~(n >= FailureThreshold) => circuit'.state = "closed"
  BY <1>2 DEF Failed, n, Heeds
<1>6. circuit.state \notin {"half_open", "closed"} => circuit'.state = circuit.state
  BY <1>2 DEF Failed, n, Heeds
<1> QED
  BY <1>1, <1>3, <1>4, <1>5, <1>6, Limits DEF Heeds, Minds, Opens

LEMMA AnswerMinds ==
    ASSUME Heeds, NEW b, NEW answer, Answer(b, answer)
    PROVE  Minds
<1>1. circuit' = Heard(circuit, answer) /\ seen'.outages = Outages(answer)
  BY DEF Answer
<1>2. CASE answer \in Unavailable
  <2>1. answer \notin Answered
    BY <1>2 DEF Answered, Unavailable
  <2> QED
    BY <1>1, <1>2, <2>1, FailedMinds DEF Heard, Outages
<1>3. CASE answer \in Answered
  <2>1. answer \notin Unavailable
    BY <1>3 DEF Answered, Unavailable
  <2> QED
    BY <1>1, <1>3, <2>1, SucceededMinds DEF Heard, Outages
<1>4. CASE answer \notin Unavailable \cup Answered
  <2>1. circuit' = circuit /\ seen'.outages = seen.outages
    BY <1>1, <1>4 DEF Heard, Outages
  <2> QED
    BY <2>1 DEF Heeds, Minds, Opens
<1> QED
  BY <1>2, <1>3, <1>4

\* The admission of a request, or the passing of time.
LEMMA EnteredMinds ==
    ASSUME Heeds, circuit' \in {circuit, Entered(circuit), Later(circuit)},
           seen'.outages = seen.outages
    PROVE  Minds
<1>1. /\ DOMAIN Checked(circuit) = DOMAIN circuit
      /\ Checked(circuit).failures = circuit.failures
      /\ Checked(circuit).state \in {circuit.state, "half_open"}
  BY DEF Checked, Heeds
<1>2. /\ DOMAIN Entered(circuit) = DOMAIN circuit
      /\ Entered(circuit).failures = circuit.failures
      /\ Entered(circuit).state = Checked(circuit).state
  BY <1>1 DEF Entered, Heeds
<1>3. /\ DOMAIN Later(circuit) = DOMAIN circuit
      /\ Later(circuit).failures = circuit.failures
      /\ Later(circuit).state = circuit.state
  BY DEF Later, Heeds
<1> QED
  BY <1>1, <1>2, <1>3 DEF Heeds, Minds, Opens

-----------------------------------------------------------------------------
(* The steps together *)

\* What a step of a batch does to the state it shares with the others.
LEMMA LoopKinds ==
    ASSUME NEW b, Loop(b)
    PROVE  \/ UNCHANGED <<circuit, cooldown, seen>>
           \/ circuit' = Entered(circuit) /\ UNCHANGED <<cooldown, seen>>
           \/ \E answer : /\ answer # "challenged" /\ Answer(b, answer)
                         /\ cooldown' \in {cooldown, Cleared(cooldown)}
           \/ Challenged(b)
<1>1. CASE StopAtHead(b) \/ SkipNoToken(b) \/ Attend(b) \/ Finish(b) \/ Relogged(b) \/ LoginFails(b)
  BY <1>1 DEF StopAtHead, SkipNoToken, Attend, Finish, Relogged, LoginFails
<1>2. CASE Request(b) \/ Refused(b)
  BY <1>2 DEF Request, Refused, NavigationFails
<1>3. CASE Fetched(b)
  BY <1>3 DEF Fetched
<1>4. CASE Unreachable(b) \/ Hung(b) \/ InfraFails(b)
  BY <1>4 DEF Unreachable, NavigationFails, Hung, InfraFails
<1>5. CASE \E answer \in Unavailable \cup Answered : CaseFails(b, answer) \/ RollbackRaises(b, answer)
  BY <1>5 DEF CaseFails, RollbackRaises
<1>6. CASE \E answer \in SessionErrors : AskLogin(b, answer) \/ SessionLost(b, answer)
  BY <1>6 DEF AskLogin, SessionLost, SessionError, SessionErrors
<1>7. CASE Challenged(b)
  BY <1>7
<1> QED
  BY <1>1, <1>2, <1>3, <1>4, <1>5, <1>6, <1>7 DEF Loop

LEMMA LoopKeeps ==
    ASSUME IInv, NEW b \in Batches, Loop(b)
    PROVE  IInv' /\ Minds
<1>1. batch[b].pc # "idle" /\ Puts(b)
  BY VisitPuts DEF IInv
<1>2. Sounds'
  BY <1>1, PutsKeeps DEF IInv
<1>3. CASE UNCHANGED <<circuit, cooldown, seen>> \/ (circuit' = Entered(circuit) /\ UNCHANGED <<cooldown, seen>>)
  <2>1. seen' = [outages |-> seen'.outages, challenges |-> seen.challenges]
    BY <1>3 DEF IInv, Quiet
  <2>2. Quiet'
    BY <1>1, <1>3, <2>1, VisitQuiet DEF IInv
  <2>3. Minds
    BY <1>3, EnteredMinds DEF IInv
  <2> QED
    BY <1>2, <2>2, <2>3 DEF IInv, Minds
<1>4. CASE \E answer : /\ answer # "challenged" /\ Answer(b, answer)
                      /\ cooldown' \in {cooldown, Cleared(cooldown)}
  <2>1. PICK answer : /\ answer # "challenged" /\ Answer(b, answer)
                      /\ cooldown' \in {cooldown, Cleared(cooldown)}
    BY <1>4
  <2>2. seen' = [outages |-> seen'.outages, challenges |-> seen.challenges]
    BY <2>1 DEF Answer, IInv, Quiet
  <2>3. Quiet'
    BY <1>1, <2>1, <2>2, VisitQuiet DEF IInv
  <2>4. Minds
    BY <2>1, AnswerMinds DEF IInv
  <2> QED
    BY <1>2, <2>3, <2>4 DEF IInv, Minds
<1>5. CASE Challenged(b)
  <2>1. Quiet'
    BY <1>1, <1>5, ChallengedQuiet DEF IInv
  <2>2. Minds
    BY <1>5, AnswerMinds DEF IInv, Challenged
  <2> QED
    BY <1>2, <2>1, <2>2 DEF IInv, Minds
<1> QED
  BY <1>3, <1>4, <1>5, LoopKinds

LEMMA StartKeeps ==
    ASSUME IInv, NEW b \in Batches, Start(b)
    PROVE  IInv' /\ Minds
<1>1. Puts(b)
  BY StartSound DEF Start, Puts
<1>2. Sounds'
  BY <1>1, PutsKeeps DEF IInv
<1>3. UNCHANGED <<circuit, cooldown, seen>> /\ ~Active(cooldown)
  BY DEF Start
<1>4. Quiet'
  <2>1. seen'.challenges = 0
    BY <1>3 DEF IInv, Quiet
  <2>2. Idle' \subseteq Batches
    BY DEF Idle
  <2>3. Cardinality(Idle') \in Nat
    BY <2>2, Limits, FS_Subset, FS_CardinalityType
  <2> QED
    BY <1>3, <2>1, <2>3 DEF IInv, Quiet, Active
<1>5. Minds
  BY <1>3, EnteredMinds DEF IInv
<1> QED
  BY <1>2, <1>4, <1>5 DEF IInv, Minds

\* All batches idle: at the start, and when the process starts again.
LEMMA NewProcess ==
    /\ batch = [b \in Batches |-> NewBatch] => Sounds /\ Idle = Batches
    /\ batch' = [b \in Batches |-> NewBatch] => Sounds' /\ Idle' = Batches
BY NewBatchSound, NewBatchFields DEF Sounds, Idle

LEMMA InitKeeps == Init => IInv
<1> SUFFICES ASSUME Init PROVE IInv
  OBVIOUS
<1>1. Sounds /\ Idle = Batches
  BY NewProcess DEF Init
<1>2. Cardinality(Idle) \in Nat
  BY <1>1, Limits, FS_CardinalityType
<1>3. Quiet
  BY <1>2, CooldownAssumption DEF Init, Quiet, NewCooldown
<1>4. Heeds
  BY DEF Init, Heeds, NewBreaker
<1> QED
  BY <1>1, <1>3, <1>4 DEF IInv

LEMMA RestartKeeps ==
    ASSUME IInv, Restart
    PROVE  IInv' /\ Minds
<1>1. Sounds' /\ Idle' = Batches
  BY NewProcess DEF Restart
<1>2. Cardinality(Idle') \in Nat
  BY <1>1, Limits, FS_CardinalityType
<1>3. Quiet'
  BY <1>2, CooldownAssumption DEF Restart, Quiet, NewCooldown
<1>4. Minds
  BY DEF Restart, Heeds, NewBreaker, Minds, Opens
<1> QED
  BY <1>1, <1>3, <1>4 DEF IInv, Minds

LEMMA WaitsKeep ==
    ASSUME IInv, CooldownWaits \/ CircuitWaits \/ UNCHANGED vars
    PROVE  IInv' /\ Minds
<1>1. batch' = batch
  BY DEF CooldownWaits, CircuitWaits, vars
<1>2. Sounds' /\ Idle' = Idle
  BY <1>1 DEF IInv, Sounds, Idle, Sound, Shape, Cost, Failures, Rounds
<1>3. Cardinality(Idle) \in Nat
  BY IdleOnes DEF IInv
<1>4. CASE CooldownWaits
  <2>1. /\ cooldown' = Waited(cooldown) /\ circuit' = circuit
        /\ seen' = [seen EXCEPT !.challenges = IF Active(cooldown') THEN @ ELSE 0]
    BY <1>4 DEF CooldownWaits
  <2>2. /\ seen'.outages = seen.outages
        /\ seen'.challenges = IF Active(cooldown') THEN seen.challenges ELSE 0
        /\ seen' = [outages |-> seen'.outages, challenges |-> seen'.challenges]
    BY <2>1 DEF IInv, Quiet
  <2>3. /\ DOMAIN cooldown' = {"consecutive", "left"} /\ cooldown'.left \in Nat
        /\ cooldown'.consecutive \in 0..MaxHits
    BY <2>1, Windows DEF IInv, Quiet
  <2>4. Quiet'
    BY <1>2, <1>3, <2>2, <2>3 DEF IInv, Quiet
  <2>5. Minds
    BY <2>1, <2>2, EnteredMinds DEF IInv
  <2> QED
    BY <1>2, <2>4, <2>5 DEF IInv, Minds
<1>5. CASE CircuitWaits \/ UNCHANGED vars
  <2>1. cooldown' = cooldown /\ seen' = seen /\ circuit' \in {circuit, Later(circuit)}
    BY <1>5 DEF CircuitWaits, vars
  <2>2. Quiet'
    BY <1>2, <2>1 DEF IInv, Quiet, Active
  <2>3. Minds
    BY <2>1, EnteredMinds DEF IInv
  <2> QED
    BY <1>2, <2>2, <2>3 DEF IInv, Minds
<1> QED
  BY <1>4, <1>5

LEMMA NextKeeps == IInv /\ [Next]_vars => IInv' /\ Minds
<1> SUFFICES ASSUME IInv, [Next]_vars PROVE IInv' /\ Minds
  OBVIOUS
<1>1. CASE \E b \in Batches : Start(b)
  BY <1>1, StartKeeps
<1>2. CASE \E b \in Batches : Loop(b)
  BY <1>2, LoopKeeps
<1>3. CASE Restart
  BY <1>3, RestartKeeps
<1>4. CASE CooldownWaits \/ CircuitWaits \/ UNCHANGED vars
  BY <1>4, WaitsKeep
<1> QED
  BY <1>1, <1>2, <1>3, <1>4 DEF Next

-----------------------------------------------------------------------------
(* The types *)

Todo == SeqOf(Cases, Cardinality(Cases))
Tally == [asked : Nat, logins : Nat, unreachable : 0..MaxTransient]

\* A local state, before its counters are compared with the limits.
Loose == [pc : {"idle", "head", "ready", "flight", "login"}, todo : Todo,
          attempt : 1..Attempts, retry : BOOLEAN, timeouts : Nat, transient : Nat,
          spared : BOOLEAN, end : EndReasons \cup {"-"}, seen : Tally]

\* A visit is of a case, and no batch at rest has anything counted.
Engaged(w) ==
    /\ w.pc \notin {"idle", "head"} => w.todo # <<>>
    /\ w.pc = "idle" => w.timeouts = 0 /\ w.transient = 0

Typed ==
    /\ circuit \in Breaker
    /\ cooldown \in Cooldown
    /\ rotation \in SetToSeqs(Cases)
    /\ batch \in [Batches -> Loose]
    /\ \A b \in Batches : Engaged(batch[b])
    /\ seen \in [outages : 0..FailureThreshold, challenges : Nat]

TInv == IInv /\ Typed

LEMMA Sizes ==
    /\ IsFiniteSet(Cases) /\ Cardinality(Cases) \in Nat
    /\ BatchSize \in Nat \ {0} /\ Attempts \in Nat \ {0}
    /\ MaxTimeouts \in Nat \ {0} /\ MaxTransient \in Nat \ {0}
    /\ FailureThreshold \in Nat \ {0} /\ RecoveryTimeout \in Nat
    /\ HalfOpenMax \in Nat \ {0} /\ SuccessThreshold \in Nat \ {0}
    /\ MaxSeconds \in Nat \ {0} /\ MaxHits \in Nat
BY BatchAssumption, BreakerAssumption, CooldownAssumption, FS_CardinalityType

LEMMA NoTodo == <<>> \in Todo
<1>1. <<>> \in [1..0 -> Cases] /\ 0 \in 0..Cardinality(Cases)
  BY Sizes
<1> QED
  BY <1>1 DEF SeqOf, Todo

LEMMA ShorterTodo ==
    ASSUME NEW q \in Todo, q # <<>>
    PROVE  Head(q) \in Cases /\ Tail(q) \in Todo
<1>1. PICK m \in 0..Cardinality(Cases) : q \in [1..m -> Cases]
  BY DEF SeqOf, Todo
<1>2. q \in Seq(Cases) /\ Len(q) = m /\ m \in Nat
  BY <1>1, Sizes
<1>3. m # 0
  BY <1>2
<1>4. Head(q) \in Cases /\ Tail(q) \in Seq(Cases) /\ Len(Tail(q)) = m - 1
  BY <1>2, <1>3
<1>5. ASSUME NEW t, t = Tail(q) PROVE t \in [1..m-1 -> Cases]
  BY <1>4, <1>5, SeqDef, LenProperties
<1>6. m - 1 \in 0..Cardinality(Cases)
  BY <1>1, <1>3, Sizes
<1> QED
  BY <1>4, <1>5, <1>6 DEF SeqOf, Todo

\* What a batch selects: the front of the rotation, or one case.
LEMMA Selected ==
    /\ \A s \in SetToSeqs(Cases) : SubSeq(s, 1, AtMost(BatchSize, Len(s))) \in Todo
    /\ \A c \in Cases : <<c>> \in Todo
<1>1. ASSUME NEW s \in SetToSeqs(Cases) PROVE SubSeq(s, 1, AtMost(BatchSize, Len(s))) \in Todo
  <2> DEFINE n == AtMost(BatchSize, Len(s))
  <2>1. s \in [1..Cardinality(Cases) -> Cases]
    BY Orden, Sizes
  <2>2. s \in Seq(Cases) /\ Len(s) = Cardinality(Cases)
    BY <2>1, Sizes
  <2>3. n \in 0..Cardinality(Cases)
    BY <2>2, Sizes DEF AtMost
  <2> HIDE DEF n
  <2>4. SubSeq(s, 1, n) \in Seq(Cases) /\ Len(SubSeq(s, 1, n)) = n
    BY <2>2, <2>3, Sizes
  <2>5. ASSUME NEW t, t = SubSeq(s, 1, n) PROVE t \in [1..n -> Cases]
    BY <2>4, <2>5, SeqDef, LenProperties
  <2> QED
    BY <2>3, <2>5 DEF SeqOf, Todo, n
<1>2. ASSUME NEW c \in Cases PROVE <<c>> \in Todo
  <2>1. Cardinality(Cases) # 0
    BY Sizes, FS_EmptySet
  <2>2. <<c>> \in [1..1 -> Cases] /\ 1 \in 0..Cardinality(Cases)
    BY <2>1, Sizes
  <2> QED
    BY <2>2 DEF SeqOf, Todo
<1> QED
  BY <1>1, <1>2

LEMMA BreakerTyped ==
    ASSUME NEW cb \in Breaker
    PROVE  /\ Checked(cb) \in Breaker /\ Entered(cb) \in Breaker /\ Succeeded(cb) \in Breaker
           /\ Failed(cb) \in Breaker /\ Later(cb) \in Breaker
<1> USE Sizes
<1>0. /\ 0 \in 0..FailureThreshold /\ 0 \in 0..SuccessThreshold /\ 0 \in 0..HalfOpenMax
      /\ 0 \in 0..RecoveryTimeout
  OBVIOUS
<1>1. ASSUME NEW c \in Breaker PROVE Checked(c) \in Breaker
  <2>1. [c EXCEPT !.state = "half_open", !.probes = 0, !.successes = 0, !.elapsed = 0] \in Breaker
    <3>1. ASSUME NEW d \in Breaker
          PROVE  /\ [d EXCEPT !.state = "half_open"] \in Breaker /\ [d EXCEPT !.probes = 0] \in Breaker
                 /\ [d EXCEPT !.successes = 0] \in Breaker /\ [d EXCEPT !.elapsed = 0] \in Breaker
      BY <1>0 DEF Breaker
    <3> QED
      BY <3>1
  <2> QED
    BY <2>1 DEF Checked
<1>2. Entered(cb) \in Breaker
  <2>1. ASSUME NEW c \in Breaker, c.probes < HalfOpenMax PROVE [c EXCEPT !.probes = @ + 1] \in Breaker
    <3>1. c.probes + 1 \in 0..HalfOpenMax
      BY <2>1 DEF Breaker
    <3> QED
      BY <3>1 DEF Breaker
  <2> QED
    BY <1>1, <2>1 DEF Entered, Admits
<1>3. Succeeded(cb) \in Breaker
  <2>1. CASE cb.state = "half_open" /\ cb.successes + 1 < SuccessThreshold
    <3>1. cb.successes + 1 \in 0..SuccessThreshold
      BY <2>1 DEF Breaker
    <3>2. [cb EXCEPT !.successes = @ + 1] \in Breaker
      BY <3>1 DEF Breaker
    <3> QED
      BY <2>1, <3>2 DEF Succeeded, Breaker
  <2>2. CASE cb.state = "half_open" /\ ~(cb.successes + 1 < SuccessThreshold)
    <3>1. [cb EXCEPT !.state = "closed", !.failures = 0, !.successes = 0] \in Breaker
      BY <1>0 DEF Breaker
    <3>2. cb.successes \in Nat
      BY DEF Breaker
    <3> QED
      BY <2>2, <3>1, <3>2 DEF Succeeded
  <2>3. CASE cb.state # "half_open"
    BY <2>3 DEF Succeeded, Breaker
  <2> QED
    BY <2>1, <2>2, <2>3
<1>4. Failed(cb) \in Breaker
  <2> DEFINE n == AtMost(cb.failures + 1, FailureThreshold)
             counted == [cb EXCEPT !.failures = n, !.elapsed = 0]
  <2>1. n \in 0..FailureThreshold /\ 0 \in 0..RecoveryTimeout
    BY DEF Breaker, AtMost
  <2> HIDE DEF n
  <2>2. counted \in Breaker
    BY <2>1 DEF Breaker
  <2>3. Failed(cb) \in {counted, [counted EXCEPT !.state = "open", !.probes = 0],
                        [counted EXCEPT !.state = "open"]}
    BY DEF Failed, n
  <2> HIDE DEF counted
  <2>4. /\ [counted EXCEPT !.state = "open", !.probes = 0] \in Breaker
        /\ [counted EXCEPT !.state = "open"] \in Breaker
    BY <1>0, <2>2 DEF Breaker
  <2> QED
    BY <2>2, <2>3, <2>4
<1>5. Later(cb) \in Breaker
  <2>1. AtMost(cb.elapsed + 1, RecoveryTimeout) \in 0..RecoveryTimeout
    BY DEF Breaker, AtMost
  <2> QED
    BY <2>1 DEF Breaker, Later
<1> QED
  BY <1>1, <1>2, <1>3, <1>4, <1>5

LEMMA CooldownTyped ==
    ASSUME NEW cd \in Cooldown
    PROVE  Tripped(cd) \in Cooldown /\ Cleared(cd) \in Cooldown /\ Waited(cd) \in Cooldown
<1>1. Duration(cd.consecutive) \in 0..MaxSeconds
  <2>1. Duration(cd.consecutive) \in Nat
    BY WindowAssumption DEF Cooldown
  <2> QED
    BY <2>1, Sizes DEF Duration
<1>2. Tripped(cd) \in Cooldown
  BY <1>1, Sizes DEF Tripped, Cooldown
<1>3. Cleared(cd) \in Cooldown /\ Waited(cd) \in Cooldown
  BY Sizes DEF Cleared, Waited, Cooldown
<1> QED
  BY <1>2, <1>3

-----------------------------------------------------------------------------
(* The types of the local states a step writes *)

PutsTyped(b) == \E w \in Loose : Put(b, w) /\ Engaged(w)

LEMMA NewBatchTyped == NewBatch \in Loose /\ Engaged(NewBatch)
<1>1. NoVisits \in Tally
  BY Sizes DEF NoVisits, Tally
<1>2. 1 \in 1..Attempts /\ NewBatch.pc = "idle" /\ NewBatch.timeouts = 0 /\ NewBatch.transient = 0
  BY Sizes, NewBatchFields
<1> QED
  BY <1>1, <1>2, NoTodo DEF NewBatch, Loose, Engaged

LEMMA BegunTyped ==
    ASSUME NEW s \in Todo, NEW r, r = [NewBatch EXCEPT !.pc = "head", !.todo = s]
    PROVE  r \in Loose /\ Engaged(r)
BY NewBatchTyped DEF Loose, Engaged

LEMMA StopTyped == ASSUME NEW b, Stop(b) PROVE PutsTyped(b)
BY NewBatchTyped DEF Stop, PutsTyped

LEMMA NextCaseTyped ==
    ASSUME NEW b, NEW w \in Loose, w.todo # <<>>, NEW spared \in BOOLEAN, NextCase(b, w, spared)
    PROVE  PutsTyped(b)
<1> DEFINE t == Tail(w.todo)
           u == [w.seen EXCEPT !.asked = 0, !.logins = 0]
<1>1. t \in Todo /\ 1 \in 1..Attempts
  BY ShorterTodo, Sizes DEF Loose
<1>2. u \in Tally
  BY DEF Loose, Tally
<1>3. Put(b, [w EXCEPT !.pc = "head", !.todo = t, !.attempt = 1, !.retry = FALSE,
                       !.spared = spared, !.seen = u])
  BY DEF NextCase, Loose, Tally
<1> HIDE DEF t, u
<1>4. ASSUME NEW r, r = [w EXCEPT !.pc = "head", !.todo = t, !.attempt = 1, !.retry = FALSE,
                                  !.spared = spared, !.seen = u]
      PROVE  r \in Loose /\ Engaged(r)
  BY <1>1, <1>2, <1>4 DEF Loose, Engaged
<1> QED
  BY <1>3, <1>4 DEF PutsTyped

LEMMA NextOrStopTyped ==
    ASSUME NEW b, NEW w \in Loose, w.todo # <<>>, NEW spared \in BOOLEAN, NextOrStop(b, w, spared)
    PROVE  PutsTyped(b)
<1>1. CASE w.timeouts < MaxTimeouts /\ w.transient < MaxTransient
  BY <1>1, NextCaseTyped DEF NextOrStop
<1>2. CASE ~(w.timeouts < MaxTimeouts /\ w.transient < MaxTransient)
  <2> DEFINE e == IF w.timeouts >= MaxTimeouts THEN "consecutive_timeouts"
                  ELSE "consecutive_transient_failures"
  <2>1. e \in EndReasons
    BY DEF EndReasons
  <2>2. Put(b, [NewBatch EXCEPT !.spared = spared, !.seen = w.seen, !.end = e])
    BY <1>2 DEF NextOrStop
  <2> HIDE DEF e
  <2>3. ASSUME NEW r, r = [NewBatch EXCEPT !.spared = spared, !.seen = w.seen, !.end = e]
        PROVE  r \in Loose /\ Engaged(r)
    BY <2>1, <2>3, NewBatchTyped, NewBatchFields DEF Loose, Engaged
  <2> QED
    BY <2>2, <2>3 DEF PutsTyped
<1> QED
  BY <1>1, <1>2

\* What the handlers make of a visit that goes on.
LEMMA GoesOnTyped ==
    ASSUME NEW w \in Loose, w.todo # <<>>
    PROVE  /\ \A r : r = [w EXCEPT !.pc = "ready", !.spared = FALSE] => r \in Loose /\ Engaged(r)
           /\ \A r : r = [w EXCEPT !.pc = "flight", !.seen.asked = @ + 1] => r \in Loose /\ Engaged(r)
           /\ w.attempt < Attempts
                => \A r : r = [w EXCEPT !.pc = "ready", !.attempt = @ + 1] => r \in Loose /\ Engaged(r)
           /\ \A r : r = [w EXCEPT !.pc = "login", !.seen.logins = @ + 1] => r \in Loose /\ Engaged(r)
           /\ \A r : r = [w EXCEPT !.pc = "ready", !.retry = TRUE, !.attempt = 1]
                        => r \in Loose /\ Engaged(r)
<1>1. ASSUME NEW r, r = [w EXCEPT !.pc = "ready", !.spared = FALSE]
      PROVE  r \in Loose /\ Engaged(r)
  BY <1>1 DEF Loose, Engaged
<1>2. ASSUME NEW r, r = [w EXCEPT !.pc = "flight", !.seen.asked = @ + 1]
      PROVE  r \in Loose /\ Engaged(r)
  <2> DEFINE u == [w.seen EXCEPT !.asked = @ + 1]
  <2>1. u \in Tally /\ r = [w EXCEPT !.pc = "flight", !.seen = u]
    BY <1>2 DEF Loose, Tally
  <2> HIDE DEF u
  <2> QED
    BY <2>1 DEF Loose, Engaged
<1>3. ASSUME w.attempt < Attempts, NEW r, r = [w EXCEPT !.pc = "ready", !.attempt = @ + 1]
      PROVE  r \in Loose /\ Engaged(r)
  <2>1. w.attempt + 1 \in 1..Attempts
    BY <1>3, Sizes DEF Loose
  <2> QED
    BY <1>3, <2>1 DEF Loose, Engaged
<1>4. ASSUME NEW r, r = [w EXCEPT !.pc = "login", !.seen.logins = @ + 1]
      PROVE  r \in Loose /\ Engaged(r)
  <2> DEFINE u == [w.seen EXCEPT !.logins = @ + 1]
  <2>1. u \in Tally /\ r = [w EXCEPT !.pc = "login", !.seen = u]
    BY <1>4 DEF Loose, Tally
  <2> HIDE DEF u
  <2> QED
    BY <2>1 DEF Loose, Engaged
<1>5. ASSUME NEW r, r = [w EXCEPT !.pc = "ready", !.retry = TRUE, !.attempt = 1]
      PROVE  r \in Loose /\ Engaged(r)
  <2>1. 1 \in 1..Attempts
    BY Sizes
  <2> QED
    BY <1>5, <2>1 DEF Loose, Engaged
<1> QED
  BY <1>1, <1>2, <1>3, <1>4, <1>5

\* What they hand over when it ends.
LEMMA FetchedTyped ==
    ASSUME NEW w \in Loose, NEW n \in Nat,
           NEW r, r = [w EXCEPT !.transient = 0, !.timeouts = n, !.seen.unreachable = 0]
    PROVE  r \in Loose /\ r.todo = w.todo
<1> DEFINE u == [w.seen EXCEPT !.unreachable = 0]
<1>1. u \in Tally /\ r = [w EXCEPT !.transient = 0, !.timeouts = n, !.seen = u]
  BY Sizes DEF Loose, Tally
<1>2. ASSUME NEW v \in Tally, NEW q, q = [w EXCEPT !.transient = 0, !.timeouts = n, !.seen = v]
      PROVE  q \in Loose /\ q.todo = w.todo
  <2>1. [w EXCEPT !.transient = 0] \in Loose /\ [w EXCEPT !.transient = 0].todo = w.todo
    BY DEF Loose
  <2> QED
    BY <1>2, <2>1 DEF Loose
<1> QED
  BY <1>1, <1>2

LEMMA CountedTyped ==
    ASSUME NEW w \in Loose, NEW r,
           r = [w EXCEPT !.timeouts = @ + 1] \/ r = [w EXCEPT !.transient = @ + 1]
    PROVE  r \in Loose /\ r.todo = w.todo
BY DEF Loose

LEMMA UnreachedTyped ==
    ASSUME NEW w \in Loose,
           NEW r, r = [w EXCEPT !.seen.unreachable = AtMost(@ + 1, MaxTransient)]
    PROVE  r \in Loose /\ r.todo = w.todo
<1> DEFINE n == AtMost(w.seen.unreachable + 1, MaxTransient)
           u == [w.seen EXCEPT !.unreachable = n]
<1>1. n \in 0..MaxTransient
  BY Sizes DEF Loose, Tally, AtMost
<1>2. r = [w EXCEPT !.seen = u]
  BY DEF Loose, Tally
<1> HIDE DEF n
<1>3. u \in Tally
  BY <1>1 DEF Loose, Tally
<1> HIDE DEF u
<1> QED
  BY <1>2, <1>3 DEF Loose

LEMMA PutsTypedKeeps ==
    ASSUME Typed, NEW b \in Batches, PutsTyped(b)
    PROVE  batch' \in [Batches -> Loose] /\ \A c \in Batches : Engaged(batch'[c])
<1>1. PICK w \in Loose : batch' = [batch EXCEPT ![b] = w] /\ Engaged(w)
  BY DEF PutsTyped, Put
<1>2. batch \in [Batches -> Loose] /\ \A c \in Batches : Engaged(batch[c])
  BY DEF Typed
<1> HIDE DEF Loose
<1>3. \A c \in Batches : batch'[c] = IF c = b THEN w ELSE batch[c]
  BY <1>1, <1>2
<1> QED
  BY <1>1, <1>2, <1>3

-----------------------------------------------------------------------------
(* The types after a step of a batch *)

LEMMA VisitTyped ==
    ASSUME Typed, NEW b \in Batches, Loop(b)
    PROVE  PutsTyped(b)
<1> DEFINE w == batch[b]
<1>1. w \in Loose /\ (w.pc \notin {"idle", "head"} => w.todo # <<>>)
  BY DEF Typed, Engaged
<1>2. w.retry \in BOOLEAN /\ w.timeouts \in Nat /\ w.attempt \in 1..Attempts
  BY <1>1 DEF Loose
<1> HIDE DEF w
<1>3. ASSUME w.todo # <<>>, NEW spared \in BOOLEAN, NextCase(b, w, spared) PROVE PutsTyped(b)
  BY <1>1, <1>3, NextCaseTyped
<1>4. CASE StopAtHead(b) \/ Finish(b) \/ LoginFails(b) \/ Challenged(b)
  BY <1>4, StopTyped DEF StopAtHead, Finish, LoginFails, Challenged
<1>5. CASE SkipNoToken(b)
  BY <1>3, <1>5 DEF SkipNoToken, w
<1>6. CASE Attend(b)
  <2>1. w.todo # <<>> /\ Put(b, [w EXCEPT !.pc = "ready", !.spared = FALSE])
    BY <1>6 DEF Attend, w
  <2> QED
    BY <1>1, <2>1, GoesOnTyped DEF PutsTyped
<1>7. CASE Request(b)
  <2>1. w.todo # <<>> /\ Put(b, [w EXCEPT !.pc = "flight", !.seen.asked = @ + 1])
    BY <1>1, <1>7 DEF Request, w
  <2> QED
    BY <1>1, <2>1, GoesOnTyped DEF PutsTyped
<1>8. ASSUME w.todo # <<>>, NavigationFails(b) PROVE PutsTyped(b)
  <2>1. Unreached(b) \in Loose /\ Unreached(b).todo = w.todo
    BY <1>1, UnreachedTyped DEF Unreached, w
  <2>2. CASE RetryInPlace(b)
    <3>1. w.attempt < Attempts /\ Put(b, [w EXCEPT !.pc = "ready", !.attempt = @ + 1])
      BY <2>2 DEF RetryInPlace, w
    <3> QED
      BY <1>1, <1>8, <3>1, GoesOnTyped DEF PutsTyped
  <2>3. CASE GiveUp(b)
    <3>1. NextOrStop(b, [Unreached(b) EXCEPT !.transient = @ + 1], TRUE)
      BY <2>3 DEF GiveUp
    <3>2. /\ [Unreached(b) EXCEPT !.transient = @ + 1] \in Loose
          /\ [Unreached(b) EXCEPT !.transient = @ + 1].todo = w.todo
      BY <2>1, CountedTyped
    <3> QED
      BY <1>8, <3>1, <3>2, NextOrStopTyped
  <2>4. CASE RetryFails(b, Unreached(b), TRUE)
    <3>1. NextCase(b, Unreached(b), TRUE)
      BY <2>4 DEF RetryFails
    <3> QED
      BY <1>8, <2>1, <3>1, NextCaseTyped
  <2> QED
    BY <1>8, <2>2, <2>3, <2>4 DEF NavigationFails
<1>9. CASE Refused(b)
  BY <1>1, <1>8, <1>9 DEF Refused, w
<1>10. CASE Fetched(b)
  <2> DEFINE n == IF w.retry THEN w.timeouts ELSE 0
             r == [w EXCEPT !.transient = 0, !.timeouts = n, !.seen.unreachable = 0]
  <2>1. w.todo # <<>> /\ NextCase(b, r, FALSE)
    BY <1>1, <1>10 DEF Fetched, Answer, w
  <2>2. n \in Nat
    BY <1>2
  <2> HIDE DEF n
  <2>3. r \in Loose /\ r.todo = w.todo
    BY <1>1, <2>2, FetchedTyped
  <2> QED
    BY <2>1, <2>3, NextCaseTyped
<1>11. CASE Unreachable(b)
  BY <1>1, <1>8, <1>11 DEF Unreachable, Answer, w
<1>12. CASE Hung(b)
  <2>1. w.todo # <<>>
    BY <1>1, <1>12 DEF Hung, Answer, w
  <2>2. CASE NextOrStop(b, [w EXCEPT !.timeouts = @ + 1], FALSE)
    <3>1. [w EXCEPT !.timeouts = @ + 1] \in Loose /\ [w EXCEPT !.timeouts = @ + 1].todo = w.todo
      BY <1>1, CountedTyped
    <3> QED
      BY <2>1, <2>2, <3>1, NextOrStopTyped
  <2>3. CASE NextCase(b, w, FALSE)
    BY <1>3, <2>1, <2>3
  <2> QED
    BY <1>12, <2>2, <2>3 DEF Hung, RetryFails, w
<1>13. ASSUME NEW answer, CaseFails(b, answer) PROVE PutsTyped(b)
  <2>1. w.todo # <<>> /\ NextCase(b, w, FALSE)
    BY <1>1, <1>13 DEF CaseFails, RetryFails, Answer, w
  <2> QED
    BY <1>3, <2>1
<1>14. ASSUME NEW answer, RollbackRaises(b, answer) PROVE PutsTyped(b)
  BY <1>14, StopTyped DEF RollbackRaises
<1>15. CASE InfraFails(b)
  <2>1. w.todo # <<>> /\ NextCase(b, w, TRUE)
    BY <1>1, <1>15 DEF InfraFails, RetryFails, Answer, w
  <2> QED
    BY <1>3, <2>1
<1>16. ASSUME NEW answer, AskLogin(b, answer) PROVE PutsTyped(b)
  <2>1. w.todo # <<>> /\ Put(b, [w EXCEPT !.pc = "login", !.seen.logins = @ + 1])
    BY <1>1, <1>16 DEF AskLogin, SessionError, Answer, w
  <2> QED
    BY <1>1, <2>1, GoesOnTyped DEF PutsTyped
<1>17. ASSUME NEW answer, SessionLost(b, answer) PROVE PutsTyped(b)
  BY <1>17, StopTyped DEF SessionLost
<1>18. CASE Relogged(b)
  <2>1. w.todo # <<>> /\ Put(b, [w EXCEPT !.pc = "ready", !.retry = TRUE, !.attempt = 1])
    BY <1>1, <1>18 DEF Relogged, w
  <2> QED
    BY <1>1, <2>1, GoesOnTyped DEF PutsTyped
<1> QED
  BY <1>4, <1>5, <1>6, <1>7, <1>9, <1>10, <1>11, <1>12, <1>13, <1>14, <1>15, <1>16, <1>17,
     <1>18 DEF Loop

\* The rotation stays an order of all the cases: the one a visit is of goes to the back.
LEMMA RotationTyped ==
    ASSUME Typed, NEW b \in Batches, Loop(b)
    PROVE  rotation' \in SetToSeqs(Cases)
<1>1. rotation \in SetToSeqs(Cases)
  BY DEF Typed
<1>2. ASSUME batch[b].pc = "flight" \/ batch[b].pc = "ready", MarkChecked(b)
      PROVE  rotation' \in SetToSeqs(Cases)
  <2>1. batch[b] \in Loose /\ Engaged(batch[b])
    BY DEF Typed
  <2>2. batch[b].todo \in Todo /\ batch[b].todo # <<>>
    BY <1>2, <2>1 DEF Loose, Engaged
  <2>3. Case(b) \in Cases
    BY <2>2, ShorterTodo DEF Case
  <2> QED
    BY <1>1, <1>2, <2>3, AlFinal, Sizes DEF MarkChecked
<1>3. \/ UNCHANGED rotation
      \/ (batch[b].pc = "flight" \/ batch[b].pc = "ready") /\ MarkChecked(b)
  <2>1. ASSUME NavigationFails(b), batch[b].pc = "flight" \/ batch[b].pc = "ready"
        PROVE  UNCHANGED rotation \/ MarkChecked(b)
    BY <2>1 DEF NavigationFails, RetryInPlace, GiveUp, RetryFails, TryMarkChecked
  <2>2. CASE \/ StopAtHead(b) \/ SkipNoToken(b) \/ Attend(b) \/ Finish(b) \/ Request(b)
             \/ Challenged(b) \/ Relogged(b) \/ LoginFails(b)
    BY <2>2 DEF StopAtHead, SkipNoToken, Attend, Finish, Request, Challenged, Relogged, LoginFails
  <2>3. CASE Refused(b) \/ Unreachable(b)
    BY <2>1, <2>3 DEF Refused, Unreachable, Answer
  <2>4. CASE Fetched(b) \/ Hung(b) \/ InfraFails(b)
    BY <2>4 DEF Fetched, Hung, InfraFails, RetryFails, TryMarkChecked, Answer
  <2>5. ASSUME NEW answer, CaseFails(b, answer) \/ RollbackRaises(b, answer)
        PROVE  UNCHANGED rotation \/ (batch[b].pc = "flight" /\ MarkChecked(b))
    BY <2>5 DEF CaseFails, RollbackRaises, RetryFails, TryMarkChecked, Answer
  <2>6. ASSUME NEW answer, AskLogin(b, answer) \/ SessionLost(b, answer)
        PROVE  UNCHANGED rotation \/ (batch[b].pc = "flight" /\ MarkChecked(b))
    BY <2>6 DEF AskLogin, SessionLost, SessionError, Answer
  <2> QED
    BY <2>2, <2>3, <2>4, <2>5, <2>6 DEF Loop
<1> QED
  BY <1>1, <1>2, <1>3

\* What the batches share in memory.
LEMMA SharedTyped ==
    ASSUME Typed, NEW b \in Batches, Loop(b)
    PROVE  /\ circuit' \in Breaker /\ cooldown' \in Cooldown
           /\ seen' \in [outages : 0..FailureThreshold, challenges : Nat]
<1>1. /\ circuit \in Breaker /\ cooldown \in Cooldown
      /\ seen \in [outages : 0..FailureThreshold, challenges : Nat]
  BY DEF Typed
<1>2. ASSUME NEW answer, Answer(b, answer)
      PROVE  circuit' \in Breaker /\ seen' \in [outages : 0..FailureThreshold, challenges : Nat]
  <2>1. Heard(circuit, answer) \in Breaker
    <3>1. Heard(circuit, answer) \in {circuit, Failed(circuit), Succeeded(circuit)}
      BY DEF Heard
    <3> QED
      BY <1>1, <3>1, BreakerTyped
  <2>2. Outages(answer) \in 0..FailureThreshold
    <3>1. Outages(answer) \in {0, seen.outages, AtMost(seen.outages + 1, FailureThreshold)}
      BY DEF Outages
    <3>2. AtMost(seen.outages + 1, FailureThreshold) \in 0..FailureThreshold
      BY <1>1, Sizes DEF AtMost
    <3>3. seen.outages \in 0..FailureThreshold /\ 0 \in 0..FailureThreshold
      BY <1>1, Sizes
    <3> QED
      BY <3>1, <3>2, <3>3
  <2>3. seen.challenges + (IF answer = "challenged" THEN 1 ELSE 0) \in Nat
    BY <1>1
  <2>4. /\ circuit' = Heard(circuit, answer)
        /\ seen' = [outages |-> Outages(answer),
                    challenges |-> seen.challenges + IF answer = "challenged" THEN 1 ELSE 0]
    BY <1>2 DEF Answer
  <2> QED
    BY <2>1, <2>2, <2>3, <2>4
<1>3. Entered(circuit) \in Breaker /\ Cleared(cooldown) \in Cooldown /\ Tripped(cooldown) \in Cooldown
  BY <1>1, BreakerTyped, CooldownTyped
<1>4. CASE UNCHANGED <<circuit, cooldown, seen>> \/ (circuit' = Entered(circuit) /\ UNCHANGED <<cooldown, seen>>)
  BY <1>1, <1>3, <1>4
<1>5. CASE \E answer : /\ answer # "challenged" /\ Answer(b, answer)
                      /\ cooldown' \in {cooldown, Cleared(cooldown)}
  BY <1>1, <1>2, <1>3, <1>5
<1>6. CASE Challenged(b)
  BY <1>2, <1>3, <1>6 DEF Challenged
<1> QED
  BY <1>4, <1>5, <1>6, LoopKinds

LEMMA InitTyped == Init => Typed
<1> SUFFICES ASSUME Init PROVE Typed
  OBVIOUS
<1>1. circuit \in Breaker
  BY Sizes DEF Init, NewBreaker, Breaker
<1>2. cooldown \in Cooldown
  BY Sizes DEF Init, NewCooldown, Cooldown
<1>3. seen \in [outages : 0..FailureThreshold, challenges : Nat]
  BY Sizes DEF Init
<1> QED
  BY <1>1, <1>2, <1>3, NewBatchTyped DEF Init, Typed

LEMMA StepTyped ==
    ASSUME Typed, [Next]_vars
    PROVE  Typed'
<1>1. /\ circuit \in Breaker /\ cooldown \in Cooldown /\ rotation \in SetToSeqs(Cases)
      /\ seen \in [outages : 0..FailureThreshold, challenges : Nat]
  BY DEF Typed
<1>2. ASSUME NEW b \in Batches, Loop(b) PROVE Typed'
  <2>1. batch' \in [Batches -> Loose] /\ \A c \in Batches : Engaged(batch'[c])
    BY <1>2, VisitTyped, PutsTypedKeeps
  <2> QED
    BY <1>2, <2>1, RotationTyped, SharedTyped DEF Typed, Engaged, Loose, Todo, Tally, Breaker, Cooldown
<1>3. ASSUME NEW b \in Batches, Start(b) PROVE Typed'
  <2>1. PutsTyped(b)
    <3>1. PICK s \in Todo : Put(b, [NewBatch EXCEPT !.pc = "head", !.todo = s])
      BY <1>1, <1>3, Selected DEF Start
    <3> QED
      BY <3>1, BegunTyped DEF PutsTyped
  <2>2. batch' \in [Batches -> Loose] /\ \A c \in Batches : Engaged(batch'[c])
    BY <2>1, PutsTypedKeeps
  <2>3. UNCHANGED <<circuit, cooldown, rotation, seen>>
    BY <1>3 DEF Start
  <2> QED
    BY <1>1, <2>2, <2>3 DEF Typed, Engaged
<1>4. CASE CooldownWaits
  <2>1. cooldown' \in Cooldown
    BY <1>1, <1>4, CooldownTyped DEF CooldownWaits
  <2>2. seen' \in [outages : 0..FailureThreshold, challenges : Nat]
    BY <1>1, <1>4 DEF CooldownWaits
  <2> QED
    BY <1>1, <1>4, <2>1, <2>2 DEF CooldownWaits, Typed, Engaged
<1>5. CASE CircuitWaits
  <2>1. circuit' \in Breaker
    BY <1>1, <1>5, BreakerTyped DEF CircuitWaits
  <2> QED
    BY <1>1, <1>5, <2>1 DEF CircuitWaits, Typed, Engaged
<1>6. CASE Restart
  <2>1. circuit' \in Breaker
    BY <1>6, Sizes DEF Restart, NewBreaker, Breaker
  <2>2. cooldown' \in Cooldown
    BY <1>6, Sizes DEF Restart, NewCooldown, Cooldown
  <2>3. seen' \in [outages : 0..FailureThreshold, challenges : Nat]
    BY <1>6, Sizes DEF Restart
  <2>4. batch' = [b \in Batches |-> NewBatch] /\ rotation' = rotation
    BY <1>6 DEF Restart
  <2> QED
    BY <1>1, <2>1, <2>2, <2>3, <2>4, NewBatchTyped DEF Typed, Engaged
<1>7. CASE UNCHANGED vars
  BY <1>7 DEF vars, Typed, Engaged
<1> QED
  BY <1>2, <1>3, <1>4, <1>5, <1>6, <1>7 DEF Next

\* The limits that end a batch keep its counters below them.
LEMMA TypesHold == TInv => TypeOK
<1> SUFFICES ASSUME TInv PROVE TypeOK
  OBVIOUS
<1>1. ASSUME NEW b \in Batches PROVE batch[b] \in Local
  <2>1. batch[b] \in Loose /\ Engaged(batch[b]) /\ Sound(batch[b])
    BY DEF TInv, IInv, Sounds, Typed
  <2>2. batch[b].timeouts \in 0..MaxTimeouts - 1 /\ batch[b].transient \in 0..MaxTransient - 1
    BY <2>1, Sizes DEF Engaged, Sound, Shape, Failures
  <2> QED
    BY <2>1, <2>2 DEF Loose, Local, Todo, Tally
<1>2. batch \in [Batches -> Local]
  BY <1>1 DEF TInv, Typed
<1> QED
  BY <1>2 DEF TInv, Typed, TypeOK

-----------------------------------------------------------------------------
(* The theorems *)

LEMMA Inductive == Spec => []IInv
<1>1. IInv /\ [Next]_vars => IInv'
  BY NextKeeps
<1> QED
  BY InitKeeps, <1>1, PTL DEF Spec

\* One visit costs PJUD at most one login and two rounds of attempts, whatever it answers
\* and however the batches of the process interleave (the loop of
\* detect_and_sync_movements).
THEOREM VisitBoundedAlways == Spec => []VisitBounded
<1>1. IInv => VisitBounded
  BY DEF IInv, Sounds, Sound, Cost, VisitBounded
<1> QED
  BY Inductive, <1>1, PTL

\* A batch reports that the network or PJUD is down only after as many unreachable visits
\* in a row as the limit says (consecutive_transient_failures).
THEOREM TransientStopAlways == Spec => []TransientStopIsConsecutive
<1>1. IInv => TransientStopIsConsecutive
  BY DEF IInv, Sounds, Sound, Failures, TransientStopIsConsecutive
<1> QED
  BY Inductive, <1>1, PTL

\* In one Shape cooldown each batch draws at most one challenge, for any number of batches.
THEOREM NoHammeringAlways == Spec => []NoHammering
<1>1. IInv => NoHammering
  <2> SUFFICES ASSUME IInv PROVE NoHammering
    OBVIOUS
  <2>1. Cardinality(Batches) \in Nat
    BY Limits, FS_CardinalityType
  <2> QED
    BY <2>1, IdleOnes DEF IInv, Quiet, NoHammering
<1> QED
  BY Inductive, <1>1, PTL

\* The circuit opens only on a run of outages, for any threshold and any interleaving of
\* the batches' answers (record_failure, record_success, ignored_exceptions).
THEOREM OpensOnlyOnOutageAlways == Spec => OpensOnlyOnOutage
<1>1. IInv /\ [Next]_vars =>
        [circuit.state = "closed" /\ circuit'.state = "open"
            => seen'.outages >= FailureThreshold]_vars
  BY NextKeeps DEF Minds, Opens
<1> QED
  BY Inductive, <1>1, PTL DEF Spec, OpensOnlyOnOutage

\* The types: the rotation is always an order of all the cases, each of them once, whichever
\* batches take their turns; a running batch's counters stay below the limits that end it.
THEOREM TypesAlways == Spec => []TypeOK
<1>1. Typed /\ [Next]_vars => Typed'
  BY StepTyped
<1>2. IInv /\ Typed => TypeOK
  BY TypesHold DEF TInv
<1> QED
  BY Inductive, InitTyped, <1>1, <1>2, PTL DEF Spec
=============================================================================
