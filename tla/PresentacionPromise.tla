------------------------- MODULE PresentacionPromise -------------------------
(***************************************************************************)
(* What the presentación API promises the caller (GEDOC) about one filing, *)
(* without workers, sessions or HTTP handlers: a filing is accepted once,  *)
(* taken from the queue a bounded number of times, handed over once, and   *)
(* its send is confirmed only after somebody reviewed it.  A closed filing *)
(* never changes again and a handed-over one never returns to the queue.   *)
(*                                                                         *)
(* The phases group the estados of models/presentacion.py: "bandeja" is a  *)
(* filing loaded in the OJV (cargada_pendiente_envio, revisado or          *)
(* envio_confirmado), "closed" is presentada, rechazada or error.          *)
(***************************************************************************)
EXTENDS Naturals

CONSTANTS
    Ids,          \* the filings
    MaxIntentos   \* PRESENTACION_MAX_INTENTOS

VARIABLES
    phase,        \* [Ids -> Phases]
    attempts,     \* [Ids -> Nat], times the filing was taken from the queue
    reviewed,     \* [Ids -> BOOLEAN], somebody cross-reviewed it
    confirmed     \* [Ids -> BOOLEAN], somebody authorised the final send

vars == <<phase, attempts, reviewed, confirmed>>

Phases == {"absent", "queued", "working", "bandeja", "closed"}

Init ==
    /\ phase = [i \in Ids |-> "absent"]
    /\ attempts = [i \in Ids |-> 0]
    /\ reviewed = [i \in Ids |-> FALSE]
    /\ confirmed = [i \in Ids |-> FALSE]

Move(i, from, to) ==
    /\ phase[i] = from
    /\ phase' = [phase EXCEPT ![i] = to]

Accept(i) ==
    /\ Move(i, "absent", "queued")
    /\ UNCHANGED <<attempts, reviewed, confirmed>>

Take(i) ==
    /\ Move(i, "queued", "working")
    /\ attempts[i] < MaxIntentos
    /\ attempts' = [attempts EXCEPT ![i] = @ + 1]
    /\ UNCHANGED <<reviewed, confirmed>>

GiveBack(i) ==
    /\ Move(i, "working", "queued")
    /\ attempts[i] < MaxIntentos
    /\ UNCHANGED <<attempts, reviewed, confirmed>>

HandOver(i) ==
    /\ \E to \in {"bandeja", "closed"} : Move(i, "working", to)
    /\ UNCHANGED <<attempts, reviewed, confirmed>>

Review(i) ==
    /\ phase[i] = "bandeja"
    /\ reviewed' = [reviewed EXCEPT ![i] = TRUE]
    /\ UNCHANGED <<phase, attempts, confirmed>>

Confirm(i) ==
    /\ phase[i] = "bandeja"
    /\ reviewed[i]
    /\ confirmed' = [confirmed EXCEPT ![i] = TRUE]
    /\ UNCHANGED <<phase, attempts, reviewed>>

Next ==
    \E i \in Ids :
        Accept(i) \/ Take(i) \/ GiveBack(i) \/ HandOver(i) \/ Review(i) \/ Confirm(i)

Spec == Init /\ [][Next]_vars
=============================================================================
