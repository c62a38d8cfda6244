---------------------------- MODULE ShapeCooldown ----------------------------
(***************************************************************************)
(* The station-wide pause after a Shape/TSPD challenge                     *)
(* (services/shape_cooldown.py): one per process, kept in memory.  left is *)
(* the time that remains of the window, in ticks.                          *)
(***************************************************************************)
EXTENDS Naturals

CONSTANTS
    BaseSeconds,   \* SHAPE_COOLDOWN_BASE_SECONDS, in ticks
    MaxSeconds,    \* SHAPE_COOLDOWN_MAX_SECONDS, in ticks
    MaxHits        \* bound: consecutive hits told apart

ASSUME CooldownAssumption ==
    /\ BaseSeconds \in Nat \ {0}
    /\ MaxSeconds \in Nat \ {0}
    /\ MaxHits \in Nat

Cooldown == [consecutive : 0..MaxHits, left : 0..MaxSeconds]
NewCooldown == [consecutive |-> 0, left |-> 0]

Active(cd) == cd.left > 0

Duration(n) == IF BaseSeconds * 2^n < MaxSeconds THEN BaseSeconds * 2^n ELSE MaxSeconds

\* A challenge never pauses the station for nothing.
ASSUME WindowAssumption == \A n \in 0..MaxHits : Duration(n) \in Nat \ {0}

\* trip(): the window restarts from now, longer with each hit in a row.
Tripped(cd) == [consecutive |-> IF cd.consecutive < MaxHits THEN cd.consecutive + 1
                                ELSE cd.consecutive,
                left |-> Duration(cd.consecutive)]

\* clear(): a successful fetch forgets the hits; the window in effect stays.
Cleared(cd) == [cd EXCEPT !.consecutive = 0]

Waited(cd) == [cd EXCEPT !.left = IF @ > 0 THEN @ - 1 ELSE @]
=============================================================================
