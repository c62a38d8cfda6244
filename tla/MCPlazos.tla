------------------------------ MODULE MCPlazos ------------------------------
EXTENDS Plazos
MCTermino == [excepciones |-> 1, traslado |-> 1]
=============================================================================
