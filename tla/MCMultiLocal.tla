---------------------------- MODULE MCMultiLocal ----------------------------
EXTENDS MultiLocal

CONSTANTS c1, t1

\* Endpoint 1 has two slots of the rotation.
MCWeight == <<2, 1>>
MCChat == {c1}
MCTrip == {t1}
MCNone == {}
=============================================================================
