-------------------------- MODULE MCMultiLocalLive --------------------------
EXTENDS MultiLocal

CONSTANT c1

MCWeight == <<1, 1>>
MCChat == {c1}
MCNone == {}
=============================================================================
