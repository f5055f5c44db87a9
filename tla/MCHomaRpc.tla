----------------------------- MODULE MCHomaRpc -----------------------------
EXTENDS HomaRpc
OneOne == <<1, 1>>
OneTwo == <<1, 2>>
TwoOne == <<2, 1>>
TwoTwo == <<2, 2>>
OneOnly == <<1>>
TwoOnly == <<2>>
NoExact == {}
=============================================================================
