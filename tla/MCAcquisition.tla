--------------------------- MODULE MCAcquisition ---------------------------
EXTENDS Acquisition

CONSTANT btc

\* Every item is about the same coin.
AllBtc == [i \in Item |-> btc]
=============================================================================
