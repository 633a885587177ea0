------------------------- MODULE MCWrfcPersistence -------------------------
EXTENDS WrfcPersistence
=============================================================================
