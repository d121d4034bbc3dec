------------------------------ MODULE MCSerial ------------------------------
EXTENDS Serial

\* Bytes that arrive and bytes that are written: mostly the one or the other, since
\* the two directions share nothing but the interrupt handler.
MCLoads == {<<8, 1>>, <<1, 8>>, <<3, 3>>}
=============================================================================
