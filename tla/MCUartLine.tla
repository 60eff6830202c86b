----------------------------- MODULE MCUartLine -----------------------------
EXTENDS UartLine

MCValue == 0 .. 2 ^ DATA_WIDTH - 1
=============================================================================
