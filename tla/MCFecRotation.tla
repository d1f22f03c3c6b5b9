---------------------------- MODULE MCFecRotation ----------------------------
EXTENDS FecReceiveStatistics

CONSTANTS a, b, c, d
MCSsrcs == {a, b, c, d}
===============================================================================
