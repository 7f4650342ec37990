-------------------------- MODULE MCDirectorPipeline --------------------------
EXTENDS DirectorPipeline

CONSTANTS w1, w2

\* The receiving core stops after one worker and before the other.
OrderMC == <<w1, "rx", w2>>

\* A counter that the receiving core goes on incrementing.
ReportedMC == <<"total">>
===============================================================================
