------------------------------- MODULE MCSweep -------------------------------
EXTENDS Sweep

\* Two jobs; the second zip lies behind as many objects that may stay as a
\* pass lists.
MCKeys == <<[job |-> "j1", name |-> "figure"], [job |-> "j1", name |-> "zip"],
            [job |-> "j2", name |-> "zip"]>>
=============================================================================
