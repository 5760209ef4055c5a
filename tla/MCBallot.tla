------------------------------ MODULE MCBallot -------------------------------
\* Ballot as the model checker runs it; voters, handlers and waiters are model
\* values.
EXTENDS Ballot

CONSTANTS v1, v2, t1, t2, w1
=============================================================================
