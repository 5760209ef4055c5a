-------------------------------- MODULE MCFsm --------------------------------
\* Fsm as the model checker runs it; the handlers are model values.
EXTENDS Fsm

CONSTANTS h1, h2, h3
=============================================================================
