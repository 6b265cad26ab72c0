--------------------------- MODULE MCTurnPipeline ---------------------------
EXTENDS TurnPipeline
=============================================================================
