-------------------------- MODULE MCEpochTransition --------------------------
EXTENDS EpochTransition

CONSTANTS api, cron, x1, x2
=============================================================================
