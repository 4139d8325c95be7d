------------------------------ MODULE MCReadySync ------------------------------
\* Instances of ReadySync: the bounds are in the configurations.
EXTENDS ReadySync
================================================================================
