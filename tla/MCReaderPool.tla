------------------------------ MODULE MCReaderPool ------------------------------
\* Instances of ReaderPool: the bounds are in the configurations.
EXTENDS ReaderPool
================================================================================
