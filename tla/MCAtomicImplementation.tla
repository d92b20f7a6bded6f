---------------------- MODULE MCAtomicImplementation ----------------------
EXTENDS AtomicImplementation
============================================================================
