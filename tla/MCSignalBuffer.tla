---------------------------- MODULE MCSignalBuffer ----------------------------
EXTENDS SignalBuffer
=============================================================================
