---------------------------- MODULE MCSyncChain ----------------------------
\* Values of the constants for TLC. Services is a sequence and cannot be written in
\* a configuration; two services are enough for a chain that ends in a self-call.
EXTENDS SyncChain

TwoServices == <<"a", "b">>
ThreeServices == <<"a", "b", "c">>

=============================================================================
