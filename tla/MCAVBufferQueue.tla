--------------------------- MODULE MCAVBufferQueue ---------------------------
(***************************************************************************)
(* Instances of AVBufferQueue for TLC.  Each cfg chooses which operations  *)
(* the clients use; all of them use RequestBuffer, PushBuffer,             *)
(* AcquireBuffer and ReleaseBuffer.                                        *)
(***************************************************************************)
EXTENDS AVBufferQueue, TLC

\* Clients that set nothing but memory type and size.
PlainForms == {NoForm}

\* Clients with an alignment, with other rights and with another surface.
MixedForms == {NoForm, [flag |-> "ro", layout |-> "frame", align |-> 2]}

ThreadSymmetry == Permutations(Threads)

\* Brokers differ in their place in brokerListeners only.
BrokerSymmetry == Permutations(Threads) \cup Permutations(Brokers)
=============================================================================
