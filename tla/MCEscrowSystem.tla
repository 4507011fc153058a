--------------------------- MODULE MCEscrowSystem ----------------------------
EXTENDS EscrowSystem
P2P == [structure |-> "p2p", mode |-> "instant", amount |-> 10, commission |-> 0,
               premium |-> 1, inspection |-> 0, delivery |-> 1, ttl |-> 1]
MCTerms == {P2P}
=============================================================================
