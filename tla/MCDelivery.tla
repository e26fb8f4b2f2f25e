----------------------------- MODULE MCDelivery -----------------------------
EXTENDS Delivery, TLC

Symmetry == Permutations(Users) \cup Permutations(Devices)
=============================================================================
