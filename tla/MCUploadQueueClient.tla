------------------------ MODULE MCUploadQueueClient ------------------------
EXTENDS UploadQueueClient, TLC

Symmetry == Permutations(NewIds) \cup Permutations(Slots) \cup Permutations(Sessions)
                \cup Permutations(Users) \cup Permutations(Contents)
===========================================================================
