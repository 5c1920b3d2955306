---------------------------- MODULE MCAtomicCreate ----------------------------
\* A person with a private group, and a second person who would share it.
EXTENDS AtomicCreate

CONSTANTS annGroup, ann, bob

MCRequests == {<<annGroup, ann>>, <<annGroup, bob>>}
=============================================================================
