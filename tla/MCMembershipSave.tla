--------------------------- MODULE MCMembershipSave ---------------------------
\* A group that must have a member and one that need not.
EXTENDS MembershipSave

CONSTANTS admins, staff, ann, bob, a, b

MCStart == {[g \in {admins, staff} |-> IF g = admins THEN p ELSE {}] :
              p \in {{bob}, {ann}, {ann, bob}}}
=============================================================================
