------------------------ MODULE MCSubscriptionNotices ------------------------
\* SubscriptionNotices on a small instance.
EXTENDS SubscriptionNotices, TLC

Terms == {2}

\* The channels are used alike.
Symmetry == Permutations(Channel)
==============================================================================
