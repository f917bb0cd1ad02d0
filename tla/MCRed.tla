------------------------------- MODULE MCRed -------------------------------
EXTENDS RedQueueDisc

MCOneQueue == {0}
MCTwoQueues == {0, 1}
MCCapable == {"ECT"}
MCMixed == {"NotECT", "ECT"}
=============================================================================
