----------------------------- MODULE MCRedFront -----------------------------
EXTENDS RedQueueFrontDisc

MCTwoQueues == {0, 1}
MCMixed == {"NotECT", "ECT"}
=============================================================================
