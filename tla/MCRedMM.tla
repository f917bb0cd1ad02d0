----------------------------- MODULE MCRedMM ---------------------------------
EXTENDS RedQueueMMDisc

MCOneQueue == {0}
MCCapable == {"ECT"}
=============================================================================
