--------------------------- MODULE MCPointToPoint ---------------------------
EXTENDS PointToPointNetDevice

MCOneQueue == {0}
MCCapable == {"ECT"}
MCLeftovers == {-9, 0, 9}
=============================================================================
