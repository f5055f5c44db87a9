---------------------------- MODULE MCTimingWheel ----------------------------
EXTENDS TimingWheel
=============================================================================
