------------------------- MODULE MC_PreCommitPolicy -------------------------
EXTENDS PreCommitPolicy

\* A period of 4 epochs; every boundary 0..3 appears, and the deal ends
\* reach past the head epochs and across several periods.
MCEpochs == 0..5
MCPeriodStarts == 0..4
MCDealEnds == {0, 3, 4, 5, 7, 8, 11}
=============================================================================
