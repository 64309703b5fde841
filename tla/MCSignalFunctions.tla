------------------------- MODULE MCSignalFunctions -------------------------
(* Small recordings for SignalFunctions: evenly spaced, with gaps, of one    *)
(* sample at time zero.                                                    *)
EXTENDS SignalFunctions

MCSources == {<<0, 1, 2, 3>>, <<2, 3, 5, 6, 9>>, <<0>>}
MCNoSourceStart == -1000000
MCScalars == {-1, 0, 1, 2, 4}
MCRates == {0, 24, 60, 120, 240}
MCEvents == {{2, 3, 9}, {0, 3, 5}}
=============================================================================
