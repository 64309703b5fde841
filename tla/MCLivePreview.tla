--------------------------- MODULE MCLivePreview ---------------------------
EXTENDS LivePreview, TLC

CONSTANTS speed, force, none, plain, volt
MCUnit == [c \in Channels |-> IF c = speed THEN volt ELSE none]
MCLayouts == {NoLayout, [axes |-> <<plain, plain, volt>>, chans |-> speed :> 3 @@ force :> 2]}
=============================================================================
