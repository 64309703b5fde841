-------------------------- MODULE MCAnalyserViews --------------------------
EXTENDS AnalyserViews, TLC

CONSTANTS speed, speed2, fft, none, noname, plain, volt
MCOrder == <<speed, speed2, fft>>
MCKinds == speed :> {"time"} @@ speed2 :> {"time"} @@ fft :> {"frequency"}
MCCopyOf == speed :> speed2 @@ speed2 :> speed2 @@ fft :> fft
MCUnit == speed :> volt @@ speed2 :> none @@ fft :> none
MCStores == {speed2 :> "time" @@ fft :> "frequency"}
=============================================================================
