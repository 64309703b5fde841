-------------------------- MODULE MCTabularImport --------------------------
EXTENDS TabularImport

Chan(n, d, s, xs, vs) ==
    [name |-> n, unit |-> IF n = "b" THEN "" ELSE "u", domain |-> d, src |-> s,
     x |-> xs, v |-> vs]

MCLead == [a |-> "", b |-> "", d |-> "", s |-> "", t_c |-> "t_",
           p |-> "", q |-> ""]

\* Repeated instants and two grids; holes and a spectrum; a formula channel
\* that starts before the others; names that look like axes.
A == Chan("a", "time", "symbol", <<100, 104, 108>>, <<0, 12, 24>>)
B == Chan("b", "time", "symbol", <<102, 104, 104, 110>>, <<12, 0, 24, 24>>)
Holes == Chan("a", "time", "symbol", <<100, 102, 104>>, <<0, NaN, 24>>)
S == Chan("s", "frequency", "symbol", <<0, 4, 8>>, <<12, 24, 12>>)
D == Chan("d", "time", "formula", <<88, 100>>, <<0, 12>>)
C == Chan("t_c", "time", "symbol", <<100, 102>>, <<0, 0>>)

TwinCat ==
    [fmt |-> "csv", kind |-> "twincat", sep |-> "tab", nameRow |-> 2,
     names |-> <<"p", "", "q">>,
     rows |-> << <<Text, Text>>,
                 <<Text, Text, Text, Blank, Text, Text>>,
                 <<Blank>>,
                 <<0, 12, 0, 24, 0, 0>>,
                 <<2, 12, 2, 24, 2, 12>>,
                 <<2, 24, 4, 24, Blank, Blank>>,
                 <<6, 24, 6, 24>> >>]
Records ==
    [fmt |-> "json", kind |-> "records",
     records |-> << [t |-> 0, a |-> 12], [a |-> 24], [t |-> 2, b |-> 12],
                    [t |-> 4, a |-> 12, b |-> 0] >>]

RecordKeys == SetToSeq({"t", "a", "b"})
KeyColumn(k) == CHOOSE i \in DOMAIN RecordKeys : RecordKeys[i] = k
\* A profile for the record table, and one that counts rows at a fixed rate.
RecordProfile == saveToFile(Profile(1, ",", <<
    Column(KeyColumn("t"), "XTime", "", "s", 0),
    Column(KeyColumn("a"), "Signal", "a", "u", 0),
    [Column(KeyColumn("b"), "Signal", "b", "u", 0) EXCEPT
        !.dup = "Mean", !.plateau = "KeepLast"]>>))
RateProfile == saveToFile([Profile(4, "tab", <<
    Column(2, "Signal", "p", "u", 0),
    [Column(6, "Signal", "q", "u", 0) EXCEPT !.useRate = TRUE, !.dt = 4]>>)
    EXCEPT !.useRate = TRUE, !.dt = 2])

Session(st, f, p) == [store |-> st, foreign |-> f, profile |-> p]
MCSessions ==
    {Session(st, NoFile, NoProfile) :
        st \in {<<A, B>>, <<Holes, S>>, <<A, D, S>>, <<A, C>>, <<A, B, S>>}}
    \union {Session(<<>>, TwinCat, RateProfile), Session(<<>>, Records, RecordProfile)}

Ask == [fmt |-> "csv", mode |-> "pairs", axis |-> "epoch", metadata |-> TRUE,
        header |-> TRUE, sep |-> ",", time |-> TRUE, frequency |-> TRUE,
        derived |-> TRUE, picked |-> {}, range |-> <<>>, split |-> FALSE,
        layout |-> TRUE]
MCRequests ==
    {[Ask EXCEPT !.mode = m, !.axis = a, !.metadata = md] :
        m \in {"shared", "pairs"}, a \in {"epoch", "relative"}, md \in BOOLEAN}
    \union {[Ask EXCEPT !.sep = ";", !.metadata = md] : md \in BOOLEAN}
    \union {[Ask EXCEPT !.fmt = f] : f \in {"json", "h5", "mf4"}}
    \union {[Ask EXCEPT !.fmt = f, !.split = TRUE] : f \in {"csv", "json", "mf4"}}
    \union {[Ask EXCEPT !.fmt = f, !.derived = FALSE, !.range = <<0, 4>>] :
               f \in {"csv", "h5"}}
    \union {[Ask EXCEPT !.axis = "relative", !.range = <<0, 4>>, !.picked = {"b"}],
            [Ask EXCEPT !.range = <<20, 40>>, !.frequency = FALSE],
            [Ask EXCEPT !.fmt = "json", !.time = FALSE, !.layout = FALSE]}
    \union {[Ask EXCEPT !.header = FALSE]}

MCSlips == {{2, 8}}

Edit(r, change) == [role |-> r, change |-> change]
MCEdits ==
    {Edit("Signal", [dup |-> m]) : m \in {"First", "Last"}}
    \union {Edit("Signal", [plateau |-> m]) : m \in {"KeepFirst", "KeepLast"}}
    \union {Edit("Signal", [reset |-> TRUE, offset |-> 10]),
            Edit("Signal", [useRate |-> TRUE, dt |-> 0]),
            Edit("Signal", [useRate |-> FALSE, xSource |-> 1]),
            Edit("Signal", [rowEnd |-> 2]), Edit("XTime", [rowStart |-> 2])}
MCAdditions ==
    {[col |-> 1, role |-> "XTime", name |-> "", unit |-> "s"],
     [col |-> 2, role |-> "Signal", name |-> "p", unit |-> "u"]}
=============================================================================
