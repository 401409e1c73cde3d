------------------------------- MODULE MCGrabber -------------------------------
\* Small instances of the Grabber: a file of two segments, one of one segment
\* and a par2 file of one segment, and the calls each run makes.
EXTENDS GrabberOrderly

MCFileOf == [s \in Segments |-> CASE s \in {"a1", "a2"} -> "a"
                                  [] s = "b1" -> "b"
                                  [] s = "p1" -> "par2"]
MCSegSeq == [f \in Files |-> CASE f = "a" /\ "a2" \in Segments -> <<"a1", "a2">>
                               [] f = "a" /\ "a2" \notin Segments -> <<"a1">>
                               [] f = "b" -> <<"b1">>
                               [] f = "par2" -> <<"p1">>]
MCFileSeq == <<"a", "par2">>
MCFileSeq3 == <<"a", "b", "par2">>
MCGroupSeq == [s \in Segments |-> <<"g1">>]
MCServerSeq == <<"primary", "backup">>
MCServerSeq1 == <<"primary">>
\* The primary server does not keep articles as old as those of a and b.
MCExpired == {<<"a1", "primary">>, <<"a2", "primary">>, <<"b1", "primary">>}

All == "all"
\* What cmd/grabby does, with one par2 file asked for after the first lot and one
\* file asked for again, and the same with a pause between the lots.
LotByLot ==
    {<< <<"GrabAll", All>>, <<"Await", All>>, <<"GrabFile", "par2">>,
        <<"Await", All>>, <<"GrabFile", "a">>, <<"Shutdown", All>> >>,
     << <<"GrabAll", All>>, <<"Await", All>>, <<"Pause", All>>, <<"Resume", All>>,
        <<"GrabFile", "par2">>, <<"Await", All>> >>}

\* Calls that the goroutines may overtake, or be overtaken by.
AnyTime ==
    {<< <<"GrabAll", All>>, <<"Pause", All>>, <<"Resume", All>>, <<"Await", All>>,
        <<"Shutdown", All>> >>,
     << <<"GrabAll", All>>, <<"Pause", All>>, <<"GrabFile", "par2">>,
        <<"Resume", All>>, <<"Shutdown", All>> >>,
     << <<"GrabFile", "par2">>, <<"GrabAll", All>>, <<"GrabFile", "a">>,
        <<"Await", All>>, <<"Shutdown", All>> >>}

\* watchGrabber, the GrabFile loop for par2 files and watchGrabber again.
Batch ==
    {<< <<"GrabAll", All>>, <<"Await", All>>, <<"GrabFile", "par2">>,
        <<"GrabFile", "b">>, <<"Await", All>>, <<"Shutdown", All>> >>}

\* Everything asked for, paused, resumed and waited for.
PauseResume ==
    {<< <<"GrabAll", All>>, <<"Pause", All>>, <<"Resume", All>>, <<"Await", All>> >>}
=============================================================================
