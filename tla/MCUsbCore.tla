----------------------------- MODULE MCUsbCore -----------------------------
(* Who submits on which endpoint, in the runs of UsbCore.                   *)
EXTENDS UsbCore

\* A second thread has the endpoint "aux" to itself.
OtherAux == {<<"other", "aux">>, <<"main", "in">>}

\* The callbacks of "in" and "out" submit the next transfer there, and on_open() the
\* first on both: what the CDC and MIDI drivers of the repository do.
OpenBoth == {<<"in", "in">>, <<"out", "out">>, <<NoEp, "in">>, <<NoEp, "out">>}

\* Who submits in the run is what the theorems of UsbCoreProofs are about.
ASSUME CoreOneSubmitter == OneSubmitter
============================================================================
