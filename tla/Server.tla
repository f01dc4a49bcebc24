--------------------------------- MODULE Server ---------------------------------
\* The parts of the server that work on what is outside of a request -- the transports and
\* their binaries, the checkout, the desktop application, the processes -- and what they
\* promise together.
EXTENDS CurlBinary, Transports, Updates, DesktopUpdater, ServerProcesses

\* The updates of one process do not get into each other's way: of the checkout, of the
\* version, and of the desktop application.
UpdatesInOrder ==
    /\ UpdateTypeOK /\ OneUpdateAtATime /\ OnePipelineAtATime
    /\ DesktopTypeOK /\ DownloadedStaysOffered
=============================================================================
