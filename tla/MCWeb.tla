-------------------------------- MODULE MCWeb -------------------------------
(***************************************************************************)
(* An instance for TLC of the two tabs of the web client.  Neither reads   *)
(* what the other keeps, so a behaviour is one of the capture tab or one   *)
(* of the archive tab, the other being untouched.                          *)
(***************************************************************************)
EXTENDS WebCapture, WebArchive

CONSTANTS a, b

TwoDocs == {a, b}

\* The documents are alike: of two behaviours that differ in which one is
\* opened first, one is explored.
FirstIsA == opened = 0 => \A o \in opening' : o.doc = a

WebInit == CaptureInit /\ ArchiveInit

WebNext ==
    \/ ArchiveInit /\ CaptureNext /\ UNCHANGED archiveVars
    \/ CaptureInit /\ ArchiveNext /\ FirstIsA /\ UNCHANGED captureVars

WebSpec == WebInit /\ [][WebNext]_<<captureVars, archiveVars>> /\ CaptureFairness
=============================================================================
