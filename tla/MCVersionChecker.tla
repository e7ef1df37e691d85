-------------------------- MODULE MCVersionChecker --------------------------
(***************************************************************************)
(* An instance of VersionChecker for TLC.  One map fills the buffer to the *)
(* last byte once its last line has its newline, the other is too long.    *)
(***************************************************************************)
EXTENDS VersionChecker

MCBufferSize == 6
MCVersionLine == <<49>>
MCDefaultVersion == <<48>>
MCVersion == {<<48>>, <<49>>, <<49, 46>>}
MCMapFiles == {<<35, 10, 35>>, <<35, 35, 10, 35>>}

\* Too short, INVALID, and urgent with a type nobody handles.
MCNoise == {<<1>>, <<1, 0>>, <<4, 7>>}
=============================================================================
