---------------------------- MODULE MCOsdTracer -----------------------------
(* Processes of two OSDs, one of which restarts under another pid.          *)
EXTENDS OsdTracer

CONSTANTS osd0, osd1

\* The processes 11 and 13 are those of one OSD before and after a restart.
ThreeProcesses == [p \in Pid |-> IF p = 12 THEN osd1 ELSE osd0]

\* -s, -b, and both.
AllModes == {{"SINGLE"}, {"FULL", "BLUESTORE"}, {"SINGLE", "BLUESTORE"}}
FullMode == {{"FULL"}}
=============================================================================
