--------------------------- MODULE MCGuestUpdate ---------------------------
EXTENDS GuestUpdate
CONSTANTS t1, t2

\* QEMU or qvm over shared memory, and a native process over HTTP.
BothDeploys == {[persistent |-> TRUE, reaps |-> FALSE],
                [persistent |-> FALSE, reaps |-> TRUE]}

\* What comes together.
AllTraffics == {{"update", "crash"}, {"update", "lost"}, {"update", "sweep"},
                {"update", "launch_fault"}, {"update", "reboot"},
                {"stop", "restart", "crash", "sweep"},
                {"disable", "update"}, {"disable", "restart", "read", "record_fault"},
                {"disable", "stop", "lost"}}
StopTraffic == {{"update", "stop"}}
=============================================================================
