------------------------------- MODULE MCVhsm -------------------------------
EXTENDS VhsmServer
CONSTANTS v1, v2, c1, c2

\* What comes together.
AllTraffics == {{"token", "arm"}, {"arm", "lost", "restart"}, {"arm", "client_crash", "auth"},
                {"arm", "disk_fault"}, {"tokens", "disk_fault", "restart"},
                {"auth", "generate", "restart", "disk_fault"},
                {"auth", "generate", "key_fault", "disk_fault"}}
ArmTraffic == {{"token", "arm"}}
KeyTraffic == {{"auth", "generate", "restart"}}
=============================================================================
