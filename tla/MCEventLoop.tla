---------------------------- MODULE MCEventLoop ----------------------------
EXTENDS EventLoop

CONSTANTS t1, t2, j1, j2, f1, f2

OneThread  == {t1}
TwoThreads == {t1, t2}
OneJob     == {j1}
TwoJobs    == {j1, j2}
OneFd      == {f1}
TwoFds     == {f1, f2}
=============================================================================
