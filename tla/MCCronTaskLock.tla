--------------------------- MODULE MCCronTaskLock ---------------------------
EXTENDS CronTaskLock, TLC

CONSTANTS i1, i2, i3

MCInstance == {i1, i2, i3}

=============================================================================
