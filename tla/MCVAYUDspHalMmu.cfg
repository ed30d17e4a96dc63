\* The MMU set-up with failing handler creation, entry adds and processor
\* open, then faults of the running DSP and disable; the HAL ends in
\* disable or stays loaded, so deadlock is not checked.
CONSTANTS
  Tables <- MC_Tables
  IsrCanFail = TRUE
  PteSetCanFail = TRUE
  OpenCanFail = TRUE
SPECIFICATION Spec
PROPERTY FaultReported
CHECK_DEADLOCK FALSE
