\* The guarantee of upwaker.h:5-7.
SPECIFICATION UpwakerFairSpec
CONSTANTS
  MaxWakes = 3
  MaxSpurious = 1
PROPERTY
  GuaranteedWakeup
CHECK_DEADLOCK FALSE
