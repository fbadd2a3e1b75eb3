\* Six wakes and two waits that end for no reason, in any order with the sleeps.  A sleeper
\* nobody wakes waits for ever.
SPECIFICATION UpwakerFairSpec
CONSTANTS
  MaxWakes = 6
  MaxSpurious = 2

  
PROPERTY
  WaitingIsWoken
CHECK_DEADLOCK FALSE
