------------------------------- MODULE Upwaker -------------------------------
(***************************************************************************)
(* upwaker_sleep and upwaker_wake_up of src/upwaker.c, with one thread     *)
(* calling each, as src/vringbuffer.c does.  A flag remembers a wake; a    *)
(* condition variable wakes a sleeper.  The flag is tested without the     *)
(* mutex, so the test and the wait are two steps.                          *)
(*                                                                         *)
(* The condition variable is external: a broadcast wakes whoever waits and *)
(* leaves no trace otherwise, and a wait may end for no reason at all.     *)
(***************************************************************************)
EXTENDS Integers

CONSTANTS MaxWakes,    \* bound: how often upwaker_wake_up is called
          MaxSpurious  \* bound: how many waits end for no reason

ASSUME UpwakerAssumption == MaxWakes \in Nat /\ MaxSpurious \in Nat

VARIABLES please_wakeup, \* the flag, 0 or 1
          sleeper,       \* where the thread that sleeps is
          waker          \* where the thread that wakes is

\* history
VARIABLES wakes,    \* calls of upwaker_wake_up begun
          returns,  \* calls of upwaker_sleep that are over
          spurious, \* waits that ended for no reason
          overtaken \* wakes whose flag a sleeper cleared before their broadcast

upwakerVars == <<please_wakeup, sleeper, waker, wakes, returns, spurious, overtaken>>

UpwakerTypeOK ==
  /\ please_wakeup \in 0..1
  /\ sleeper \in {"awake", "test", "decided", "waiting", "clear"}
  /\ waker \in {"idle", "broadcast"}
  /\ wakes \in 0..MaxWakes
  /\ returns \in Nat
  /\ spurious \in 0..MaxSpurious
  /\ overtaken \in Nat

\* create_upwaker.
UpwakerInit ==
  /\ please_wakeup = 0
  /\ sleeper = "awake"
  /\ waker = "idle"
  /\ wakes = 0
  /\ returns = 0
  /\ spurious = 0
  /\ overtaken = 0

-----------------------------------------------------------------------------
(* upwaker_sleep *)

SleepCall ==
  /\ sleeper = "awake"
  /\ sleeper' = "test"
  /\ UNCHANGED <<please_wakeup, waker, wakes, returns, spurious, overtaken>>

SleepTest ==
  /\ sleeper = "test"
  /\ sleeper' = IF please_wakeup = 1 THEN "clear" ELSE "decided"
  /\ UNCHANGED <<please_wakeup, waker, wakes, returns, spurious, overtaken>>

SleepWait ==
  /\ sleeper = "decided"
  /\ sleeper' = "waiting"
  /\ UNCHANGED <<please_wakeup, waker, wakes, returns, spurious, overtaken>>

\* pthread_cond_wait may return although nobody signalled.
SpuriousWakeup ==
  /\ sleeper = "waiting"
  /\ spurious < MaxSpurious
  /\ spurious' = spurious + 1
  /\ sleeper' = "clear"
  /\ UNCHANGED <<please_wakeup, waker, wakes, returns, overtaken>>

\* mutation: the flag is left set
SleepClearForgotten ==
  /\ sleeper = "clear"
  /\ returns' = returns + 1
  /\ sleeper' = "awake"
  /\ UNCHANGED <<please_wakeup, waker, wakes, spurious, overtaken>>

SleepClear ==
  /\ sleeper = "clear"
  /\ please_wakeup' = 0
  /\ returns' = returns + 1
  /\ sleeper' = "awake"
  /\ overtaken' = IF waker = "broadcast" /\ please_wakeup = 1 THEN overtaken + 1 ELSE overtaken
  /\ UNCHANGED <<waker, wakes, spurious>>

-----------------------------------------------------------------------------
(* upwaker_wake_up *)
WakeSet ==
  /\ waker = "idle"
  /\ wakes < MaxWakes
  /\ please_wakeup' = 1
  /\ wakes' = wakes + 1
  /\ waker' = "broadcast"
  /\ UNCHANGED <<sleeper, returns, spurious, overtaken>>

\* mutation: no broadcast, as if the mutex had been found taken
WakeBroadcastSkipped ==
  /\ waker = "broadcast"
  /\ waker' = "idle"
  /\ UNCHANGED <<please_wakeup, sleeper, wakes, returns, spurious, overtaken>>

WakeBroadcast ==
  /\ waker = "broadcast"
  /\ sleeper' = IF sleeper = "waiting" THEN "clear" ELSE sleeper
  /\ waker' = "idle"
  /\ UNCHANGED <<please_wakeup, wakes, returns, spurious, overtaken>>

-----------------------------------------------------------------------------
upwaker_sleep ==
  SleepCall \/ SleepTest \/ SleepWait \/ SpuriousWakeup \/ SleepClear

upwaker_wake_up == WakeSet \/ WakeBroadcast

UpwakerNext == upwaker_sleep \/ upwaker_wake_up

UpwakerSpec == UpwakerInit /\ [][UpwakerNext]_upwakerVars

\* A call once begun goes on, as an ordinary thread does; whether there is another
\* call is up to the callers.
UpwakerFairSpec ==
  /\ UpwakerSpec
  /\ WF_upwakerVars(SleepTest \/ SleepWait \/ SleepClear)
  /\ WF_upwakerVars(WakeBroadcast)

-----------------------------------------------------------------------------
(* Properties *)

\* A wake ends one sleep, and a row of wakes with no sleep ending between them only
\* one, as upwaker.h:9-11 promises ("it will wake the sleeper up _only_ one time"),
\* unless the sleeper overtakes it: it takes the flag of upwaker.c:32 and sleeps
\* again before the broadcast of line 33, which then ends a second sleep.  Only
\* so, or for no reason at all, are there more returns than wakes.
OncePerWakeUnlessOvertaken == returns <= wakes + overtaken + spurious

\* A wake that begins while the sleeper waits always gets it out, whatever wakes
\* were lost before (upwaker.c:33): that is why the broadcast is unconditional.
WaitingIsWoken ==
  sleeper = "waiting" /\ waker = "broadcast" ~> sleeper = "awake"

\* upwaker.h:5-7: "it guarantees upwaker_sleep() to wake up, even if the upwaker
\* isn't currently sleeping".  The wake that comes between the test and the wait of
\* upwaker.c:23-24 is lost.
GuaranteedWakeup == please_wakeup = 1 /\ sleeper # "awake" ~> sleeper = "awake"
=============================================================================
