-------------------------------- MODULE Bme --------------------------------
(***************************************************************************)
(* The sensor application of the mycpu board: the bme command of the shell *)
(* and the thread it controls (rt-thread/bsp/mycpu/main.c), and the polled *)
(* driver both of them run (rt-thread/bsp/mycpu/bme280.c).                 *)
(*                                                                         *)
(* A thread gives the CPU up in rt_thread_mdelay, in rt_sem_take, and when *)
(* it wakes a thread of higher priority, nowhere else; the bme thread has  *)
(* the higher priority, and the tick that ends a delay comes from the idle *)
(* thread, when both wait.  A step is what a thread does from one such     *)
(* point to the next.  A function takes the state and returns the set of   *)
(* states it may leave, one for every I2C transfer that may fail.          *)
(***************************************************************************)
EXTENDS Integers, FiniteSets

CONSTANTS
  StatusPolls,        \* BME280_STATUS_TIMEOUT_MS
  BME280_SAMPLE_RETRIES,
  MaxPermits          \* bound of the control semaphore

ASSUME BmeAssumption ==
  {StatusPolls, BME280_SAMPLE_RETRIES, MaxPermits} \subseteq Nat \ {0}

Thread == {"bme", "finsh"}

VARIABLES
  app,    \* bme_periodic_enabled, bme_initialized, bme_last_error, the semaphore
  drv,    \* initialized, and whether calibration holds the sensor's values
  chip,   \* the sensor
  pc,     \* where each thread waits
  sample  \* ghost: what the last successful read returned

vars == <<app, drv, chip, pc, sample>>

State == [app |-> app, drv |-> drv, chip |-> chip, pc |-> pc, sample |-> sample]

Becomes(s) ==
  app' = s.app /\ drv' = s.drv /\ chip' = s.chip /\ pc' = s.pc /\ sample' = s.sample

Where(a, n, try) == [at |-> a, polls |-> n, attempt |-> try]
At(s, t, a) == [s EXCEPT !.pc[t] = Where(a, 0, 0)]

-----------------------------------------------------------------------------
(* The sensor.  It answers nothing while it starts after a reset, and a    *)
(* command during a measurement, or while the calibration is copied, waits *)
(* for its end.  by: whose commands it is about to serve; fresh: who has   *)
(* given no command since the data was written.                            *)
Reset(s) ==
  [s EXCEPT !.chip = [at |-> "resetting", by |-> {}, queued |-> FALSE,
                      data |-> "placeholder", fresh |-> s.chip.fresh]]

ForceMode(s, t) ==
  LET c == [s.chip EXCEPT !.fresh = @ \ {t}]
  IN  [s EXCEPT !.chip = IF c.at \in {"idle", "starting"}
                         THEN [c EXCEPT !.at = "starting", !.by = @ \cup {t}]
                         ELSE [c EXCEPT !.queued = TRUE]]

SleepMode(s) == [s EXCEPT !.chip.queued = FALSE]

(* A transfer may fail, and must while the sensor starts: i2c_wait_done    *)
(* returns -1 or -2.                                                       *)
i2c_wait_done(s) == IF s.chip.at = "resetting" THEN {FALSE} ELSE BOOLEAN

ChipStep ==
  /\ \/ chip.at = "resetting" /\ chip' = [chip EXCEPT !.at = "updating"]
     \/ /\ chip.at = "updating"
        /\ chip' = [chip EXCEPT !.at = IF chip.queued THEN "measuring" ELSE "idle",
                                !.queued = FALSE]
     \/ chip.at = "starting" /\ chip' = [chip EXCEPT !.at = "measuring", !.by = {}]
     \/ /\ chip.at = "measuring"
        /\ \E d \in {"measured", "placeholder"} :
             chip' = [chip EXCEPT !.at = IF chip.queued THEN "measuring" ELSE "idle",
                                  !.queued = FALSE, !.data = d, !.fresh = Thread]
  /\ UNCHANGED <<app, drv, pc, sample>>

-----------------------------------------------------------------------------
(* Mutant: a permit that is not there is taken. *)
LeaveOffByOne(s, t) ==
  IF t = "finsh" THEN At(s, t, "prompt")
  ELSE IF ~s.app.periodic THEN At(s, t, "loop")
  ELSE IF s.app.sem >= 0 THEN At([s EXCEPT !.app.sem = @ - 1], t, "loop")
  ELSE At(s, t, "period")

(* The way out of the driver: bme280_print_sample or                       *)
(* bme280_ensure_initialized, then the rest of the thread's round.         *)
Leave(s, t) ==
  IF t = "finsh" THEN At(s, t, "prompt")
  ELSE IF ~s.app.periodic THEN At(s, t, "loop")
  ELSE IF s.app.sem > 0 THEN At([s EXCEPT !.app.sem = @ - 1], t, "loop")
  ELSE At(s, t, "period")

bme280_print_sample(s, t, result) ==
  Leave([s EXCEPT !.app.last_error = result,
                  !.app.initialized = @ /\ result \notin {-2, -3, -4}], t)

(* Mutant: the attempts are not counted. *)
SameAttempt(s, t, attempt) ==
  {IF ok THEN [ForceMode(s, t) EXCEPT !.pc[t] = Where("measure", 0, 1)]
   ELSE bme280_print_sample(s, t, -2) : ok \in i2c_wait_done(s)}

(* The forced mode of one attempt, up to the delay behind it. *)
Trigger(s, t, attempt) ==
  {IF ok THEN [ForceMode(s, t) EXCEPT !.pc[t] = Where("measure", 0, attempt)]
   ELSE bme280_print_sample(s, t, -2) : ok \in i2c_wait_done(s)}

bme280_read(s, t) ==
  IF s.drv.initialized THEN Trigger(s, t, 1) ELSE {bme280_print_sample(s, t, -1)}

(* The delay behind the command was too short: the sensor has not begun    *)
(* what t has commanded, and its status does not yet show it.              *)
NotBegun(s, t) == s.pc[t].at = "measure" /\ s.chip.at = "starting" /\ t \in s.chip.by

(* The eight data registers, read without a pause.  Data from before the   *)
(* command is early when the sensor has not begun yet, and stale else.     *)
ReadData(s, t, attempt) ==
  {IF ~ok THEN bme280_print_sample(s, t, -4)
   ELSE IF s.chip.data = "placeholder" THEN [s EXCEPT !.pc[t] = Where("again", 0, attempt)]
   ELSE bme280_print_sample(
          [s EXCEPT !.sample = IF ~s.drv.calibrated THEN "uncalibrated"
                               ELSE IF t \in s.chip.fresh THEN "good"
                               ELSE IF NotBegun(s, t) THEN "early" ELSE "stale"], t, 0)
     : ok \in i2c_wait_done(s)}

(* The probe of both addresses and the reset.  The address that answers is *)
(* the same whoever asks; after a probe that failed the driver keeps the   *)
(* other one, and its transfers fail, as they may at any time.             *)
bme280_init(s, t) ==
  LET u == [s EXCEPT !.drv.initialized = FALSE]
  IN  {IF ok THEN At(Reset(u), t, "reset")
       ELSE Leave([u EXCEPT !.app.last_error = result], t)
         : ok \in i2c_wait_done(s), result \in {-1, -2}}

bme280_ensure_initialized(s, t) ==
  IF s.app.initialized THEN bme280_read(s, t) ELSE bme280_init(s, t)

(* Mutant: a failure takes back what another initialisation has reached. *)
InitFailedClears(s, t, result) ==
  Leave([s EXCEPT !.drv.initialized = FALSE, !.app.last_error = result], t)

InitFailed(s, t, result) == Leave([s EXCEPT !.app.last_error = result], t)

(* read_calibration and the configuration, then the first sample of the    *)
(* same round if it is still wanted.  A transfer that fails half-way leaves *)
(* the words it did not reach as they were, and those it reached are the   *)
(* same every time.                                                        *)
read_calibration(s, t) ==
  LET u == [s EXCEPT !.drv.calibrated = s.chip.at # "updating"]
      done == [SleepMode(u) EXCEPT !.drv.initialized = TRUE, !.app.last_error = 0,
                                   !.app.initialized = TRUE]
  IN  {InitFailed([s EXCEPT !.drv.calibrated = @ /\ u.drv.calibrated], t, -5),
       InitFailed(u, t, -6)}
        \cup (IF TRUE \notin i2c_wait_done(s) THEN {}
              ELSE IF t = "bme" /\ ~s.app.periodic THEN {At(done, t, "loop")}
              ELSE bme280_read(done, t))

-----------------------------------------------------------------------------
(* wait_status_clear: one look at the status register. *)
ClearOfUpdate(s, bit) == s.chip.at # "updating"   \* mutant: the wrong mask

Clear(s, bit) == s.chip.at # bit

wait_status_clear(s, t, a, bit, polls, failed, late, cleared) ==
  IF polls >= StatusPolls THEN {late}
  ELSE UNION {IF ~ok THEN {failed}
              ELSE IF Clear(s, bit) THEN cleared
              ELSE {[s EXCEPT !.pc[t] = Where(a, polls + 1, s.pc[t].attempt)]}
                : ok \in i2c_wait_done(s)}

(* A delay of t ends.  It lasts for a number of ticks, not for a time:     *)
(* tick_hook of board.c makes up to 64 ticks at once that were owed when   *)
(* the delay began, so nothing is known of how far the sensor has got.     *)
WakeUp(t) ==
  LET s == State
      w == pc[t]
  IN  /\ pc["bme"].at # "loop"
      /\ \/ /\ w.at \in {"reset", "updating"}
            /\ \E u \in wait_status_clear(s, t, "updating", "updating", w.polls,
                                          InitFailed(s, t, -3), InitFailed(s, t, -4),
                                          read_calibration(s, t)) :
                 Becomes(u)
         \/ /\ w.at \in {"measure", "measuring"}
            /\ \E u \in wait_status_clear(s, t, "measuring", "measuring", w.polls,
                                          bme280_print_sample(s, t, -3),
                                          bme280_print_sample(s, t, -6),
                                          ReadData(s, t, w.attempt)) :
                 Becomes(u)
         \/ /\ w.at = "again"
            /\ \E u \in (IF w.attempt < BME280_SAMPLE_RETRIES THEN Trigger(s, t, w.attempt + 1)
                         ELSE {bme280_print_sample(s, t, -5)}) :
                 Becomes(u)

(* The time-out of the timed rt_sem_take. *)
PeriodOver ==
  /\ pc["bme"].at = "period"
  /\ Becomes(At(State, "bme", "loop"))

(* The round of the bme thread: it takes what permits are left and waits,  *)
(* or begins a sample.                                                     *)
bme280_entry ==
  /\ pc["bme"].at = "loop"
  /\ IF app.periodic
     THEN \E u \in bme280_ensure_initialized(State, "bme") : Becomes(u)
     ELSE Becomes(At([State EXCEPT !.app.sem = 0], "bme", "outer"))

-----------------------------------------------------------------------------
(* rt_sem_release: a thread that waits gets the permit. *)
rt_sem_release(s) ==
  IF s.pc["bme"].at \in {"outer", "period"} THEN At(s, "bme", "loop")
  ELSE [s EXCEPT !.app.sem = @ + 1]

AtPrompt == pc["finsh"].at = "prompt" /\ pc["bme"].at # "loop"

(* Mutant: the thread is not woken. *)
StartSilently ==
  AtPrompt /\ ~app.periodic /\ Becomes([State EXCEPT !.app.periodic = TRUE])

BmeStart ==
  /\ AtPrompt /\ ~app.periodic /\ app.sem < MaxPermits
  /\ Becomes(rt_sem_release([State EXCEPT !.app.periodic = TRUE]))

BmeStop ==
  /\ AtPrompt /\ app.periodic /\ app.sem < MaxPermits
  /\ Becomes(rt_sem_release([State EXCEPT !.app.periodic = FALSE]))

BmeOnce ==
  /\ AtPrompt /\ ~app.periodic
  /\ \E u \in bme280_ensure_initialized(State, "finsh") : Becomes(u)

Init ==
  /\ app = [periodic |-> FALSE, initialized |-> FALSE, last_error |-> 0, sem |-> 0]
  /\ drv = [initialized |-> FALSE, calibrated |-> FALSE]
  /\ chip = [at |-> "idle", by |-> {}, queued |-> FALSE, data |-> "placeholder", fresh |-> {}]
  /\ pc = [t \in Thread |-> Where(IF t = "bme" THEN "outer" ELSE "prompt", 0, 0)]
  /\ sample = "none"

Next ==
  \/ ChipStep \/ bme280_entry \/ PeriodOver
  \/ \E t \in Thread : WakeUp(t)
  \/ BmeStart \/ BmeStop \/ BmeOnce

Spec == Init /\ [][Next]_vars

(* The scheduler runs what is ready and the idle thread ticks when nothing *)
(* is; a measurement ends.                                                 *)
Fairness ==
  /\ WF_vars(ChipStep) /\ WF_vars(bme280_entry) /\ WF_vars(PeriodOver)
  /\ \A t \in Thread : WF_vars(WakeUp(t))

FairSpec == Spec /\ Fairness

-----------------------------------------------------------------------------
(* The driver's loops stay within their limits (bme280.c), and the flags   *)
(* and last error of main.c within the codes the driver can return.        *)
TypeOK ==
  /\ app \in [periodic : BOOLEAN, initialized : BOOLEAN, last_error : -6..0, sem : 0..MaxPermits]
  /\ drv \in [initialized : BOOLEAN, calibrated : BOOLEAN]
  /\ \A t \in Thread : pc[t].polls \in 0..StatusPolls /\ pc[t].attempt \in 0..BME280_SAMPLE_RETRIES

(* What main.c believes of the driver is so: where bme_initialized is set, *)
(* the driver is initialized with the sensor's calibration, though the     *)
(* shell may begin an initialisation of its own in the middle of the       *)
(* thread's.  Otherwise bme280_read would refuse with -1 for ever: that    *)
(* error does not make main.c initialise again.                            *)
DriverReady == app.initialized => drv.initialized /\ drv.calibrated

(* A sample that is printed is computed with the sensor's calibration, and *)
(* its data is the result of the measurement bme280_read commanded last:   *)
(* whoever else measures or resets the sensor at the same time, however    *)
(* late it is, and however often the read is tried again.  One case is     *)
(* left, against bme280.c:326, "to avoid misreading at a critical moment": *)
(* rt_thread_mdelay(2) counts ticks, of which tick_hook makes up to 64 at  *)
(* once (board.c:87), and at the first look behind it the sensor may not   *)
(* have begun.  Behind a status that showed measuring nothing is early.    *)
SampleGood == sample \in {"none", "good", "early"}

(* Stopping is obeyed: the thread is back at its semaphore after a stop,   *)
(* whatever it was doing, unless it is started again.                      *)
StopObeyed == ~app.periodic ~> (pc["bme"].at = "outer" \/ app.periodic)

(* Starting is too: again and again the thread begins a round of its loop, *)
(* which takes a sample, until it is stopped.                              *)
StartObeyed == app.periodic ~> (pc["bme"].at = "loop" \/ ~app.periodic)

(* The driver (bme280.c) stays within its limits and is what main.c        *)
(* believes it to be.                                                      *)
DriverInv == TypeOK /\ DriverReady
=============================================================================
