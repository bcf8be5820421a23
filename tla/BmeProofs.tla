----------------------------- MODULE BmeProofs ------------------------------
(***************************************************************************)
(* The sensor application keeps its driver ready and prints good samples,  *)
(* for every number of polls, attempts and permits.                        *)
(***************************************************************************)
EXTENDS Bme, TLAPS

Place == {"outer", "period", "loop", "prompt", "reset", "updating", "measure", "measuring", "again"}
InRead == {"measure", "measuring", "again"}

AppType ==
  [periodic : BOOLEAN, initialized : BOOLEAN, last_error : -6..0, sem : 0..MaxPermits]
DrvType == [initialized : BOOLEAN, calibrated : BOOLEAN]
ChipType ==
  [at : {"idle", "starting", "measuring", "resetting", "updating"}, by : SUBSET Thread,
   queued : BOOLEAN, data : {"measured", "placeholder"}, fresh : SUBSET Thread]
PcType == [at : Place, polls : 0..StatusPolls, attempt : 0..BME280_SAMPLE_RETRIES]

StateType ==
  [app : AppType, drv : DrvType, chip : ChipType, pc : [Thread -> PcType],
   sample : {"none", "good", "early", "stale", "uncalibrated"}]

(* The flags agree, and whoever is in a read has the calibration: it is    *)
(* never taken back once it is there.                                      *)
FlagsAgree(s) ==
  /\ s.app.initialized => s.drv.initialized
  /\ s.drv.initialized => s.drv.calibrated
  /\ \A t \in Thread : s.pc[t].at \in InRead => s.drv.calibrated

(* A thread behind its forced mode either has the result of it to read, or *)
(* the sensor still shows that it owes it: nothing is there, it measures,  *)
(* or it is about to, and then the thread is in its first delay.           *)
Owed(s, t) ==
  \/ t \in s.chip.fresh
  \/ s.chip.data = "placeholder"
  \/ s.chip.at = "measuring"
  \/ NotBegun(s, t)

ReadsOwed(s) ==
  /\ s.chip.at \in {"resetting", "updating"} => s.chip.data = "placeholder"
  /\ \A t \in Thread : s.pc[t].at \in {"measure", "measuring"} => Owed(s, t)
  /\ s.sample \in {"none", "good", "early"}

Good(s) == s \in StateType /\ FlagsAgree(s) /\ ReadsOwed(s)

IInv == Good(State)

-----------------------------------------------------------------------------
(* A thread that goes somewhere outside a read leaves the rest alone. *)
LEMMA AtGood ==
  ASSUME NEW s, Good(s), NEW t \in Thread, NEW a \in Place \ InRead
  PROVE  Good(At(s, t, a))
<1> DEFINE u == At(s, t, a)
<1>1. u = [app |-> s.app, drv |-> s.drv, chip |-> s.chip, sample |-> s.sample,
           pc |-> [s.pc EXCEPT ![t] = Where(a, 0, 0)]]
  BY DEF Good, StateType, At
<1>2. Where(a, 0, 0) \in PcType
  BY BmeAssumption DEF Where, PcType
<1>3. u \in StateType
  BY <1>1, <1>2 DEF Good, StateType
<1>4. \A o \in Thread : u.pc[o] = s.pc[o] \/ (o = t /\ u.pc[o].at = a)
  BY <1>1 DEF Good, StateType, Where
<1> HIDE DEF u
<1>5. FlagsAgree(u)
  BY <1>1, <1>4 DEF Good, FlagsAgree, InRead
<1>6. ReadsOwed(u)
  BY <1>1, <1>4 DEF Good, ReadsOwed, Owed, NotBegun, InRead
<1> QED
  BY <1>3, <1>5, <1>6 DEF Good, u

(* So does one that leaves the driver. *)
LEMMA LeaveGood ==
  ASSUME NEW s, Good(s), NEW t \in Thread
  PROVE  Good(Leave(s, t))
<1> DEFINE u == [s EXCEPT !.app.sem = @ - 1]
<1>1. ASSUME s.app.sem > 0
      PROVE  Good(u)
  <2>1. u = [app |-> [s.app EXCEPT !.sem = @ - 1], drv |-> s.drv, chip |-> s.chip,
             sample |-> s.sample, pc |-> s.pc]
    BY DEF Good, StateType
  <2>2. u.app \in AppType /\ u.app.initialized = s.app.initialized
    BY <1>1, <2>1, BmeAssumption DEF Good, StateType, AppType
  <2>3. u \in StateType
    BY <2>1, <2>2 DEF Good, StateType
  <2> HIDE DEF u
  <2> QED
    BY <2>1, <2>2, <2>3 DEF Good, FlagsAgree, ReadsOwed, Owed, NotBegun
<1> HIDE DEF u
<1>2. {"prompt", "loop", "period"} \subseteq Place \ InRead
  BY DEF Place, InRead
<1> QED
  BY <1>1, <1>2, AtGood DEF Leave, u

LEMMA AppFlags ==
  ASSUME NEW a \in AppType, NEW e \in -6..0, NEW x \in BOOLEAN
  PROVE  [a EXCEPT !.last_error = e, !.initialized = x] \in AppType
BY DEF AppType

(* A result that is reported keeps the flags in step: bme_initialized is   *)
(* only ever taken back.                                                   *)
LEMMA ErrorGood ==
  ASSUME NEW s, Good(s), NEW result \in -6..0
  PROVE  /\ Good([s EXCEPT !.app.last_error = result])
         /\ Good([s EXCEPT !.app.last_error = result,
                           !.app.initialized = @ /\ result \notin {-2, -3, -4}])
<1> DEFINE u == [s EXCEPT !.app.last_error = result]
           v == [s EXCEPT !.app.last_error = result,
                          !.app.initialized = @ /\ result \notin {-2, -3, -4}]
<1>1. u = [s EXCEPT !.app = [s.app EXCEPT !.last_error = result]]
  BY DEF Good, StateType
<1>2. v = [s EXCEPT !.app = [s.app EXCEPT !.last_error = result,
                               !.initialized = @ /\ result \notin {-2, -3, -4}]]
  BY DEF Good, StateType
<1>3. ASSUME NEW a \in AppType, a.initialized => s.app.initialized
      PROVE  Good([s EXCEPT !.app = a])
  <2> DEFINE w == [s EXCEPT !.app = a]
  <2>1. w = [app |-> a, drv |-> s.drv, chip |-> s.chip, sample |-> s.sample, pc |-> s.pc]
    BY DEF Good, StateType
  <2>2. w \in StateType
    BY <2>1 DEF Good, StateType
  <2> HIDE DEF w
  <2>3. FlagsAgree(w) /\ ReadsOwed(w)
    BY <1>3, <2>1 DEF Good, FlagsAgree, ReadsOwed, Owed, NotBegun
  <2> QED
    BY <2>2, <2>3 DEF Good, w
<1>4. [s.app EXCEPT !.last_error = result] \in AppType
  BY DEF Good, StateType, AppType
<1>5. [s.app EXCEPT !.last_error = result,
                    !.initialized = @ /\ result \notin {-2, -3, -4}] \in AppType
  BY DEF Good, StateType, AppType
<1> QED
  BY <1>1, <1>2, <1>3, <1>4, <1>5 DEF Good, StateType, AppType

LEMMA PrintGood ==
  ASSUME NEW s, Good(s), NEW t \in Thread, NEW result \in -6..0
  PROVE  Good(bme280_print_sample(s, t, result)) /\ Good(InitFailed(s, t, result))
BY ErrorGood, LeaveGood DEF bme280_print_sample, InitFailed

(* A forced mode is owed to whoever gave it, and takes nothing that is     *)
(* owed to the other thread.                                               *)
LEMMA TriggerGood ==
  ASSUME NEW s, Good(s), s.drv.calibrated, NEW t \in Thread,
         NEW attempt \in 0..BME280_SAMPLE_RETRIES, NEW u \in Trigger(s, t, attempt)
  PROVE  Good(u)
<1>1. CASE u = bme280_print_sample(s, t, -2)
  BY <1>1, PrintGood
<1>2. CASE /\ s.chip.at # "resetting"
           /\ u = [ForceMode(s, t) EXCEPT !.pc[t] = Where("measure", 0, attempt)]
  <2> DEFINE c == [s.chip EXCEPT !.fresh = @ \ {t}]
             d == IF s.chip.at \in {"idle", "starting"}
                  THEN [c EXCEPT !.at = "starting", !.by = @ \cup {t}]
                  ELSE [c EXCEPT !.queued = TRUE]
  <2>1. d \in ChipType
    BY DEF Good, StateType, ChipType
  <2>2. /\ d.fresh = s.chip.fresh \ {t} /\ d.data = s.chip.data
        /\ d.at = IF s.chip.at \in {"idle", "starting"} THEN "starting" ELSE s.chip.at
        /\ d.by = IF s.chip.at \in {"idle", "starting"} THEN s.chip.by \cup {t} ELSE s.chip.by
    BY DEF Good, StateType, ChipType
  <2>3. ForceMode(s, t) = [s EXCEPT !.chip = d]
    BY DEF ForceMode, Good, StateType, ChipType
  <2>4. u = [app |-> s.app, drv |-> s.drv, chip |-> d, sample |-> s.sample,
             pc |-> [s.pc EXCEPT ![t] = Where("measure", 0, attempt)]]
    BY <1>2, <2>3 DEF Good, StateType
  <2> HIDE DEF d
  <2>5. Where("measure", 0, attempt) \in PcType
    BY BmeAssumption DEF Where, PcType, Place
  <2>6. u \in StateType
    BY <2>1, <2>4, <2>5 DEF Good, StateType
  <2>7. \A o \in Thread : (o = t /\ u.pc[o].at = "measure") \/ (o # t /\ u.pc[o] = s.pc[o])
    BY <2>4 DEF Good, StateType, Where
  <2>8. FlagsAgree(u)
    BY <2>4 DEF Good, FlagsAgree
  <2>9. ASSUME ReadsOwed(s)
        PROVE  ReadsOwed(u)
    <3>1. ASSUME NEW o \in Thread, u.pc[o].at \in {"measure", "measuring"}
          PROVE  Owed(u, o)
      <4>1. CASE o = t
        BY <4>1, <2>2, <2>4, <2>7, <2>9, <1>2 DEF ReadsOwed, Owed, NotBegun, Good, StateType, ChipType
      <4>2. CASE o # t
        BY <4>2, <3>1, <2>2, <2>4, <2>7, <2>9 DEF ReadsOwed, Owed, NotBegun, Good, StateType, ChipType
      <4> QED
        BY <4>1, <4>2
    <3> QED
      BY <3>1, <2>2, <2>4, <2>9 DEF ReadsOwed
  <2> QED
    BY <2>6, <2>8, <2>9 DEF Good
<1> QED
  BY <1>1, <1>2 DEF Trigger, i2c_wait_done

LEMMA ReadGood ==
  ASSUME NEW s, Good(s), NEW t \in Thread, NEW u \in bme280_read(s, t)
  PROVE  Good(u)
<1>1. 1 \in 0..BME280_SAMPLE_RETRIES
  BY BmeAssumption
<1> QED
  BY <1>1, TriggerGood, PrintGood DEF bme280_read, Good, FlagsAgree

(* What is read when the sensor does not measure is the result of the      *)
(* thread's own command, or the sensor has not begun it.                   *)
LEMMA ReadDataGood ==
  ASSUME NEW s, Good(s), NEW t \in Thread, NEW attempt \in 0..BME280_SAMPLE_RETRIES,
         s.pc[t].at \in {"measure", "measuring"}, s.chip.at # "measuring",
         NEW u \in ReadData(s, t, attempt)
  PROVE  Good(u)
<1>1. CASE u = bme280_print_sample(s, t, -4)
  BY <1>1, PrintGood
<1>2. CASE u = [s EXCEPT !.pc[t] = Where("again", 0, attempt)]
  <2>1. u = [app |-> s.app, drv |-> s.drv, chip |-> s.chip, sample |-> s.sample,
             pc |-> [s.pc EXCEPT ![t] = Where("again", 0, attempt)]]
    BY <1>2 DEF Good, StateType
  <2>2. Where("again", 0, attempt) \in PcType
    BY BmeAssumption DEF Where, PcType, Place
  <2>3. u \in StateType
    BY <2>1, <2>2 DEF Good, StateType
  <2>4. \A o \in Thread : u.pc[o] = s.pc[o] \/ (o = t /\ u.pc[o].at = "again")
    BY <2>1 DEF Good, StateType, Where
  <2>5. FlagsAgree(u)
    BY <2>1, <2>4 DEF Good, FlagsAgree, InRead
  <2>6. ReadsOwed(u)
    BY <2>1, <2>4 DEF Good, ReadsOwed, Owed, NotBegun
  <2> QED
    BY <2>3, <2>5, <2>6 DEF Good
<1>3. ASSUME s.chip.data # "placeholder"
      PROVE  Good(bme280_print_sample(
               [s EXCEPT !.sample = IF ~s.drv.calibrated THEN "uncalibrated"
                                    ELSE IF t \in s.chip.fresh THEN "good"
                                    ELSE IF NotBegun(s, t) THEN "early" ELSE "stale"], t, 0))
  <2> DEFINE x == IF ~s.drv.calibrated THEN "uncalibrated"
                  ELSE IF t \in s.chip.fresh THEN "good"
                  ELSE IF NotBegun(s, t) THEN "early" ELSE "stale"
             v == [s EXCEPT !.sample = x]
  <2>1. v = [app |-> s.app, drv |-> s.drv, chip |-> s.chip, sample |-> x, pc |-> s.pc]
    BY DEF Good, StateType
  <2>2. v \in StateType
    BY <2>1 DEF Good, StateType
  <2>3. s.drv.calibrated
    BY DEF Good, FlagsAgree, InRead
  <2>4. t \in s.chip.fresh \/ NotBegun(s, t)
    BY <1>3 DEF Good, ReadsOwed, Owed, NotBegun
  <2>5. x \in {"good", "early"}
    BY <2>3, <2>4
  <2> HIDE DEF x
  <2>6. Good(v)
    BY <2>1, <2>2, <2>5 DEF Good, FlagsAgree, ReadsOwed, Owed, NotBegun
  <2> HIDE DEF v
  <2> QED
    BY <2>6, PrintGood DEF x, v
<1> QED
  BY <1>1, <1>2, <1>3 DEF ReadData

(* What an assignment to one flag leaves. *)
LEMMA OneFlag ==
  ASSUME NEW s \in StateType, NEW x
  PROVE  /\ [s EXCEPT !.drv.initialized = x] =
              [app |-> s.app, drv |-> [s.drv EXCEPT !.initialized = x],
               chip |-> s.chip, sample |-> s.sample, pc |-> s.pc]
         /\ [s EXCEPT !.drv.calibrated = x] =
              [app |-> s.app, drv |-> [s.drv EXCEPT !.calibrated = x],
               chip |-> s.chip, sample |-> s.sample, pc |-> s.pc]
         /\ [s EXCEPT !.chip.queued = x] =
              [app |-> s.app, drv |-> s.drv, chip |-> [s.chip EXCEPT !.queued = x],
               sample |-> s.sample, pc |-> s.pc]
         /\ [s EXCEPT !.app.initialized = x] =
              [app |-> [s.app EXCEPT !.initialized = x], drv |-> s.drv,
               chip |-> s.chip, sample |-> s.sample, pc |-> s.pc]
BY DEF StateType

(* A driver with the calibration may be marked initialized, and then main.c *)
(* may hold it for that; a forced mode that waits may be taken back, since  *)
(* nothing is there to read before the one that waits is done.              *)
LEMMA FlagGood ==
  ASSUME NEW s, Good(s), s.drv.calibrated
  PROVE  /\ Good([s EXCEPT !.drv.initialized = TRUE])
         /\ [s EXCEPT !.drv.initialized = TRUE].drv.initialized
         /\ s.drv.initialized => Good([s EXCEPT !.app.initialized = TRUE])
         /\ Good(SleepMode(s)) /\ SleepMode(s).drv = s.drv
<1> s \in StateType
  BY DEF Good
<1>1. Good([s EXCEPT !.drv.initialized = TRUE])
      /\ [s EXCEPT !.drv.initialized = TRUE].drv.initialized
  <2> DEFINE u == [s EXCEPT !.drv.initialized = TRUE]
             d == [s.drv EXCEPT !.initialized = TRUE]
  <2>1. u = [app |-> s.app, drv |-> d, chip |-> s.chip, sample |-> s.sample, pc |-> s.pc]
    BY OneFlag, Zenon
  <2>2. d \in DrvType /\ d.initialized /\ d.calibrated
    BY DEF StateType, DrvType
  <2> HIDE DEF u, d
  <2>3. u \in StateType /\ u.drv = d
    BY <2>1, <2>2 DEF StateType
  <2>4. FlagsAgree(u) /\ ReadsOwed(u)
    BY <2>1, <2>2 DEF Good, FlagsAgree, ReadsOwed, Owed, NotBegun
  <2> QED
    BY <2>2, <2>3, <2>4 DEF Good, u
<1>2. ASSUME s.drv.initialized
      PROVE  Good([s EXCEPT !.app.initialized = TRUE])
  <2> DEFINE u == [s EXCEPT !.app.initialized = TRUE]
             a == [s.app EXCEPT !.initialized = TRUE]
  <2>1. u = [app |-> a, drv |-> s.drv, chip |-> s.chip, sample |-> s.sample, pc |-> s.pc]
    BY OneFlag, Zenon
  <2>2. a \in AppType
    BY DEF StateType, AppType
  <2> HIDE DEF u, a
  <2>3. u \in StateType
    BY <2>1, <2>2 DEF StateType
  <2>4. FlagsAgree(u) /\ ReadsOwed(u)
    BY <1>2, <2>1 DEF Good, FlagsAgree, ReadsOwed, Owed, NotBegun
  <2> QED
    BY <2>3, <2>4 DEF Good, u
<1>3. Good(SleepMode(s)) /\ SleepMode(s).drv = s.drv
  <2> DEFINE u == SleepMode(s)
             c == [s.chip EXCEPT !.queued = FALSE]
  <2>1. u = [app |-> s.app, drv |-> s.drv, chip |-> c, sample |-> s.sample, pc |-> s.pc]
    BY OneFlag, Zenon DEF SleepMode
  <2>2. /\ c \in ChipType /\ c.at = s.chip.at /\ c.by = s.chip.by
        /\ c.data = s.chip.data /\ c.fresh = s.chip.fresh
    BY DEF StateType, ChipType
  <2> HIDE DEF u, c
  <2>3. u \in StateType
    BY <2>1, <2>2 DEF StateType
  <2>4. FlagsAgree(u) /\ ReadsOwed(u)
    BY <2>1, <2>2 DEF Good, FlagsAgree, ReadsOwed, Owed, NotBegun
  <2> QED
    BY <2>1, <2>3, <2>4 DEF Good, u
<1> QED
  BY <1>1, <1>2, <1>3

(* A reset takes the data away, so nothing stale is left to read, and it   *)
(* begins only where main.c holds the driver for not initialized.          *)
LEMMA InitGood ==
  ASSUME NEW s, Good(s), NEW t \in Thread, ~s.app.initialized, NEW u \in bme280_init(s, t)
  PROVE  Good(u)
<1> DEFINE v == [s EXCEPT !.drv.initialized = FALSE]
<1>1. v = [app |-> s.app, drv |-> [s.drv EXCEPT !.initialized = FALSE],
           chip |-> s.chip, sample |-> s.sample, pc |-> s.pc]
  BY OneFlag, Zenon DEF Good
<1>2. v \in StateType
  BY <1>1 DEF Good, StateType, DrvType
<1>3. ~v.drv.initialized /\ v.drv.calibrated = s.drv.calibrated
  BY <1>1 DEF Good, StateType, DrvType
<1> HIDE DEF v
<1>4. Good(v)
  BY <1>1, <1>2, <1>3 DEF Good, FlagsAgree, ReadsOwed, Owed, NotBegun
<1>5. Good(Reset(v))
  <2> DEFINE c == [at |-> "resetting", by |-> {}, queued |-> FALSE, data |-> "placeholder",
                   fresh |-> v.chip.fresh]
             r == Reset(v)
  <2>1. r = [v EXCEPT !.chip = c]
    BY DEF Reset
  <2>2. c \in ChipType
    BY <1>2 DEF StateType, ChipType
  <2>3. c.at = "resetting" /\ c.data = "placeholder"
    OBVIOUS
  <2> HIDE DEF c
  <2>4. r = [app |-> v.app, drv |-> v.drv, chip |-> c, sample |-> v.sample, pc |-> v.pc]
    BY <1>2, <2>1 DEF StateType
  <2>5. r \in StateType
    BY <1>2, <2>2, <2>4 DEF StateType
  <2> HIDE DEF r
  <2>6. FlagsAgree(r)
    BY <1>4, <2>4 DEF Good, FlagsAgree
  <2>7. ReadsOwed(r)
    BY <1>4, <2>3, <2>4 DEF Good, ReadsOwed, Owed, NotBegun
  <2> QED
    BY <2>5, <2>6, <2>7 DEF Good, r
<1>6. "reset" \in Place \ InRead
  BY DEF Place, InRead
<1>7. CASE u = At(Reset(v), t, "reset")
  BY <1>5, <1>6, <1>7, AtGood
<1>8. ASSUME NEW result \in {-1, -2}, u = InitFailed(v, t, result)
      PROVE  Good(u)
  <2>1. result \in -6..0
    OBVIOUS
  <2> QED
    BY <1>4, <1>8, <2>1, PrintGood
<1> QED
  BY <1>7, <1>8 DEF bme280_init, InitFailed, v

LEMMA EnsureGood ==
  ASSUME NEW s, Good(s), NEW t \in Thread, NEW u \in bme280_ensure_initialized(s, t)
  PROVE  Good(u)
BY ReadGood, InitGood DEF bme280_ensure_initialized

(* The calibration is read when the sensor no longer copies it, so it is   *)
(* complete before anyone is told that the driver is initialized.          *)
LEMMA CalibrationGood ==
  ASSUME NEW s, Good(s), NEW t \in Thread, s.chip.at # "updating",
         NEW u \in read_calibration(s, t)
  PROVE  Good(u)
<1> DEFINE c == [s EXCEPT !.drv.calibrated = s.chip.at # "updating"]
           k == [s EXCEPT !.drv.calibrated = @ /\ c.drv.calibrated]
           done == [SleepMode(c) EXCEPT !.drv.initialized = TRUE, !.app.last_error = 0,
                                        !.app.initialized = TRUE]
<1>1. c = [app |-> s.app, drv |-> [s.drv EXCEPT !.calibrated = TRUE],
           chip |-> s.chip, sample |-> s.sample, pc |-> s.pc]
  <2>1. (s.chip.at # "updating") = TRUE
    OBVIOUS
  <2>2. c = [s EXCEPT !.drv.calibrated = TRUE]
    BY <2>1
  <2> QED
    BY <2>2, OneFlag, Zenon DEF Good
<1>2. c \in StateType /\ c.drv.calibrated
  BY <1>1 DEF Good, StateType, DrvType
<1>3. k = s
  <2>1. s.drv = [s.drv EXCEPT !.calibrated = @ /\ c.drv.calibrated]
    BY <1>2 DEF Good, StateType, DrvType
  <2> HIDE DEF c
  <2>2. k = [s EXCEPT !.drv = [s.drv EXCEPT !.calibrated = @ /\ c.drv.calibrated]]
    BY DEF Good, StateType
  <2> QED
    BY <2>1, <2>2 DEF Good, StateType
<1>4. c.drv.initialized = s.drv.initialized
  BY <1>1 DEF Good, StateType, DrvType
<1> HIDE DEF c, k
<1>5. Good(c)
  BY <1>1, <1>2, <1>4 DEF Good, FlagsAgree, ReadsOwed, Owed, NotBegun
<1>6. Good(done)
  <2> DEFINE m == SleepMode(c)
             d1 == [m EXCEPT !.drv.initialized = TRUE]
             d2 == [d1 EXCEPT !.app.last_error = 0]
  <2>1. Good(m) /\ m.drv.calibrated
    BY <1>2, <1>5, FlagGood
  <2> HIDE DEF m
  <2>2. Good(d1) /\ d1.drv.initialized
    BY <2>1, FlagGood
  <2> HIDE DEF d1
  <2>3. 0 \in -6..0
    OBVIOUS
  <2>4. Good(d2) /\ d2.drv = d1.drv
    BY <2>2, <2>3, ErrorGood DEF Good, StateType
  <2> HIDE DEF d2
  <2>5. d2.drv.calibrated
    BY <2>2, <2>4 DEF Good, FlagsAgree
  <2>6. Good([d2 EXCEPT !.app.initialized = TRUE])
    BY <2>2, <2>4, <2>5, FlagGood
  <2>7. done = [d2 EXCEPT !.app.initialized = TRUE]
    BY Zenon DEF m, d1, d2
  <2> QED
    BY <2>6, <2>7
<1> HIDE DEF done
<1>7. "loop" \in Place \ InRead
  BY DEF Place, InRead
<1>8. \/ u = InitFailed(k, t, -5)
      \/ u = InitFailed(c, t, -6)
      \/ u = At(done, t, "loop")
      \/ u \in bme280_read(done, t)
  BY DEF read_calibration, c, k, done
<1>9. -5 \in -6..0 /\ -6 \in -6..0
  OBVIOUS
<1>10. Good(InitFailed(k, t, -5)) /\ Good(InitFailed(c, t, -6))
  BY <1>3, <1>5, <1>9, PrintGood
<1> QED
  BY <1>6, <1>7, <1>8, <1>10, AtGood, ReadGood

-----------------------------------------------------------------------------
(* One look at the status register: it counts up to the limit only, and    *)
(* whoever looks again at a measurement is still owed one.                 *)
LEMMA StatusGood ==
  ASSUME NEW s, Good(s), NEW t \in Thread, NEW a \in {"updating", "measuring"}, NEW bit,
         a = "measuring" => bit = "measuring" /\ s.pc[t].at \in {"measure", "measuring"},
         NEW failed, Good(failed), NEW late, Good(late),
         NEW cleared, Clear(s, bit) => \A v \in cleared : Good(v),
         NEW u \in wait_status_clear(s, t, a, bit, s.pc[t].polls, failed, late, cleared)
  PROVE  Good(u)
<1> DEFINE n == s.pc[t].polls + 1
           w == [s EXCEPT !.pc[t] = Where(a, n, s.pc[t].attempt)]
<1>1. \/ u = failed
      \/ u = late
      \/ Clear(s, bit) /\ u \in cleared
      \/ u = w /\ ~(s.pc[t].polls >= StatusPolls) /\ ~Clear(s, bit)
  BY Zenon DEF wait_status_clear
<1>2. ASSUME ~(s.pc[t].polls >= StatusPolls), ~Clear(s, bit)
      PROVE  Good(w)
  <2>1. w = [app |-> s.app, drv |-> s.drv, chip |-> s.chip, sample |-> s.sample,
             pc |-> [s.pc EXCEPT ![t] = Where(a, n, s.pc[t].attempt)]]
    BY DEF Good, StateType
  <2>2. s.pc[t] \in PcType
    BY DEF Good, StateType
  <2>3. Where(a, n, s.pc[t].attempt) \in PcType
    BY <1>2, <2>2, BmeAssumption DEF Where, PcType, Place
  <2>4. w \in StateType
    BY <2>1, <2>3 DEF Good, StateType
  <2>5. \A o \in Thread : (o # t /\ w.pc[o] = s.pc[o]) \/ (o = t /\ w.pc[o].at = a)
    BY <2>1 DEF Good, StateType, Where
  <2> HIDE DEF w
  <2>6. FlagsAgree(w)
    BY <2>1, <2>5 DEF Good, FlagsAgree, InRead
  <2>7. ASSUME ReadsOwed(s)
        PROVE  ReadsOwed(w)
    <3>1. ASSUME NEW o \in Thread, w.pc[o].at \in {"measure", "measuring"}
          PROVE  Owed(w, o)
      <4>1. CASE o = t
        BY <4>1, <3>1, <1>2, <2>1, <2>5 DEF Clear, Owed
      <4>2. CASE o # t
        BY <4>2, <3>1, <2>1, <2>5, <2>7 DEF ReadsOwed, Owed, NotBegun
      <4> QED
        BY <4>1, <4>2
    <3> QED
      BY <3>1, <2>1, <2>7 DEF ReadsOwed
  <2> QED
    BY <2>4, <2>6, <2>7 DEF Good
<1> HIDE DEF n, w
<1> QED
  BY <1>1, <1>2

(* A delay ends. *)
LEMMA WakeUpGood ==
  ASSUME IInv, NEW t \in Thread, WakeUp(t)
  PROVE  \E u : Good(u) /\ Becomes(u)
<1> DEFINE s == State
<1>1. Good(s) /\ pc[t] = s.pc[t] /\ chip = s.chip
  BY DEF IInv, State
<1>2. s.pc[t].attempt \in 0..BME280_SAMPLE_RETRIES
  BY <1>1 DEF Good, StateType, PcType
<1>3. \A r \in -6..0 : Good(bme280_print_sample(s, t, r)) /\ Good(InitFailed(s, t, r))
  BY <1>1, PrintGood
<1>5. CASE s.pc[t].at \in {"reset", "updating"}
  <2>1. PICK u \in wait_status_clear(s, t, "updating", "updating", s.pc[t].polls,
                       InitFailed(s, t, -3), InitFailed(s, t, -4), read_calibration(s, t)) :
          Becomes(u)
    BY <1>1, <1>5 DEF WakeUp
  <2>2. Clear(s, "updating") => \A v \in read_calibration(s, t) : Good(v)
    BY <1>1, CalibrationGood DEF Clear
  <2> HIDE DEF s
  <2>3. Good(InitFailed(s, t, -3)) /\ Good(InitFailed(s, t, -4))
    BY <1>3
  <2>4. Good(u)
    BY <1>1, <2>1, <2>2, <2>3, StatusGood
  <2> QED
    BY <2>1, <2>4
<1>6. CASE s.pc[t].at \in {"measure", "measuring"}
  <2>1. PICK u \in wait_status_clear(s, t, "measuring", "measuring", s.pc[t].polls,
                       bme280_print_sample(s, t, -3), bme280_print_sample(s, t, -6),
                       ReadData(s, t, s.pc[t].attempt)) :
          Becomes(u)
    BY <1>1, <1>6 DEF WakeUp
  <2> HIDE DEF s
  <2>2. Clear(s, "measuring") => \A v \in ReadData(s, t, s.pc[t].attempt) : Good(v)
    BY <1>1, <1>2, <1>6, ReadDataGood DEF Clear
  <2>3. Good(bme280_print_sample(s, t, -3)) /\ Good(bme280_print_sample(s, t, -6))
    BY <1>3
  <2>4. Good(u)
    BY <1>1, <1>6, <2>1, <2>2, <2>3, StatusGood
  <2> QED
    BY <2>1, <2>4
<1>7. CASE s.pc[t].at = "again"
  <2>1. PICK u \in (IF s.pc[t].attempt < BME280_SAMPLE_RETRIES
                    THEN Trigger(s, t, s.pc[t].attempt + 1)
                    ELSE {bme280_print_sample(s, t, -5)}) : Becomes(u)
    BY <1>1, <1>7 DEF WakeUp
  <2> HIDE DEF s
  <2>2. s.drv.calibrated
    BY <1>1, <1>7 DEF Good, FlagsAgree, InRead
  <2>3. CASE s.pc[t].attempt < BME280_SAMPLE_RETRIES
    <3>1. s.pc[t].attempt + 1 \in 0..BME280_SAMPLE_RETRIES
      BY <1>2, <2>3, BmeAssumption
    <3> QED
      BY <1>1, <2>1, <2>2, <2>3, <3>1, TriggerGood
  <2>4. CASE ~(s.pc[t].attempt < BME280_SAMPLE_RETRIES)
    BY <1>3, <2>1, <2>4
  <2> QED
    BY <2>3, <2>4
<1> QED
  BY <1>1, <1>5, <1>6, <1>7 DEF WakeUp

(* The commands of the shell that only set the flag and give a permit. *)
LEMMA CommandGood ==
  ASSUME NEW s, Good(s), s.app.sem < MaxPermits, NEW x \in BOOLEAN
  PROVE  Good(rt_sem_release([s EXCEPT !.app.periodic = x]))
<1> DEFINE u == [s EXCEPT !.app.periodic = x]
           v == [u EXCEPT !.app.sem = @ + 1]
           a == [s.app EXCEPT !.periodic = x]
           b == [a EXCEPT !.sem = @ + 1]
<1>1. u = [app |-> a, drv |-> s.drv, chip |-> s.chip, sample |-> s.sample, pc |-> s.pc]
  BY DEF Good, StateType
<1>2. a \in AppType /\ a.initialized = s.app.initialized /\ a.sem = s.app.sem
  BY DEF Good, StateType, AppType
<1> HIDE DEF a
<1>3. b \in AppType /\ b.initialized = s.app.initialized
  BY <1>2, BmeAssumption DEF AppType
<1> HIDE DEF u
<1>4. v = [app |-> b, drv |-> s.drv, chip |-> s.chip, sample |-> s.sample, pc |-> s.pc]
  BY <1>1
<1> HIDE DEF v, b
<1>5. Good(u)
  <2>1. u \in StateType
    BY <1>1, <1>2 DEF Good, StateType
  <2> QED
    BY <1>1, <1>2, <2>1 DEF Good, FlagsAgree, ReadsOwed, Owed, NotBegun
<1>6. Good(v)
  <2>1. v \in StateType
    BY <1>4, <1>3 DEF Good, StateType
  <2> QED
    BY <1>3, <1>4, <2>1 DEF Good, FlagsAgree, ReadsOwed, Owed, NotBegun
<1>7. Good(At(u, "bme", "loop"))
  BY <1>5, AtGood DEF Place, InRead, Thread
<1> QED
  BY <1>6, <1>7 DEF rt_sem_release, u, v

(* The round of the thread and the command that takes one sample. *)
LEMMA EntryGood ==
  ASSUME IInv, bme280_entry \/ BmeOnce \/ PeriodOver
  PROVE  \E u : Good(u) /\ Becomes(u)
<1> DEFINE s == State
           z == [s EXCEPT !.app.sem = 0]
<1>1. Good(s)
  BY DEF IInv
<1>2. "bme" \in Thread /\ "finsh" \in Thread
  BY DEF Thread
<1>3. "outer" \in Place \ InRead /\ "loop" \in Place \ InRead
  BY DEF Place, InRead
<1>4. Good(At(z, "bme", "outer"))
  <2> HIDE DEF s
  <2>1. z = [app |-> [s.app EXCEPT !.sem = 0], drv |-> s.drv, chip |-> s.chip,
             sample |-> s.sample, pc |-> s.pc]
    BY <1>1 DEF Good, StateType
  <2>2. z.app \in AppType /\ z.app.initialized = s.app.initialized
    BY <1>1, <2>1, BmeAssumption DEF Good, StateType, AppType
  <2>3. z \in StateType
    BY <1>1, <2>1, <2>2 DEF Good, StateType
  <2> HIDE DEF z
  <2>4. Good(z)
    BY <1>1, <2>1, <2>2, <2>3 DEF Good, FlagsAgree, ReadsOwed, Owed, NotBegun
  <2> QED
    BY <1>2, <1>3, <2>4, AtGood
<1>5. Good(At(s, "bme", "loop"))
  BY <1>1, <1>2, <1>3, AtGood
<1>6. \A t \in Thread : \A u \in bme280_ensure_initialized(s, t) : Good(u)
  BY <1>1, EnsureGood
<1> QED
  BY <1>2, <1>4, <1>5, <1>6 DEF bme280_entry, BmeOnce, PeriodOver

(* The sensor's own steps.  One that measures owes everybody nothing when  *)
(* it is done.                                                             *)
LEMMA ChipGood ==
  ASSUME IInv, ChipStep
  PROVE  IInv'
<1>1. chip \in ChipType /\ pc \in [Thread -> PcType]
  BY DEF IInv, Good, State, StateType
<1>2. chip' \in ChipType
  BY <1>1 DEF ChipStep, ChipType
<1>3. State' \in StateType
  BY <1>2 DEF ChipStep, IInv, Good, State, StateType
<1>4. FlagsAgree(State)'
  BY DEF ChipStep, IInv, Good, State, FlagsAgree
<1>5. ASSUME ReadsOwed(State)
      PROVE  ReadsOwed(State)'
  <2>1. sample' \in {"none", "good", "early"}
    BY <1>5 DEF ChipStep, ReadsOwed, State
  <2>2. chip'.at \in {"resetting", "updating"} => chip'.data = "placeholder"
    BY <1>1, <1>5 DEF ChipStep, ReadsOwed, State, ChipType
  <2>3. ASSUME NEW t \in Thread, pc[t].at \in {"measure", "measuring"}
        PROVE  \/ t \in chip'.fresh \/ chip'.data = "placeholder" \/ chip'.at = "measuring"
               \/ chip'.at = "starting" /\ t \in chip'.by /\ pc[t].at = "measure"
    <3>1. \/ t \in chip.fresh \/ chip.data = "placeholder" \/ chip.at = "measuring"
          \/ chip.at = "starting" /\ t \in chip.by /\ pc[t].at = "measure"
      BY <1>5, <2>3 DEF ReadsOwed, Owed, NotBegun, State
    <3>2. chip.at = "updating" => chip.data = "placeholder"
      BY <1>5 DEF ReadsOwed, State
    <3> QED
      BY <1>1, <3>1, <3>2 DEF ChipStep, ChipType
  <2> QED
    BY <2>1, <2>2, <2>3 DEF ChipStep, ReadsOwed, Owed, NotBegun, State
<1> QED
  BY <1>3, <1>4, <1>5 DEF IInv, Good

-----------------------------------------------------------------------------
LEMMA InitIInv == Init => IInv
<1> SUFFICES ASSUME Init PROVE IInv
  OBVIOUS
<1>1. app \in AppType
  BY BmeAssumption DEF Init, AppType
<1>2. drv \in DrvType
  BY DEF Init, DrvType
<1>3. chip \in ChipType
  BY DEF Init, ChipType
<1>4. pc \in [Thread -> PcType]
  BY BmeAssumption DEF Init, Thread, Where, PcType, Place
<1>5. State \in StateType
  BY <1>1, <1>2, <1>3, <1>4 DEF Init, State, StateType
<1>6. FlagsAgree(State) /\ ReadsOwed(State)
  BY DEF Init, State, FlagsAgree, ReadsOwed, Owed, NotBegun, Where, InRead
<1> QED
  BY <1>5, <1>6 DEF IInv, Good

LEMMA NextIInv == IInv /\ [Next]_vars => IInv'
<1> SUFFICES ASSUME IInv, [Next]_vars
             PROVE  IInv'
  OBVIOUS
<1>1. ASSUME NEW u, Good(u), Becomes(u)
      PROVE  IInv'
  <2>1. State' = u
    BY <1>1 DEF Good, StateType, State, Becomes
  <2> QED
    BY <1>1, <2>1 DEF IInv, Good, FlagsAgree, ReadsOwed, Owed, NotBegun
<1>2. CASE ChipStep
  BY <1>2, ChipGood
<1>3. CASE bme280_entry \/ BmeOnce \/ PeriodOver
  BY <1>1, <1>3, EntryGood
<1>4. ASSUME NEW t \in Thread, WakeUp(t)
      PROVE  IInv'
  BY <1>1, <1>4, WakeUpGood
<1>5. CASE BmeStart
  <2>1. Good(State) /\ State.app.sem < MaxPermits
    BY <1>5 DEF IInv, BmeStart, State
  <2>2. Good(rt_sem_release([State EXCEPT !.app.periodic = TRUE]))
    BY <2>1, CommandGood
  <2> QED
    BY <1>1, <1>5, <2>2 DEF BmeStart
<1>6. CASE BmeStop
  <2>1. Good(State) /\ State.app.sem < MaxPermits
    BY <1>6 DEF IInv, BmeStop, State
  <2>2. Good(rt_sem_release([State EXCEPT !.app.periodic = FALSE]))
    BY <2>1, CommandGood
  <2> QED
    BY <1>1, <1>6, <2>2 DEF BmeStop
<1>7. CASE UNCHANGED vars
  BY <1>7 DEF vars, IInv, State, Good, FlagsAgree, ReadsOwed, Owed, NotBegun
<1> QED
  BY <1>2, <1>3, <1>4, <1>5, <1>6, <1>7 DEF Next

LEMMA SpecIInv == Spec => []IInv
BY InitIInv, NextIInv, PTL DEF Spec

(* bme280.c and main.c: the loops stay within their limits, and where      *)
(* bme_initialized is set the driver is initialized with the sensor's      *)
(* calibration, for every limit and however the two threads interleave.    *)
THEOREM BmeDriver == Spec => []DriverInv
<1>1. IInv => DriverInv
  <2> SUFFICES ASSUME IInv PROVE DriverInv
    OBVIOUS
  <2>1. app \in AppType /\ drv \in DrvType /\ pc \in [Thread -> PcType]
    BY DEF IInv, Good, State, StateType
  <2>2. TypeOK
    BY <2>1 DEF TypeOK, AppType, DrvType, PcType
  <2>3. DriverReady
    BY DEF DriverReady, IInv, Good, State, FlagsAgree
  <2> QED
    BY <2>2, <2>3 DEF DriverInv
<1> QED
  BY <1>1, SpecIInv, PTL

(* bme280_read: a sample that is printed is computed with the calibration  *)
(* and, once the sensor has begun what the thread that prints it commanded,*)
(* from the result of that command, for every limit, however short the     *)
(* delays and however the two threads interleave.                          *)
THEOREM BmeSample == Spec => []SampleGood
<1>1. IInv => SampleGood
  BY DEF IInv, Good, ReadsOwed, State, SampleGood
<1> QED
  BY <1>1, SpecIInv, PTL
=============================================================================
