---------------------------- MODULE DeviceControl ----------------------------
(***************************************************************************)
(* What the control functions of librtlsdr make of the dongle: frequency,  *)
(* sample rate, correction, crystals, bandwidth, gain mode, direct         *)
(* sampling and offset tuning, each a sequence of control transfers to the *)
(* demodulator and, through its I2C repeater, to the tuner.  Any transfer  *)
(* may fail, alone or with all that follow, and the functions take that in *)
(* different ways; what the driver remembers and what the chip does may    *)
(* then differ.  The calls come one at a time, in any order: rtl_ais_main  *)
(* makes the first ones, command_worker makes those that a client asks for.*)
(*                                                                         *)
(* Frequencies are small numbers.  Writes that have an effect together are *)
(* one transfer here; when it fails, what they write is Torn.              *)
(***************************************************************************)
EXTENDS Integers, TLC

CONSTANTS
  Tuners,     \* a subset of Supported
  Freqs, Rates, Widths,  \* what callers ask for
  Narrow,     \* the bandwidths for which the tuner takes its narrow filter
  Crystals, Ppms,
  Torn, Unlocked,
  Gone,          \* bound: more transfers than any call makes
  MaxFaults      \* bound: the calls in which transfers fail, or no PLL locks

\* enum rtlsdr_tuner; "none" is a dongle whose tuner nobody recognised.
Supported == {"R82xx", "E4000", "FC0012", "FC0013", "FC2580", "none"}

ASSUME DeviceControlAssumption ==
  /\ Tuners \subseteq Supported
  /\ Freqs \cup Rates \cup Widths \subseteq Nat \ {0}
  /\ 0 \notin Crystals
  /\ Ppms \subseteq Int
  /\ \A m \in {Torn, Unlocked} :
       m \notin [f : Nat, clk : (Crystals \cup {0}) \X (Ppms \cup {0})]
  /\ Gone \in Nat /\ MaxFaults \in Nat

\* dev->offs_freq with offset tuning, which divides integers.
Offset(rate) == ((rate \div 2) * 170) \div 100

\* R82XX_IF_FREQ, the intermediate frequency that r82xx_init chooses.
InitIf == 3

\* r82xx_if_freq_table, for the bandwidth r82xx_set_bandwidth is asked for.
Intermediate(width) == IF width \in Narrow THEN 2 ELSE 4

\* The filter of the E4000 that is nearest to a bandwidth.
Filter(width) == IF width \in Narrow THEN 1 ELSE 2

VARIABLES
  tuner,   \* dev->tuner_type
  dev,     \* struct rtlsdr_dev: rate, freq, bw, offs_freq, corr, rtl_xtal,
           \* tun_xtal, direct_sampling
  tun,     \* the tuner's state in the driver: int_freq, gain_mode, xtal; the
           \* drivers of the FC tuners have none
  chip,    \* registers of the demodulator and the tuner
  faults,  \* calls that may still suffer a failure
  hidden   \* the function that returned 0 although a transfer had failed, or
           \* "repeater" when all that had failed were switches of the repeater

controlVars == <<tuner, dev, tun, chip, faults, hidden>>

\* APPLY_PPM_CORR
RtlClock(d) == <<d.rtl_xtal, d.corr>>
TunerClock(d) == <<d.tun_xtal, d.corr>>

\* The crystal and correction that the driver of the FC2580 believes in.
OwnClock == <<0, 0>>

\* What rtlsdr_open2 leaves behind: without a tuner, direct sampling.
ControlInit ==
  /\ tuner \in Tuners
  /\ \E x \in Crystals :
       /\ dev = [rate |-> 0, freq |-> 0, bw |-> 0, offs |-> 0, corr |-> 0,
                 rtl_xtal |-> x, tun_xtal |-> x, direct |-> tuner = "none"]
       /\ tun = [int |-> InitIf, mode |-> 0, xtal |-> <<x, 0>>]
       /\ chip = [repeater |-> "idle",
                  if |-> [f |-> IF tuner = "R82xx" THEN InitIf ELSE 0,
                          clk |-> <<x, 0>>],
                  lo |-> Torn, zeroif |-> tuner \notin {"R82xx", "none"},
                  inversion |-> tuner = "R82xx", ratio |-> 0, ppm |-> 0,
                  mode |-> 0, filter |-> 0, init |-> "on"]
  /\ faults = MaxFaults
  /\ hidden = "none"

-----------------------------------------------------------------------------
(* A call transforms a record w: the state, the number of transfers so far, *)
(* the result, whether the PLL locks, and what went wrong.                  *)

World(fault, lock) ==
  [tuner |-> tuner, dev |-> dev, tun |-> tun, chip |-> chip, n |-> 1,
   r |-> 0, fault |-> fault, lock |-> lock, failed |-> FALSE,
   unswitched |-> FALSE]

NoFault == [from |-> 0, to |-> 0]

\* The PLL of a tuner locks, or not.
Locks == {TRUE, faults = 0}

Undisturbed(lock) == World(NoFault, lock)

\* What may happen to a call that is w if nothing does: nothing, one of its
\* transfers fails, or the device is gone from one of them on.
FaultsOf(w) ==
  {NoFault} \cup
  (IF faults = 0 THEN {}
   ELSE {[from |-> k, to |-> k] : k \in 1 .. w.n - 1} \cup
        {[from |-> k, to |-> Gone] : k \in 1 .. w.n - 1})

Lost(w) == w.fault.from <= w.n /\ w.n <= w.fault.to

\* rtlsdr_demod_write_reg
Demod(w, reg, value) ==
  [w EXCEPT !.n = @ + 1, !.failed = @ \/ Lost(w),
            !.r = IF Lost(w) THEN -1 ELSE 0,
            !.chip[reg] = IF Lost(w) THEN Torn ELSE value]

\* rtlsdr_set_gpio_bit reads and writes; nobody looks at the results.
SetGpioBit(w) ==
  LET a == [w EXCEPT !.n = @ + 1, !.failed = @ \/ Lost(w)]
  IN [a EXCEPT !.n = @ + 1, !.failed = @ \/ Lost(a)]

\* The register of the repeater.
Repeater(w, position) ==
  [w EXCEPT !.n = @ + 1, !.chip.repeater = IF Lost(w) THEN @ ELSE position]

\* rtlsdr_set_i2c_repeater: nobody can look at the result.
SetI2cRepeater(w, position) ==
  [Repeater(w, position) EXCEPT !.unswitched = @ \/ Lost(w)]

Open(w) == SetI2cRepeater(w, "on")
Close(w) == SetI2cRepeater(w, "idle")

\* rtlsdr_i2c_write and rtlsdr_i2c_read: the tuner answers through the
\* repeater only.
I2c(w) ==
  LET bad == Lost(w) \/ w.chip.repeater # "on"
  IN [w EXCEPT !.n = @ + 1, !.failed = @ \/ bad,
               !.r = IF bad THEN -1 ELSE 0]

\* r |= ...
Or(r, w) == [w EXCEPT !.r = IF r < 0 \/ @ < 0 THEN -1 ELSE IF r # 0 THEN r
                            ELSE @]

OrDemod(w, reg, value) == Or(w.r, Demod(w, reg, value))

\* if (dev->tuner->f): answered is what a function of the tuner made of Open(w).
AskTuner(w, answered) == IF w.tuner = "none" THEN w ELSE Close(answered)

-----------------------------------------------------------------------------
(* Tuners: frequency.                                                       *)

\* rtlsdr_set_if_freq
SetIfFreq(w, f) == Demod(w, "if", [f |-> f, clk |-> RtlClock(w.dev)])

OrSetIfFreq(w, f) == Or(w.r, SetIfFreq(w, f))

\* r82xx_set_mux
SetMux(w) == I2c(w)

\* The registers of a PLL, in one transfer.
SetOscillator(w, f, clock) ==
  LET u == I2c(w)
  IN [u EXCEPT !.chip.lo = IF u.r < 0 \/ f < 0 THEN Torn
                           ELSE IF ~w.lock THEN Unlocked
                           ELSE [f |-> f, clk |-> clock]]

\* r82xx_set_pll: a PLL that does not lock is no error.
SetPll(w, f) == SetOscillator(w, f, w.tun.xtal)

R82xxSetFreq(w, f) ==
  LET m == SetMux(w)
  IN IF m.r < 0 THEN m ELSE SetPll(m, f + w.tun.int)

\* e4k_tune_freq: failed writes are not noticed, and a failed read of the lock
\* bit looks like a lock.  A frequency below the offset wraps around.
E4kTuneFreq(w, f) ==
  LET v == I2c(SetOscillator(w, f, w.tun.xtal))
  IN [v EXCEPT !.r = IF w.lock \/ v.r < 0 THEN 0 ELSE -1]

\* fc0012_set_params and the end of fc0013_set_params: they ask for the clock
\* themselves, and find no combination for a frequency that wrapped around.
FcSetParams(w, f) ==
  IF f < 0 THEN [w EXCEPT !.r = -1]
  ELSE SetOscillator(w, f, TunerClock(w.dev))

\* fc0012_set_freq
Fc0012SetFreq(w, f) == FcSetParams(SetGpioBit(w), f)

\* fc0013_set_params: the tracking filter and the band come first.
Fc0013SetParams(w, f) ==
  LET b == I2c(w) IN IF b.r < 0 THEN b ELSE FcSetParams(b, f)

\* FUNCTION_ERROR is positive.
Fc2580Result(w) == [w EXCEPT !.r = IF @ < 0 THEN 1 ELSE 0]

\* fc2580_SetRfFreqHz: a frequency that wrapped around is none of its errors.
Fc2580SetRfFreqHz(w, f) == Fc2580Result(SetOscillator(w, f, OwnClock))

TunerSetFreq(w, f) ==
  CASE w.tuner = "R82xx" -> R82xxSetFreq(w, f)
    [] w.tuner = "E4000" -> E4kTuneFreq(w, f)
    [] w.tuner = "FC0012" -> Fc0012SetFreq(w, f)
    [] w.tuner = "FC0013" -> Fc0013SetParams(w, f)
    [] w.tuner = "FC2580" -> Fc2580SetRfFreqHz(w, f)

Remember(w, f) == [w EXCEPT !.dev.freq = IF w.r = 0 THEN f ELSE 0]

Tune(w, f) ==
  IF w.dev.direct THEN SetIfFreq(w, f)
  ELSE AskTuner([w EXCEPT !.r = -1], TunerSetFreq(Open(w), f - w.dev.offs))

\* (variant) The frequency of the tuner is remembered.
CenterFreqOfTuner(w, f) == Remember(Tune(w, f), f - w.dev.offs)

\* rtlsdr_set_center_freq
CenterFreq(w, f) == Remember(Tune(w, f), f)

Retuned(w) == IF w.dev.freq # 0 THEN CenterFreq(w, w.dev.freq) ELSE w

OrCenterFreq(w) == Or(w.r, CenterFreq(w, w.dev.freq))

-----------------------------------------------------------------------------
(* Tuners: bandwidth, gain mode, standby and initialisation.                *)

\* r82xx_set_bandwidth
R82xxSetBandwidth(w, width) ==
  LET b == I2c(w)
  IN IF b.r < 0 THEN b ELSE [b EXCEPT !.tun.int = Intermediate(width)]

\* (variant) The tuner is not retuned.
R820tSetBwOnly(w, width) ==
  LET b == R82xxSetBandwidth(w, width)
  IN IF b.r < 0 THEN b ELSE SetIfFreq(b, b.tun.int)

\* (variant) What becomes of the intermediate frequency is ignored.
R820tSetBwHopeful(w, width) ==
  LET b == R82xxSetBandwidth(w, width)
      s == SetIfFreq(b, b.tun.int)
  IN IF b.r < 0 THEN b ELSE CenterFreq(s, s.dev.freq)

\* r820t_set_bw: another bandwidth is another intermediate frequency.
R820tSetBw(w, width) ==
  LET b == R82xxSetBandwidth(w, width)
      s == SetIfFreq(b, b.tun.int)
  IN IF b.r < 0 THEN b ELSE IF s.r # 0 THEN s ELSE CenterFreq(s, s.dev.freq)

\* e4000_set_bw returns the length of the last write, 2, if it wrote anything.
E4000SetBw(w, width) ==
  LET u == I2c(w)
  IN [u EXCEPT !.r = IF u.r < 0 THEN -1
                     ELSE IF w.chip.filter = Filter(width) THEN 0 ELSE 2,
               !.chip.filter = IF u.r < 0 THEN Torn ELSE Filter(width)]

\* fc2580_SetBandwidthMode, always the same.
Fc2580SetBandwidthMode(w) == Fc2580Result(I2c(w))

TunerSetBw(w, width) ==
  CASE w.tuner = "R82xx" -> R820tSetBw(w, width)
    [] w.tuner = "E4000" -> E4000SetBw(w, width)
    [] w.tuner \in {"FC0012", "FC0013"} -> [w EXCEPT !.r = 0]
    [] w.tuner = "FC2580" -> Fc2580SetBandwidthMode(w)

\* r82xx_enable_manual_gain does nothing in the mode it believes to be in.
R82xxEnableManualGain(w, mode) ==
  LET u == I2c(w)
  IN IF w.tun.mode = mode THEN w
     ELSE [u EXCEPT !.tun.mode = IF u.r < 0 THEN @ ELSE mode,
                    !.chip.mode = IF u.r < 0 THEN Torn ELSE mode]

E4kEnableManualGain(w, mode) ==
  LET u == I2c(w)
  IN [u EXCEPT !.r = 0, !.tun.mode = mode,
               !.chip.mode = IF u.r < 0 THEN Torn ELSE mode]

\* fc0013_set_gain_mode writes even if it could not read; the mode that it
\* writes is kept nowhere else.
Fc0013SetGainMode(w) == LET u == I2c(w) IN Or(u.r, I2c(u))

TunerSetGainMode(w, mode) ==
  CASE w.tuner = "R82xx" -> R82xxEnableManualGain(w, mode)
    [] w.tuner = "E4000" -> E4kEnableManualGain(w, mode)
    [] w.tuner = "FC0013" -> Fc0013SetGainMode(w)
    [] w.tuner \in {"FC0012", "FC2580"} -> w

\* fc0012_set_gain: what becomes of its read is lost.
Fc0012SetGain(w) == I2c(I2c(w))

Fc0013SetLnaGain(w) == LET u == I2c(w) IN Or(u.r, I2c(u))

\* r82xx_set_gain, e4000_set_gain and the stages of both: with automatic gain
\* the R82xx is left alone, and the E4000 does not tell of failures.
TunerSetGain(w) ==
  CASE w.tuner = "R82xx" -> IF w.tun.mode = 0 THEN w ELSE I2c(w)
    [] w.tuner = "E4000" -> [I2c(w) EXCEPT !.r = 0]
    [] w.tuner = "FC0012" -> Fc0012SetGain(w)
    [] w.tuner = "FC0013" -> Fc0013SetLnaGain(w)
    [] w.tuner = "FC2580" -> w

Standby(w) ==
  LET u == I2c(w)
  IN CASE w.tuner = "R82xx" ->
            [u EXCEPT !.chip.init = IF u.r < 0 THEN Torn ELSE "standby",
                      !.chip.lo = Torn]
       [] w.tuner = "E4000" -> [u EXCEPT !.r = 0, !.chip.lo = Torn]
       [] w.tuner \in {"FC0012", "FC0013", "FC2580"} -> w

\* r82xx_set_tv_standard writes three registers before it chooses the
\* intermediate frequency, and calibrates then.
SetTvStandard(w) ==
  LET u == I2c(w)
  IN IF u.r < 0 THEN u ELSE I2c([u EXCEPT !.tun.int = InitIf])

\* r82xx_sysfreq_sel
SysfreqSel(w) == IF w.r < 0 THEN w ELSE I2c(w)

\* The registers start anew, gain_mode does not.
Initialised(w) ==
  [w EXCEPT !.chip.lo = Torn,
            !.chip.mode = IF w.r < 0 THEN Torn ELSE 0,
            !.chip.init = IF w.r < 0 THEN Torn ELSE "on"]

\* r82xx_init, whose first result is lost.
R82xxInit(w) ==
  LET a == I2c([w EXCEPT !.tun.xtal = TunerClock(w.dev)])
      c == Initialised(SysfreqSel(SetTvStandard(a)))
  IN [c EXCEPT !.chip.mode = IF a.r < 0 THEN Torn ELSE @]

\* (variant) The gain mode survives, as in r82xx_init.
E4kInitKeepsMode(w) ==
  LET u == I2c([w EXCEPT !.tun.xtal = TunerClock(w.dev)])
  IN [u EXCEPT !.r = 0, !.chip.lo = Torn,
               !.chip.mode = IF u.r < 0 THEN Torn ELSE 0,
               !.chip.filter = IF u.r < 0 THEN Torn ELSE 0]

\* e4k_init never fails.
E4kInit(w) ==
  LET u == I2c([w EXCEPT !.tun.xtal = TunerClock(w.dev)])
  IN [u EXCEPT !.r = 0, !.tun.mode = 0, !.chip.lo = Torn,
               !.chip.mode = IF u.r < 0 THEN Torn ELSE 0,
               !.chip.filter = IF u.r < 0 THEN Torn ELSE 0]

\* fc0012_init, fc0013_init and fc2580_set_init
FcInit(w) == [I2c(w) EXCEPT !.chip.lo = Torn]

Fc2580Initialize(w) == Fc2580Result(FcInit(w))

TunerInit(w) ==
  CASE w.tuner = "R82xx" -> R82xxInit(w)
    [] w.tuner = "E4000" -> E4kInit(w)
    [] w.tuner \in {"FC0012", "FC0013"} -> FcInit(w)
    [] w.tuner = "FC2580" -> Fc2580Initialize(w)

-----------------------------------------------------------------------------
(* The control functions.                                                   *)

Widened(w, bw) == [w EXCEPT !.dev.bw = IF w.r = 0 THEN bw ELSE @]

AskTunerBw(w, width) == AskTuner(w, TunerSetBw(Open(w), width))

\* rtlsdr_set_tuner_bandwidth
TunerBandwidth(w, bw) ==
  IF w.tuner = "none" THEN w
  ELSE Widened(AskTunerBw(w, IF bw > 0 THEN bw ELSE w.dev.rate), bw)

\* A frequency that is not above the offset is left as it is.
RetunedAbove(w, offs) ==
  IF w.dev.freq > offs THEN CenterFreq(w, w.dev.freq) ELSE [w EXCEPT !.r = 0]

\* rtlsdr_set_offset_tuning: what becomes of the bandwidth is ignored.
OffsetTuning(w, on) ==
  LET offs == IF on THEN Offset(w.dev.rate) ELSE 0
      a == SetIfFreq([w EXCEPT !.dev.offs = offs], offs)
      width == IF on THEN 2 * offs ELSE IF w.dev.bw > 0 THEN w.dev.bw
               ELSE w.dev.rate
  IN CASE w.tuner = "R82xx" -> [w EXCEPT !.r = -2]
       [] w.tuner # "R82xx" /\ w.dev.direct -> [w EXCEPT !.r = -3]
       [] OTHER ->
            Or(a.r, RetunedAbove(AskTunerBw(a, width), offs))

\* rtlsdr_set_sample_freq_correction
SampleFreqCorrection(w) == Demod(w, "ppm", w.dev.corr)

\* The soft reset, which is in the register of the repeater.
SoftReset(w) ==
  LET a == Repeater(w, "reset")
      bad == Lost(w) \/ Lost(a)
  IN [Repeater(a, "idle") EXCEPT !.r = IF bad THEN -1 ELSE 0,
                                 !.failed = @ \/ bad]

Corrected(w) == Or(w.r, SampleFreqCorrection(w))

Reset(w) == Or(w.r, SoftReset(w))

OffsetAgain(w) ==
  IF w.dev.offs = 0 THEN w ELSE [OffsetTuning(w, TRUE) EXCEPT !.r = w.r]

\* rtlsdr_set_sample_rate: what becomes of the bandwidth and of the offset
\* tuning is ignored.
SampleRate(w, rate) ==
  LET b == AskTunerBw([w EXCEPT !.dev.rate = rate],
                      IF w.dev.bw > 0 THEN w.dev.bw ELSE rate)
  IN OffsetAgain(Reset(Corrected(Demod(b, "ratio", rate))))

\* rtlsdr_set_freq_correction
FreqCorrection(w, ppm) ==
  LET a == SampleFreqCorrection([w EXCEPT !.dev.corr = ppm])
      b == [a EXCEPT !.tun.xtal = TunerClock(a.dev), !.r = 0]
  IN IF w.dev.corr = ppm THEN [w EXCEPT !.r = -2] ELSE Or(a.r, Retuned(b))

\* The tuner's crystal is another one.
TunerXtal(w, freq) ==
  LET b == [w EXCEPT !.dev.tun_xtal = IF freq = 0 THEN w.dev.rtl_xtal
                                      ELSE freq]
  IN IF w.dev.tun_xtal = freq THEN w
     ELSE Retuned([b EXCEPT !.tun.xtal = TunerClock(b.dev)])

\* rtlsdr_set_xtal_freq: 0 leaves the crystal of the demodulator as it is, and
\* gives the tuner that one.
XtalFreq(w, rtl, tuner_freq) ==
  LET x == [w EXCEPT !.dev.rtl_xtal = rtl]
  IN TunerXtal(IF rtl \in {0, w.dev.rtl_xtal} THEN w
               ELSE IF w.dev.rate # 0 THEN SampleRate(x, w.dev.rate) ELSE x,
               tuner_freq)

\* rtlsdr_set_direct_sampling
DirectSamplingOn(w) ==
  LET a == AskTuner(w, Standby(Open(w)))
      c == OrDemod(OrDemod(a, "zeroif", FALSE), "inversion", FALSE)
  IN OrCenterFreq([c EXCEPT !.dev.direct = TRUE])

DirectSamplingOff(w) ==
  LET low == w.tuner = "R82xx"
      a == AskTuner(w, TunerInit(Open(w)))
      c == OrDemod(OrSetIfFreq(a, IF low THEN InitIf ELSE 0),
                   IF low THEN "inversion" ELSE "zeroif", TRUE)
  IN OrCenterFreq([c EXCEPT !.dev.direct = FALSE])

DirectSampling(w, on) ==
  IF on THEN DirectSamplingOn(w) ELSE DirectSamplingOff(w)

\* rtlsdr_set_tuner_gain_mode and rtlsdr_set_tuner_gain
GainMode(w, mode) == AskTuner(w, TunerSetGainMode(Open(w), mode))

Gain(w) == AskTuner(w, TunerSetGain(Open(w)))

-----------------------------------------------------------------------------
\* Bound: a correction is tried with equal crystals only.
OneClock(d) == d.corr # 0 => d.rtl_xtal = d.tun_xtal

\* The call returns.  A PLL that does not lock matters if it was tuned.
Returns(function, w) ==
  /\ w.lock \/ w.chip.lo # chip.lo
  /\ OneClock(w.dev)
  /\ dev' = w.dev
  /\ tun' = w.tun
  /\ chip' = w.chip
  /\ faults' = IF w.fault = NoFault /\ w.lock THEN faults ELSE faults - 1
  /\ hidden' = IF w.r # 0 THEN "none"
               ELSE IF w.failed THEN function
               ELSE IF w.unswitched THEN "repeater" ELSE "none"
  /\ UNCHANGED tuner

SetCenterFreq ==
  \E lock \in Locks, f \in Freqs :
    \E fault \in FaultsOf(CenterFreq(Undisturbed(lock), f)) :
      Returns("center_freq", CenterFreq(World(fault, lock), f))

SetSampleRate ==
  \E lock \in Locks, rate \in Rates :
    \E fault \in FaultsOf(SampleRate(Undisturbed(lock), rate)) :
      Returns("sample_rate", SampleRate(World(fault, lock), rate))

SetFreqCorrection ==
  \E lock \in Locks, ppm \in Ppms :
    \E fault \in FaultsOf(FreqCorrection(Undisturbed(lock), ppm)) :
      Returns("freq_correction", FreqCorrection(World(fault, lock), ppm))

SetXtalFreq ==
  \E lock \in Locks, x \in Crystals \X {0} \cup {0} \X Crystals :
    \E fault \in FaultsOf(XtalFreq(Undisturbed(lock), x[1], x[2])) :
      Returns("xtal_freq", XtalFreq(World(fault, lock), x[1], x[2]))

SetTunerBandwidth ==
  \E lock \in Locks, bw \in Widths \cup {0} :
    \E fault \in FaultsOf(TunerBandwidth(Undisturbed(lock), bw)) :
      Returns("tuner_bandwidth", TunerBandwidth(World(fault, lock), bw))

SetTunerGainMode ==
  \E lock \in Locks, mode \in {0, 1} :
    \E fault \in FaultsOf(GainMode(Undisturbed(lock), mode)) :
      Returns("gain_mode", GainMode(World(fault, lock), mode))

SetTunerGain ==
  \E lock \in Locks :
    \E fault \in FaultsOf(Gain(Undisturbed(lock))) :
      Returns("gain", Gain(World(fault, lock)))

SetDirectSampling ==
  \E lock \in Locks, on \in BOOLEAN :
    \E fault \in FaultsOf(DirectSampling(Undisturbed(lock), on)) :
      Returns("direct_sampling", DirectSampling(World(fault, lock), on))

SetOffsetTuning ==
  \E lock \in Locks, on \in BOOLEAN :
    \E fault \in FaultsOf(OffsetTuning(Undisturbed(lock), on)) :
      Returns("offset_tuning", OffsetTuning(World(fault, lock), on))

ControlNext ==
  \/ SetCenterFreq \/ SetSampleRate \/ SetFreqCorrection \/ SetXtalFreq
  \/ SetTunerBandwidth \/ SetTunerGainMode \/ SetTunerGain
  \/ SetDirectSampling \/ SetOffsetTuning

ControlSpec == ControlInit /\ [][ControlNext]_controlVars
-----------------------------------------------------------------------------
(* Properties.                                                              *)

\* Crystals are alike (for TLC).
Symmetry == Permutations(Crystals)

Clocks == Crystals \X (Ppms \cup {0})

Known(f) == [f : f, clk : Clocks]

\* Every variable keeps its type.
ControlTypeOK ==
  /\ tuner \in Tuners
  /\ dev \in [rate : Rates \cup {0}, freq : Freqs \cup {0},
              bw : Widths \cup {0}, offs : Nat, corr : Ppms \cup {0},
              rtl_xtal : Crystals, tun_xtal : Crystals, direct : BOOLEAN]
  /\ tun \in [int : {2, InitIf, 4}, mode : {0, 1}, xtal : Clocks]
  /\ chip.repeater \in {"idle", "on", "reset"}
  /\ chip.if \in Known(Nat) \cup {Torn}
  /\ \/ chip.lo \in Known(Nat) \cup {Torn, Unlocked}
     \/ tuner = "FC2580" /\ chip.lo.clk = OwnClock
  /\ faults \in 0..MaxFaults

Direct == dev.direct
LowIf == tuner = "R82xx"

\* The frequency in the middle of the spectrum that is received.
Received ==
  IF Direct THEN chip.if.f
  ELSE IF LowIf THEN chip.lo.f - chip.if.f
  ELSE chip.lo.f + chip.if.f

Locked == chip.lo \notin {Torn, Unlocked}

\* Offset tuning was on when direct sampling was switched on, and the
\* intermediate frequency was forgotten when it was switched off.
OffsetForgotten == dev.offs # 0 /\ chip.if # Torn /\ chip.if.f # dev.offs

\* The frequency received is the one reported, but for a register that could
\* not be written, a tuner whose initialisation failed, a frequency that is not
\* above the offset (not retuned), and offset tuning across direct sampling.  A
\* frequency is remembered only if the tuner took it, but the E4000 is not
\* asked, and a PLL that does not lock counts as tuned on all others.
FrequencyIsKnown ==
  dev.freq # 0 =>
    \/ chip.if = Torn
    \/ ~Direct /\ (chip.init = Torn \/ OffsetForgotten)
    \/ ~Direct /\ ~Locked /\ tuner = "E4000"
    \/ ~Direct /\ chip.lo = Unlocked /\ tuner # "E4000"
    \/ ~Direct /\ dev.offs # 0 /\ dev.freq <= dev.offs
    \/ (Direct \/ Locked) /\ Received = dev.freq

\* The local oscillator was set with the crystal and the correction in force,
\* but for that of the FC2580, which hears of neither; the intermediate
\* frequency may be older, except in direct sampling.
ClocksAreCurrent ==
  dev.freq # 0 =>
    /\ ~Direct /\ Locked =>
         chip.lo.clk = IF tuner = "FC2580" THEN OwnClock ELSE TunerClock(dev)
    /\ Direct /\ chip.if # Torn => chip.if.clk = RtlClock(dev)
    /\ chip.ppm \in {dev.corr, Torn}
    /\ chip.ratio \in {dev.rate, Torn}

\* rtlsdr_get_center_freq tells where the receiver is, and by the clock in
\* force, whatever was called and whichever transfers failed.
HearsWhatItSays == FrequencyIsKnown /\ ClocksAreCurrent

\* The tuner's gain is never manual while the driver believes it automatic.
\* (The R82xx may be automatic while the driver believes it manual: leaving
\* direct sampling initialises the tuner, but not gain_mode, and then
\* r82xx_enable_manual_gain does nothing.)
GainModeKnown ==
  \/ chip.mode \in {tun.mode, Torn}
  \/ tuner = "R82xx" /\ chip.mode = 0

\* A function returns 0 although one of its transfers failed only if no other
\* than switches of the I2C repeater did, which any function that asks a tuner
\* may lose without a word; if the tuner is the E4000 or the FC0012; or if it
\* sets the sample rate, in rtlsdr_set_xtal_freq as well, initialises the R82xx
\* anew, or sets the bandwidth of the FC2580 for offset tuning.
FailuresAreTold ==
  \/ hidden \in {"none", "repeater", "sample_rate", "xtal_freq"}
  \/ tuner \in {"E4000", "FC0012"}
  \/ hidden = "offset_tuning" /\ tuner = "FC2580"
  \/ hidden = "direct_sampling" /\ tuner = "R82xx"

=============================================================================
