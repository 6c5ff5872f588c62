------------------------------ MODULE SignalPath ------------------------------
(***************************************************************************)
(* The signal path of rtl_ais_andro.c: what rtl_ais_main computes from the *)
(* two frequencies and the rates, and what one turn of demod_thread_fn     *)
(* makes of a block of samples.  The block is filtered and decimated, then *)
(* each channel is moved to the middle, filtered and decimated again, and  *)
(* its phase differences, less their average, are resampled for the        *)
(* decoder.  Filters, discriminator and average remember across blocks.    *)
(*                                                                         *)
(* A sample is a pair <<i, q>>: the code runs every filter twice, over the *)
(* even and the odd places of an array.  Integers have the widths of the   *)
(* code; a sum in a filter that did not fit into int would stop TLC.       *)
(***************************************************************************)
EXTENDS Integers, Sequences

CONSTANTS
  Deltas,       \* right_freq - left_freq
  SampleRates,  \* option -s
  OutputRates,  \* option -o
  BlockLength,  \* DEFAULT_BUF_LENGTH
  Signals,      \* what the antenna may receive during a block
  BlocksBound   \* bound: blocks that are demodulated

ASSUME SignalPathAssumption ==
  /\ Deltas \subseteq Nat
  /\ SampleRates \cup OutputRates \subseteq Nat \ {0}
  /\ BlockLength \in Nat
  /\ Signals \subseteq {"silence", "left", "right", "faint", "pulse", "steps"}
  /\ BlocksBound \in Nat

VARIABLES
  plan,    \* rates and lengths, once rtl_ais_main has computed them
  at,      \* where demod_thread_fn is: the filter, and its next step
  blocks,  \* blocks that came
  bufs,    \* both.buf, left.buf, right.buf
  hist,    \* lp_i_hist and lp_q_hist, by filter and pass
  droop,   \* droop_i_hist and droop_q_hist
  pre,     \* pre_r, pre_j of the two demodulators
  dc,      \* dc_avg
  pcm,     \* result
  heard    \* history: the blocks that went into each pass of each filter, into
           \* its droop compensation, and that came out

signalVars == <<plan, at, blocks, bufs, hist, droop, pre, dc, pcm, heard>>

Channels == {"left", "right"}
Filters == {"both"} \cup Channels

Zero == <<0, 0>>

\* int16_t
Wrap16(n) == ((n + 32768) % 65536) - 32768

\* Division in C.
Quot(a, b) == IF a >= 0 THEN a \div b ELSE -((-a) \div b)

-----------------------------------------------------------------------------
(* Rates and lengths.                                                       *)

\* (int)log2(a / b), for a >= b > 0
Log2(a, b) ==
  CHOOSE i \in 0 .. 21 : a \div 2^i >= b /\ a \div 2^(i + 1) < b

\* (variant) The passes of the first filter are those of the whole rate.
PlannedDeeper(delta, sample, output) ==
  LET i == Log2(2400000, delta)
      j == Log2(2 * delta, sample)
      out == BlockLength \div 2^(i + j)
  IN [outcome |-> "ok", delta |-> delta, sample |-> sample,
      output |-> output, rate |-> delta * 2^i,
      passes |-> [f \in Filters |-> IF f = "both" THEN i ELSE j],
      result_len |-> out \div 2,
      bl_len |-> ((BlockLength \div 2) * output) \div (delta * 2^i)]

\* For frequencies that differ and a sample rate that is not too high.
Planned(delta, sample, output) ==
  LET i == Log2(2400000, delta)
      j == Log2(2 * delta, sample)
      out == BlockLength \div 2^(i - 1 + j)
  IN [outcome |-> "ok", delta |-> delta, sample |-> sample,
      output |-> output, rate |-> delta * 2^i,
      passes |-> [f \in Filters |-> IF f = "both" THEN i - 1 ELSE j],
      result_len |-> out \div 2,
      bl_len |-> ((BlockLength \div 2) * output) \div (delta * 2^i)]

\* The logarithm of infinity or of zero becomes an integer, or the code divides
\* by zero; frequencies too far apart are refused; the last check ends the
\* process.
Outcome(delta, sample, output) ==
  IF delta > 1200000 THEN "refused"
  ELSE IF delta = 0 \/ 2 * delta < sample THEN "undefined"
  ELSE IF (2 * delta) \div 2^Log2(2 * delta, sample) > output THEN "exit"
  ELSE "ok"

Idle == [filter |-> "none", step |-> "idle", pass |-> 0]

SignalInit ==
  /\ plan = [outcome |-> "none"]
  /\ at = Idle
  /\ blocks = 0
  /\ bufs = [f \in Filters |-> <<>>]
  /\ hist = [f \in Filters |-> <<>>]
  /\ droop = [f \in Filters |-> [n \in 1 .. 9 |-> Zero]]
  /\ pre = [c \in Channels |-> Zero]
  /\ dc = [c \in Channels |-> 0]
  /\ pcm = [c \in Channels |-> <<>>]
  /\ heard = [f \in Filters |-> <<>>]

\* downsample_init clears the histories.
ComputePlan ==
  /\ plan.outcome = "none"
  /\ \E delta \in Deltas, sample \in SampleRates, output \in OutputRates :
       plan' = IF Outcome(delta, sample, output) = "ok"
               THEN Planned(delta, sample, output)
               ELSE [outcome |-> Outcome(delta, sample, output)]
  /\ IF plan'.outcome = "ok"
     THEN /\ hist' = [f \in Filters |-> [p \in 1 .. plan'.passes[f] |->
                                           [n \in 1 .. 6 |-> Zero]]]
          /\ heard' = [f \in Filters |->
                         [p \in 1 .. plan'.passes[f] + 2 |-> <<>>]]
     ELSE UNCHANGED <<hist, heard>>
  /\ UNCHANGED <<at, blocks, bufs, droop, pre, dc, pcm>>

-----------------------------------------------------------------------------
(* Filters.                                                                 *)

\* What the numbers add up to, one after the other.
Totals(numbers) ==
  LET S[n \in 0 .. Len(numbers)] ==
        IF n = 0 THEN 0 ELSE S[n - 1] + numbers[n]
  IN S

Total(numbers) == Totals(numbers)[Len(numbers)]

\* Adds the weighted samples weight[1] of which belongs to line[k + 1].
Sum(weight, line, k, part) ==
  Total([n \in 1 .. Len(weight) |-> weight[n] * line[k + n][part]])

\* A pass adds a + (b + e) * 5 + (c + d) * 10 + f.
Binomial == <<1, 5, 10, 10, 5, 1>>

\* (variant) The sum is scaled by the amplitude that comes out.
LowPassLouder(line, k) ==
  [part \in 1 .. 2 |-> Wrap16(Sum(Binomial, line, k, part) \div 8)]

LowPass(line, k) ==
  [part \in 1 .. 2 |-> Wrap16(Sum(Binomial, line, k, part) \div 16)]

\* What a pass sees of a block: five samples that it kept, and all but the last
\* of the block.
Line(kept, data) == Tail(kept) \o SubSeq(data, 1, Len(data) - 1)

\* fifth_order: half of the samples come out, at twice the amplitude.
FifthOrder(kept, data) ==
  [k \in 1 .. Len(data) \div 2 |-> LowPass(Line(kept, data), 2 * (k - 1))]

\* (variant) The window is kept before its last move.
KeptBefore(kept, data) ==
  LET line == Line(kept, data)
  IN SubSeq(line, Len(line) - 7, Len(line) - 2)

\* The window of the last sum.
Kept(kept, data) ==
  LET line == Line(kept, data)
  IN SubSeq(line, Len(line) - 5, Len(line))

\* cic_9_tables, without the length in front; the first row is empty.
cic_9_tables ==
  << <<-156, -97, 2798, -15489, 61019>>, <<-128, -568, 5593, -24125, 74126>>,
     <<-129, -639, 6187, -26281, 77511>>, <<-122, -612, 6082, -26353, 77818>>,
     <<-120, -602, 6015, -26269, 77757>>, <<-120, -582, 5951, -26128, 77542>>,
     <<-119, -580, 5931, -26094, 77505>>, <<-119, -578, 5921, -26077, 77484>>,
     <<-119, -577, 5917, -26067, 77473>>,
     <<-199, -362, 5303, -25505, 77489>> >>

Symmetric(passes) ==
  [n \in 1 .. 9 |-> IF passes = 0 THEN 0
                    ELSE cic_9_tables[passes][IF n > 5 THEN 10 - n ELSE n]]

\* generic_fir: each sum is over the nine samples before its own.
Compensated(line, k, passes) ==
  [part \in 1 .. 2 |->
     Wrap16(Sum(Symmetric(passes), line, k, part) \div 32768)]

GenericFir(kept, data, passes) ==
  [k \in 1 .. Len(data) |-> Compensated(kept \o data, k - 1, passes)]

DroopKept(kept, data) == SubSeq(kept \o data, Len(data) + 1, Len(data) + 9)

-----------------------------------------------------------------------------
(* The two channels.                                                        *)

\* A quarter turn, k times, the least number being its own opposite.
Turn(z, k) ==
  CASE k % 4 = 0 -> z
    [] k % 4 = 1 -> <<Wrap16(-z[2]), z[1]>>
    [] k % 4 = 2 -> <<Wrap16(-z[1]), Wrap16(-z[2])>>
    [] k % 4 = 3 -> <<z[2], Wrap16(-z[1])>>

\* rotate_90 and rotate_m90, which take four samples at a time.
Rotated(c, data) ==
  [n \in 1 .. Len(data) |->
     LET k == (n - 1) % 4 IN Turn(data[n], IF c = "left" THEN k ELSE -k)]

\* The product 4096 * n as an int.
Mul4096(n) == 4096 * (((n + 524288) % 1048576) - 524288)

\* fast_atan2: half a turn is 16384.
FastAtan2(y, x) ==
  LET yabs == IF y < 0 THEN -y ELSE y
      angle == IF x >= 0 THEN 4096 - Quot(Mul4096(x - yabs), x + yabs)
               ELSE 12288 - Quot(Mul4096(x + yabs), yabs - x)
  IN IF x = 0 /\ y = 0 THEN 0 ELSE IF y < 0 THEN -angle ELSE angle

\* polar_disc_fast
Product(a, b) ==
  <<a[1] * b[1] + a[2] * b[2], a[2] * b[1] - a[1] * b[2]>>

PolarDiscFast(a, b) == FastAtan2(Product(a, b)[2], Product(a, b)[1])

\* (variant) The sample before the block is taken from the block.
DemodulatedAlone(last, data) ==
  [n \in 1 .. Len(data) |->
     PolarDiscFast(data[n], IF n = 1 THEN data[1] ELSE data[n - 1])]

\* demodulate
Demodulated(last, data) ==
  [n \in 1 .. Len(data) |->
     PolarDiscFast(data[n], IF n = 1 THEN last ELSE data[n - 1])]

\* dc_block_filter: nine tenths of the average are the old one.
Average(old, angles) ==
  Quot(Quot(Total(angles), Len(angles)) + old * 9, 10)

\* arbitrary_upsample: the output lies between the samples i - 1 and i of a
\* block, from 0, and tick / len2 is how far; then comes the next output.
Upsample(p, len1, len2) ==
  LET next == IF p.tick + len1 > len2
              THEN [i |-> p.i + 1, tick |-> p.tick + len1 - len2]
              ELSE [i |-> p.i, tick |-> p.tick + len1]
  IN IF next.i >= len1 THEN [i |-> len1 - 1, tick |-> len2] ELSE next

Resampled(len1, len2) ==
  LET P[j \in 0 .. len2] == IF j = 0 THEN [i |-> 1, tick |-> 0]
                            ELSE Upsample(P[j - 1], len1, len2)
  IN P

-----------------------------------------------------------------------------
(* A turn of demod_thread_fn.                                               *)

\* What rtlsdr_callback makes of the bytes of the n-th sample, from 0, by what
\* is on the air.
Byte(signal, n) ==
  LET factor == 2^plan.passes["both"]
  IN CASE signal = "silence" -> Zero
       [] signal = "left" -> Turn(<<127, 0>>, -(n \div factor))
       [] signal = "right" -> Turn(<<127, 0>>, n \div factor)
       [] signal = "faint" -> Turn(<<6, 2>>, -(n \div (factor + 1)))
       [] signal = "pulse" -> IF (n + 1) % 64 = 0 THEN <<128, -127>> ELSE Zero
       [] signal = "steps" -> IF n % 48 < 20 THEN <<-127, 40>> ELSE <<9, 128>>

Samples == BlockLength \div 2

\* Bounds: the block is long enough for the rates, and every pass has its history
\* and its row of the table.
Fits ==
  /\ plan.outcome = "ok" /\ plan.result_len > 1
  /\ \A f \in Filters : plan.passes[f] <= Len(cic_9_tables)

Step(f, s, p) == at = [filter |-> f, step |-> s, pass |-> p]

GoTo(f, s, p) == at' = [filter |-> f, step |-> s, pass |-> p]

\* A history, with what goes into a pass, or comes out in the end.
Hears(history, f, p, data) == [history EXCEPT ![f][p] = Append(@, data)]

\* rtlsdr_callback
Receive(signal) ==
  /\ Fits /\ at = Idle /\ blocks < BlocksBound
  /\ blocks' = blocks + 1
  /\ bufs' = [bufs EXCEPT !["both"] =
               [n \in 1 .. Samples |-> Byte(signal, n - 1)]]
  /\ GoTo("both", "filter", 1)
  /\ UNCHANGED <<plan, hist, droop, pre, dc, pcm, heard>>

\* A turn of the loop of downsample.
Pass(f, p) ==
  /\ Step(f, "filter", p) /\ p <= plan.passes[f]
  /\ bufs' = [bufs EXCEPT ![f] = FifthOrder(hist[f][p], @)]
  /\ hist' = [hist EXCEPT ![f][p] = Kept(@, bufs[f])]
  /\ heard' = Hears(heard, f, p, bufs[f])
  /\ GoTo(f, "filter", p + 1)
  /\ UNCHANGED <<plan, blocks, droop, pre, dc, pcm>>

\* The droop compensation of downsample.  The result of the first filter is
\* copied for both channels.
Droop(f) ==
  LET p == plan.passes[f] + 1
      data == GenericFir(droop[f], bufs[f], plan.passes[f])
  IN /\ Step(f, "filter", p)
     /\ bufs' = [g \in Filters |->
                  IF f \in {g, "both"} THEN data ELSE bufs[g]]
     /\ droop' = [droop EXCEPT ![f] = DroopKept(@, bufs[f])]
     /\ heard' = Hears(Hears(heard, f, p, bufs[f]), f, p + 1, data)
     /\ IF f = "both" THEN GoTo("left", "rotate", 1)
                      ELSE GoTo(f, "demodulate", 1)
     /\ UNCHANGED <<plan, blocks, hist, pre, dc, pcm>>

Rotate(c) ==
  /\ Step(c, "rotate", 1)
  /\ bufs' = [bufs EXCEPT ![c] = Rotated(c, @)]
  /\ GoTo(c, "filter", 1)
  /\ UNCHANGED <<plan, blocks, hist, droop, pre, dc, pcm, heard>>

\* demodulate, dc_block_filter
Demodulate(c) ==
  LET angles == Demodulated(pre[c], bufs[c])
      avg == Average(dc[c], angles)
  IN /\ Step(c, "demodulate", 1)
     /\ pcm' = [pcm EXCEPT ![c] =
                  [n \in 1 .. Len(angles) |-> Wrap16(angles[n] - avg)]]
     /\ dc' = [dc EXCEPT ![c] = avg]
     /\ pre' = [pre EXCEPT ![c] = bufs[c][Len(bufs[c])]]
     /\ IF c = "left" THEN GoTo("right", "rotate", 1) ELSE at' = Idle
     /\ UNCHANGED <<plan, blocks, bufs, hist, droop, heard>>

Done ==
  /\ plan.outcome # "none"
  /\ ~Fits \/ (at = Idle /\ blocks = BlocksBound)
  /\ UNCHANGED signalVars

SignalNext ==
  \/ ComputePlan \/ Done
  \/ \E signal \in Signals : Receive(signal)
  \/ at # Idle /\ \E f \in Filters : Pass(f, at.pass) \/ Droop(f)
  \/ \E c \in Channels : Rotate(c) \/ Demodulate(c)

SignalSpec == SignalInit /\ [][SignalNext]_signalVars

-----------------------------------------------------------------------------
(* Properties.                                                              *)

\* The resampler interpolates between two samples of the result, never beyond
\* its last one, and, unless it has to leave samples out, at the right place:
\* j * len1 / len2, or the end.
ResamplerStaysInside ==
  LET len1 == plan.result_len
      len2 == plan.bl_len
      place == Resampled(len1, len2)
  IN len1 > 1 =>
       \A j \in 0 .. len2 - 1 :
         /\ place[j].i \in 1 .. len1 - 1
         /\ len1 <= len2 =>
              /\ place[j].tick \in 0 .. len2
              /\ (place[j].i - 1) * len2 + place[j].tick \in
                   {j * len1, (len1 - 1) * len2}
              /\ (place[j].i - 1) * len2 + place[j].tick <= j * len1

\* The rate of the channels is compared with that of the output when its
\* fraction is cut off: the output may be slower by less than 1 Hz.
OutputTooSlow ==
  plan.output * 2^plan.passes["left"] < 2 * plan.delta

\* Whatever the options, the dongle is set to a rate that it supports, both
\* channels end a quarter of the rate from the middle, where the rotations
\* expect them, each is at least as wide as option -s says, and not twice, every
\* pass has its history and its row of the table, and the output is not slower
\* than the result, between whose samples it is interpolated, but by the fraction
\* of a Hz that the check of the rates does not see.  But frequencies closer than
\* 586 Hz, or 1024 times the sample rate apart, use histories that do not exist;
\* and channels more than 600 kHz apart, or closer than the sample rate, are
\* accepted and not received at all: a filter without passes takes the empty row.
\* The width is what the code computes and not what usage says of -s, "maximum
\* value, might be down to 12k" (rtl_ais_andro.c:177, in a function that is
\* commented out): -s is the least width, and its default, 24k, gives channels
\* of 25 kHz.
ChannelsAreReceived ==
  plan.outcome = "ok" =>
    LET both == plan.passes["both"]
        left == plan.passes["left"]
    IN /\ 900000 < plan.rate /\ plan.rate <= 2400000
       /\ plan.rate = 2 * plan.delta * 2^both
       /\ plan.sample * 2^left <= 2 * plan.delta
       /\ 2 * plan.delta < 2 * plan.sample * 2^left
       /\ both \in 0 .. Len(cic_9_tables) \/ plan.delta < 586
       /\ left \in 0 .. Len(cic_9_tables) \/ plan.sample * 1024 <= plan.delta
       /\ plan.result_len <= plan.bl_len \/ OutputTooSlow
       /\ ResamplerStaysInside
       /\ (both = 0 \/ left = 0) <=>
            (plan.delta > 600000 \/ plan.delta < plan.sample)

\* The blocks of a history in one piece, the last `drop` samples of each left
\* out: of the first n blocks, and of all.
Joins(history, drop) ==
  LET S[n \in 0 .. Len(history)] ==
        IF n = 0 THEN <<>>
        ELSE S[n - 1] \o SubSeq(history[n], 1, Len(history[n]) - drop)
  IN S

Joined(history, drop) == Joins(history, drop)[Len(history)]

Zeros(n) == [k \in 1 .. n |-> Zero]

\* What of the joined signal came before the n-th block.
Past(history, n, drop) == Len(Joins(history, drop)[n - 1])

InWord(n) == -32768 <= n /\ n <= 32767

\* That pass p of filter f joins the blocks: its results are those of one filter
\* that runs over all blocks in one piece, each whole or without its last
\* sample.  Nothing else is missing, and nothing comes twice or out of order.
PassJoinsBlocks(f, p) ==
  LET ins == heard[f][p]
      outs == heard[f][p + 1]
      n == Len(outs)
  IN \E drop \in {0, 1} :
       LET line == Zeros(5) \o Joined(ins, drop)
       IN \A k \in 1 .. Len(outs[n]) :
            outs[n][k] = LowPass(line, Past(ins, n, drop) + 2 * (k - 1))

\* The droop compensation leaves no sample out.
DroopJoinsBlocks(f) ==
  LET ins == heard[f][plan.passes[f] + 1]
      outs == heard[f][plan.passes[f] + 2]
      line == Zeros(9) \o Joined(ins, 0)
  IN \A k \in 1 .. Len(outs[Len(outs)]) :
       outs[Len(outs)][k] =
         Compensated(line, Past(ins, Len(outs), 0) + k - 1, plan.passes[f])

\* The turns of a channel do not notice the blocks either, if four divides their
\* length.
RotationJoinsBlocks(c) ==
  LET n == Len(heard[c][1])
      whole == heard["both"][plan.passes["both"] + 2]
      ins == Joined(SubSeq(whole, 1, n), 0)
      outs == Joined(heard[c][1], 0)
  IN (Samples \div 2^plan.passes["both"]) % 4 = 0 =>
       \A k \in 1 .. Len(outs) :
         outs[k] = Turn(ins[k], IF c = "left" THEN k - 1 ELSE 1 - k)

\* What the cuts between blocks cost: a pass loses at most one sample of each
\* block, the droop compensation and the rotations none, and otherwise they make
\* of the blocks what they would make of one long block.  The code does lose
\* that sample: fifth_order neither adds the last sample of a block to a sum nor
\* keeps it, so that after each pass the signal is a sample short at every cut.
CutsCostOneSampleAtMost ==
  plan.outcome = "ok" =>
    /\ \A f \in Filters :
         /\ \A p \in 1 .. plan.passes[f] :
              heard[f][p + 1] # <<>> => PassJoinsBlocks(f, p)
         /\ heard[f][plan.passes[f] + 2] # <<>> => DroopJoinsBlocks(f)
    /\ \A c \in Channels : heard[c][1] # <<>> => RotationJoinsBlocks(c)

\* Nor does the amplitude that each pass doubles leave the 16 bits of a sample:
\* no sum of a filter wraps, for the signals, and the passes, of a run.
NothingWraps ==
  plan.outcome = "ok" =>
    \A f \in Filters :
      /\ \A p \in 1 .. plan.passes[f] :
           LET ins == heard[f][p]
               line == Zeros(5) \o Joined(ins, 1)
           IN heard[f][p + 1] # <<>> =>
                \A k \in 0 .. Len(ins[Len(ins)]) \div 2 - 1, part \in 1 .. 2 :
                  InWord(Sum(Binomial, line,
                             Past(ins, Len(ins), 1) + 2 * k, part) \div 16)
      /\ LET passes == plan.passes[f]
             ins == heard[f][passes + 1]
             line == Zeros(9) \o Joined(ins, 0)
         IN heard[f][passes + 2] # <<>> =>
              \A k \in 0 .. Len(ins[Len(ins)]) - 1, part \in 1 .. 2 :
                InWord(Sum(Symmetric(passes), line,
                           Past(ins, Len(ins), 0) + k, part) \div 32768)

\* The octants of a turn: the angles at which they begin and end.
InOctant(angle, y, x) ==
  LET yabs == IF y < 0 THEN -y ELSE y
      low == CASE x >= yabs -> 0
               [] x >= 0 /\ x < yabs -> 4096
               [] x < 0 /\ -x < yabs -> 8192
               [] OTHER -> 12288
      turn == IF y < 0 THEN -angle ELSE angle
  IN low <= turn /\ turn <= low + 4096

\* The product does not fit: 4096 times it is more than an int.
TooStrong(y, x) ==
  LET yabs == IF y < 0 THEN -y ELSE y
      d == IF x >= 0 THEN x - yabs ELSE x + yabs
  IN d < -524288 \/ d >= 524288

\* Half a turn, as fast_atan2 counts.
HalfTurn == 16384

\* What the decoder gets, with the average put back, is the turn from each
\* sample of the channel to the next, over the ends of blocks, right to the
\* octant, unless the signal is so strong that fast_atan2, "pre scaled for
\* int16", overflows.  The average stays below half a turn, so that it can be
\* taken away in 16 bits.
TurnsAreTold ==
  plan.outcome = "ok" =>
    \A c \in Channels :
      LET outs == heard[c][plan.passes[c] + 2]
          line == <<Zero>> \o Joined(outs, 0)
          past == IF outs = <<>> THEN 0
                  ELSE Len(line) - 1 - Len(outs[Len(outs)])
      IN /\ -HalfTurn < dc[c] /\ dc[c] < HalfTurn
         /\ ~Step(c, "demodulate", 1) =>
              \A k \in 1 .. Len(pcm[c]) :
                LET z == Product(line[past + k + 1], line[past + k])
                IN \/ TooStrong(z[2], z[1]) \/ z = Zero
                   \/ InOctant(pcm[c][k] + dc[c], z[2], z[1])
=============================================================================
