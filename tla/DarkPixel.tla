------------------------------ MODULE DarkPixel ------------------------------
(***************************************************************************)
(* The arithmetic of the reduction programs on one pixel.  In data_sub,    *)
(* rms.c turns the pixel's values in the dark pages into an average and a  *)
(* standard deviation, and sub.c subtracts them from its value in a data   *)
(* page; dark_rms and mthread_dark_rms hold the same rms.c and stop before *)
(* the subtraction.  mthread_dark_avg computes the average only, in two    *)
(* ways: avg_1.c adds up the rounded quotients, avg_2.c is rms.c without   *)
(* the deviation.                                                          *)
(*                                                                         *)
(* avg_buffer holds signed and rms_buffer unsigned words (16 bits in the   *)
(* code); stores wrap.  The width is given by Half, the weight of the sign *)
(* bit: a word has 2 * Half values, an int of twice its width has          *)
(* (2 * Half) ^ 2.  A double is converted the way the x86 build does it:   *)
(* to such an int, then to the word.  NaN, and a double that the int       *)
(* cannot hold, become the lowest int, whose word is 0.                    *)
(***************************************************************************)
EXTENDS Integers, Sequences

CONSTANTS
  Methods,     \* among "avg_1", "avg_2", "rms"
  Half,        \* half the number of values of a pixel (2^15 in the code)
  PageCounts,  \* numbers of dark pages tried
  Pixels,      \* pixel values tried
  Alpha, Beta  \* of sys_config.h: the noise threshold

ASSUME PixelAssumption ==
  /\ Methods \subseteq {"avg_1", "avg_2", "rms"}
  /\ Half \in Nat \ {0} /\ PageCounts \subseteq Nat \ {0}
  /\ Pixels \subseteq 0..(2 * Half - 1)
  /\ Alpha \in Nat /\ Beta \in Nat

VARIABLES
  method,    \* the source file that is compiled in, never changed
  pc,        \* "dark", "syn", "sub", "done" or "killed"
  pages,     \* dark pages in the file
  seen,      \* history: the dark values read so far
  dk0,       \* the value in page 0
  avg,       \* avg_buffer: sum of differences, then average
  rms,       \* rms_buffer: sum of squares, then standard deviation
  out_avg, out_std,  \* output_image_avg, output_image_std
  data, res  \* data_image, res_image

vars == <<method, pc, pages, seen, dk0, avg, rms, out_avg, out_std, data, res>>

Word == 0..(2 * Half - 1)
SignedWord == -Half..(Half - 1)
Unsigned(n) == n % (2 * Half)
Signed(n) == LET u == Unsigned(n) IN IF u >= Half THEN u - 2 * Half ELSE u

\* A non-negative double stored in an unsigned word.
ToWord(n) == IF n < 2 * Half * Half THEN Unsigned(n) ELSE 0

\* C's division of ints.
Quot(a, b) == IF a >= 0 THEN a \div b ELSE -((-a) \div b)
\* round((float) a / b): halves away from zero.
Round(a, b) == (2 * a + b) \div (2 * b)
\* sqrt(double), stored in a word.
Sqrt(n) == IF n < 0 THEN 0 ELSE CHOOSE r \in 0..n : r * r <= n /\ n < (r + 1) * (r + 1)

Init ==
  /\ method \in Methods
  /\ pc = "dark" /\ pages \in PageCounts /\ seen = <<>> /\ dk0 = 0
  /\ avg = 0 /\ rms = 0 /\ out_avg = 0 /\ out_std = 0 /\ data = 0 /\ res = 0

\* One turn of a loop over the pages.
NextPage(v) ==
  /\ pc = "dark" /\ Len(seen) < pages
  /\ seen' = Append(seen, v)
  /\ pc' = IF Len(seen) + 1 = pages THEN "syn" ELSE "dark"
  /\ UNCHANGED <<method, pages, out_avg, out_std, data, res>>

Sum(diff) == Signed(avg + diff)

\* avg_op of avg_1.c
AvgOp1(v) ==
  /\ method = "avg_1" /\ NextPage(v)
  /\ avg' = Sum(Round(v, pages))
  /\ UNCHANGED <<dk0, rms>>

\* avg_op of avg_2.c: page 0 is the reference value, the others are accumulated.
AvgOp2(v) ==
  /\ method = "avg_2" /\ NextPage(v)
  /\ IF seen = <<>> THEN dk0' = v /\ UNCHANGED avg
                   ELSE avg' = Sum(v - dk0) /\ UNCHANGED dk0
  /\ UNCHANGED rms

\* rms_op: the same with the squares.
RmsOp(v) ==
  /\ method = "rms" /\ NextPage(v)
  /\ IF seen = <<>>
     THEN dk0' = v /\ UNCHANGED <<avg, rms>>
     ELSE LET diff == v - dk0
          IN  avg' = Sum(diff) /\ rms' = ToWord(rms + diff * diff) /\ UNCHANGED dk0

\* image_syn: standard deviation and average.
Bug_RmsSq == Quot(rms - Quot(avg * avg, pages), pages)
RmsSq == Quot(rms - Quot(avg * avg, pages), pages - 1)
Bug_Average == Signed(Quot(avg, pages))
Average == Signed(Quot(avg, pages) + dk0)
ImageSyn ==
  /\ pc = "syn" /\ method = "rms" /\ pages # 1
  /\ rms' = ToWord(Sqrt(RmsSq)) /\ out_std' = rms'
  /\ avg' = Average /\ out_avg' = Unsigned(avg')
  /\ pc' = "sub"
  /\ UNCHANGED <<method, pages, seen, dk0, data, res>>

\* image_syn of avg_1.c: the sum is the average.
AvgSyn1 ==
  /\ pc = "syn" /\ method = "avg_1"
  /\ out_avg' = Unsigned(avg)
  /\ pc' = "done"
  /\ UNCHANGED <<method, pages, seen, dk0, avg, rms, out_std, data, res>>

\* image_syn of avg_2.c
AvgSyn2 ==
  /\ pc = "syn" /\ method = "avg_2"
  /\ avg' = Average /\ out_avg' = Unsigned(avg')
  /\ pc' = "done"
  /\ UNCHANGED <<method, pages, seen, dk0, rms, out_std, data, res>>

\* One dark page: the integer division by pages - 1 kills the process.
DivideByZero ==
  /\ pc = "syn" /\ method = "rms" /\ pages = 1
  /\ pc' = "killed"
  /\ UNCHANGED <<method, pages, seen, dk0, avg, rms, out_avg, out_std, data, res>>

\* sub_op, for a pixel the mask keeps.
Lld == Alpha * rms + Beta
Bug_SubOp(v) ==
  /\ pc = "sub"
  /\ data' = v
  /\ res' = IF Signed(v - avg) >= Lld THEN Unsigned(v - avg) ELSE 0
  /\ pc' = "done"
  /\ UNCHANGED <<method, pages, seen, dk0, avg, rms, out_avg, out_std>>
SubOp(v) ==
  /\ pc = "sub"
  /\ data' = v
  /\ res' = IF v - avg >= Lld THEN Unsigned(v - avg) ELSE 0
  /\ pc' = "done"
  /\ UNCHANGED <<method, pages, seen, dk0, avg, rms, out_avg, out_std>>

Next == \/ \E v \in Pixels : AvgOp1(v) \/ AvgOp2(v) \/ RmsOp(v) \/ SubOp(v)
        \/ AvgSyn1 \/ AvgSyn2 \/ ImageSyn \/ DivideByZero

Spec == Init /\ [][Next]_vars

-----------------------------------------------------------------------------
(***************************************************************************)
(* Correctness, against the textbook definitions over the values read.     *)
(***************************************************************************)
Total(s) ==
  LET sum[n \in 0..Len(s)] == IF n = 0 THEN 0 ELSE sum[n - 1] + s[n]
  IN  sum[Len(s)]
Squares == [n \in DOMAIN seen |-> seen[n] * seen[n]]
Diffs == [n \in DOMAIN seen |-> seen[n] - dk0]
DiffSquares == [n \in DOMAIN seen |-> Diffs[n] * Diffs[n]]

Quotients == [n \in DOMAIN seen |-> Round(seen[n], pages)]

\* The sums that image_syn starts from fit their words.
SumFits == IF method = "avg_1" THEN Total(Quotients) \in Word
           ELSE Total(Diffs) \in SignedWord
SquaresFit == Total(DiffSquares) \in Word

Computed == pc \in {"sub", "done"}

\* The type of every variable: all buffers keep their width.
TypeOK ==
  /\ method \in Methods
  /\ pc \in {"dark", "syn", "sub", "done", "killed"}
  /\ pages \in PageCounts /\ seen \in Seq(Pixels) /\ Len(seen) <= pages
  /\ dk0 \in Word /\ rms \in Word /\ avg \in SignedWord
  /\ out_avg \in Word /\ out_std \in Word /\ data \in Word /\ res \in Word

\* The average written to dark_avg.tif is less than 1 away from the mean of all
\* pages, for bright pixels too and whatever partial sums wrapped on the way, as
\* long as the last sum fits.  avg_1.c rounds once per page, and is away from the
\* mean by half a unit for each.
AverageRight ==
  Computed /\ SumFits =>
    LET off == out_avg * pages - Total(seen)
    IN  IF method = "avg_1" THEN 2 * off \in -(pages * pages)..(pages * pages)
                            ELSE off \in (1 - pages)..(pages - 1)

\* n^2 - n times the variance of the n values read.
Spread == pages * Total(Squares) - Total(seen) * Total(seen)

\* The standard deviation is that of the pages, rounded down, up to the one unit
\* that truncating A1^2/numDark may add to the variance.
StdRight ==
  /\ out_std * out_std * pages * (pages - 1) < Spread + pages
  /\ (out_std + 1) * (out_std + 1) * pages * (pages - 1) > Spread
StdRightIfFits == Computed /\ method = "rms" /\ SumFits /\ SquaresFit => StdRight

\* The sums do fit where the noise is low against the number of pages: 100 pages
\* that differ from the first by at most 25 have sums of squares below 2^16.
NoiseWithin(d) == \A n \in DOMAIN seen : seen[n] - dk0 \in -d..d
FitsIfQuiet ==
  \A d \in Word : NoiseWithin(d) =>
    /\ method # "avg_1" /\ pages * d < Half => SumFits
    /\ pages * (d * d) < 2 * Half => SquaresFit

\* What the data pixel has above the mean of the dark pages, times their number.
Signal == data * pages - Total(seen)
Threshold == Alpha * out_std + Beta

\* A signal that exceeds the noise threshold by one unit goes through the whole
\* reduction: what is left of the pixel is less than 1 away from the signal, even
\* where avg_buffer holds the average as a negative number.
SignalKept ==
  pc = "done" /\ method = "rms" /\ SumFits /\ Signal >= (Threshold + 1) * pages =>
    res * pages - Signal \in (1 - pages)..(pages - 1)

\* "image subtraction to compensate background noise" (sub.c:4): nothing is left
\* of a data pixel that is below the mean of the dark pages.
NoiseRemoved ==
  pc = "done" /\ method = "rms" /\ SumFits /\ Signal < 0 => res = 0

=============================================================================
