----------------------------- MODULE Computations -----------------------------
(***************************************************************************)
(* The computations of the services that stand by themselves, each worked  *)
(* on one input, step by step:                                             *)
(*   - AudioPreprocessor.normalize(), the factors a recording is resampled *)
(*     with, from the greatest common divisor that _gcd() computes;        *)
(*   - the confidence of a transcript, over the segments that transcribe() *)
(*     collects (Transcript.low_confidence, is_segment_low_confidence);    *)
(*   - the address ConnectivityProbe asks (_derive_health_url).            *)
(***************************************************************************)
EXTENDS Integers, Sequences, SequencesExt

CONSTANTS SampleRates,      \* of recordings, in Hz
          TargetRate,       \* TARGET_SAMPLE_RATE_HZ
          Logprobs,         \* avg_logprob of a segment, in tenths
          NoLogprob,        \* a segment without one
          MaxSegments,      \* bound on the segments of a transcript
          Parts,            \* what may stand between the slashes of a path
          MaxParts          \* bound on how many of them do

ASSUME RatesAssumption == SampleRates \subseteq Nat \ {0} /\ TargetRate \in Nat \ {0}
ASSUME LogprobsAssumption == Logprobs \subseteq Int /\ NoLogprob \notin Logprobs

VARIABLES
  task,       \* what is computed
  rate,       \* normalize(): samplerate
  a, b,       \*   the variables of _gcd()
  segments,   \* transcribe(): avg_logprob of each segment so far
  sure,       \*   language_probability is 0.5 at least
  url         \* central_server_url, as its parts between slashes

\* What stands between two slashes in a row.
Nothing == ""

vars == <<task, rate, a, b, segments, sure, url>>

Init ==
  /\ task \in {"resample", "transcribe", "probe"}
  /\ rate \in SampleRates
  /\ a = rate
  /\ b = TargetRate
  /\ segments = <<>>
  /\ sure \in BOOLEAN
  /\ url = <<"https:", Nothing, "host">>
  /\ task # "resample" => rate = CHOOSE r \in SampleRates : TRUE
  /\ task # "transcribe" => sure

------------------------------------------------------------------------------
(* normalize()                                                              *)

\* Mutant of Divide: the two assignments are made one after the other.
DivideInTurn ==
  /\ task = "resample" /\ b # 0
  /\ a' = b
  /\ b' = a' % b
  /\ UNCHANGED <<task, rate, segments, sure, url>>

\* One turn of the loop of _gcd().
Divide ==
  /\ task = "resample" /\ b # 0
  /\ a' = b
  /\ b' = a % b
  /\ UNCHANGED <<task, rate, segments, sure, url>>

\* A recording at the target rate is left as it is.
Resampled == task = "resample" /\ rate # TargetRate /\ b = 0

up   == TargetRate \div a
down == rate \div a

------------------------------------------------------------------------------
(* The confidence of a transcript                                           *)

AddSegment ==
  /\ task = "transcribe"
  /\ Len(segments) < MaxSegments
  /\ \E l \in Logprobs \cup {NoLogprob} : segments' = Append(segments, l)
  /\ UNCHANGED <<task, rate, a, b, sure, url>>

\* s.avg_logprob or 0.0
Counted(l) == IF l = NoLogprob THEN 0 ELSE l

\* sum(...) of the first segments
Sum[n \in 0..Len(segments)] == IF n = 0 THEN 0 ELSE Sum[n - 1] + Counted(segments[n])

Total == Sum[Len(segments)]

\* Mutant of LowConfidence: the threshold belongs to the low side.
LowConfidenceAt == ~sure \/ (segments # <<>> /\ Total <= -10 * Len(segments))

\* Transcript.low_confidence: the mean is below -1.0.
LowConfidence == ~sure \/ (segments # <<>> /\ Total < -10 * Len(segments))

\* is_segment_low_confidence
LowSegment(l) == ~sure \/ (l # NoLogprob /\ l < -10)

------------------------------------------------------------------------------
(* The address of the probe                                                 *)

AddPart ==
  /\ task = "probe"
  /\ Len(url) < 3 + MaxParts
  /\ \E p \in Parts : url' = Append(url, p)
  /\ UNCHANGED <<task, rate, a, b, segments, sure>>

\* rstrip("/"): empty parts at the end.
Stripped(u) ==
  LET n == CHOOSE i \in 1..Len(u) :
             /\ u[i] # Nothing \/ i = 1
             /\ \A k \in (i + 1)..Len(u) : u[k] = Nothing
  IN  SubSeq(u, 1, n)

Sibling(u) == Front(u) \o <<"health">>

\* Mutant of HealthUrl: only the test is made without the slashes.
HealthUrlUnstripped(u) ==
  IF Len(Stripped(u)) >= 2 /\ Last(Stripped(u)) = "health" THEN u ELSE Sibling(u)

\* _derive_health_url; a URL of one part gets a second.
HealthUrl(u) ==
  LET s == Stripped(u) IN
  CASE Len(s) >= 2 /\ Last(s) = "health" -> u
    [] Len(s) >= 2 /\ Last(s) # "health" -> Sibling(s)
    [] Len(s) < 2 -> s \o <<"health">>

------------------------------------------------------------------------------

Next == Divide \/ AddSegment \/ AddPart

Spec == Init /\ [][Next]_vars
------------------------------------------------------------------------------
(* Properties                                                               *)

Divides(d, n) == n % d = 0

\* The factors resample_poly is called with are whole and turn the rate of any
\* recording into the target rate exactly, in lowest terms: no common factor makes
\* its filter longer.
ResampleExact ==
  Resampled =>
    /\ a # 0
    /\ rate * up = TargetRate * down
    /\ \A d \in 2..up : ~(Divides(d, up) /\ Divides(d, down))

\* The two confidence checks, which count a missing avg_logprob and the mean in ways of
\* their own, agree: a transcript is not flagged without a cause, its language or a
\* segment that would be flagged itself, and is when every segment would be.
ReviewHasCause ==
  task = "transcribe" =>
    /\ LowConfidence => ~sure \/ \E i \in DOMAIN segments : LowSegment(segments[i])
    /\ segments # <<>> /\ (\A i \in DOMAIN segments : LowSegment(segments[i])) => LowConfidence

\* The probe asks the sibling of the reports endpoint that is called health, with or
\* without slashes at the end of the configured URL; deriving it once more from the
\* result changes nothing.
HealthUrlIsSibling ==
  task = "probe" =>
    /\ HealthUrl(HealthUrl(url)) = HealthUrl(url)
    /\ Len(Stripped(url)) > 3 =>
         Stripped(HealthUrl(url)) = Front(Stripped(url)) \o <<"health">>
=============================================================================
