--------------------------- MODULE FecSender_proofs ---------------------------
(***************************************************************************)
(* The adaptation of L, I and M, alone and together with the generator, for *)
(* every width of I, every range of L and M and any contents of the        *)
(* reports.                                                                *)
(***************************************************************************)
EXTENDS FecSender, TLAPS

-------------------------------------------------------------------------------
(* The inductive invariant of Adaptation                                   *)

\* L is set by the first report and keeps to its range from then on.
LengthSet ==
  /\ L = 0 \/ L >= MinL
  /\ do_RL_times > 0 \/ cb \notin {"idle", "L"} => L >= MinL

\* previous_L is the L that the report in hand was read with.
PreviousLength ==
  /\ cb = "L" => previous_L = L
  /\ do_RL_times > 0 /\ cb # "idle" => previous_L >= MinL

\* A complete report asks for an interval within the window it was read with;
\* the first one, which finds no window, asks for 0 or 1.
DefaultWithin ==
  cb \notin {"idle", "M", "burst"} /\ incomplete # "last" =>
    /\ default_I <= previous_L \/ default_I <= 1
    /\ previous_L > 0 => default_I >= 1

\* While reports are complete I is never above the longest window except between
\* the agent's step and the clamp, and from the second report on it is positive
\* when the agent moves it.
IntervalWithin ==
  incomplete = "never" =>
    /\ I <= MaxL \/ (cb = "clamp" /\ I = MaxL + 1)
    /\ /\ type \in ITypes /\ cb # "clamp"
       /\ do_RL_times >= 2 \/ (do_RL_times = 1 /\ cb \in {"override", "M", "burst"})
       => I >= 1

\* Once a complete report has set it, I is within the window or within the one
\* the report was read with, whatever it was before.
IntervalRepaired ==
  incomplete # "last" /\ type \in ITypes /\ cb \in {"override", "M", "burst", "idle"} =>
    I <= L \/ I <= previous_L

\* The first report sets M for the types that use it.
NumberSet ==
  type \in MTypes /\ (do_RL_times > 0 \/ cb = "burst") => M >= 1

AInv ==
  /\ TypeOK /\ LengthSet /\ PreviousLength /\ DefaultWithin /\ IntervalWithin
  /\ IntervalRepaired /\ NumberSet

-------------------------------------------------------------------------------
(* Arithmetic                                                              *)

\* Division by a positive unit
LEMMA Quotient ==
  ASSUME NEW u \in Nat \ {0}, NEW n \in Nat, NEW x \in Nat
  PROVE  /\ x \div u \in Nat
         /\ x <= n * u => x \div u <= n
         /\ u <= x => 1 <= x \div u
  OBVIOUS

\* A number of units is at least a unit.
LEMMA Units ==
  ASSUME NEW u \in Nat \ {0}, NEW n \in Nat
  PROVE  n * u \in Nat /\ (n >= 1 => u <= n * u)
  OBVIOUS

\* Unsigned arithmetic changes nothing within the width.
LEMMA UnsignedFacts ==
  ASSUME NEW n \in Int
  PROVE  /\ Unsigned(n) \in 0 .. Width - 1
         /\ n \in 0 .. Width - 1 => Unsigned(n) = n
<1>1. Width \in Nat \ {0}
  BY AdaptationAssumption
<1> QED
  BY <1>1 DEF Unsigned

\* target_I, rounded down, is within the window and at least 1, except that
\* without a window it is 0 or 1.
LEMMA TargetWithin ==
  ASSUME NEW asked \in Asked, L \in Nat
  PROVE  /\ TargetI(asked) \div Unit \in Nat
         /\ TargetI(asked) \div Unit <= L \/ TargetI(asked) \div Unit <= 1
         /\ L > 0 => TargetI(asked) \div Unit >= 1
<1>1. Unit \in Nat \ {0} /\ MaxL + 1 \in Nat
  BY AdaptationAssumption
<1>2. L * Unit \in Nat /\ (L >= 1 => Unit <= L * Unit)
  BY <1>1, Units
<1>3. asked \in Nat
  <2>1. (MaxL + 1) * Unit \in Nat
    BY <1>1, Units
  <2> QED
    BY <2>1 DEF Asked
<1>4. TargetI(asked) \in Nat
  BY <1>1, <1>2, <1>3 DEF TargetI
<1>5. TargetI(asked) <= L * Unit \/ TargetI(asked) <= 1 * Unit
  BY <1>1, <1>2, <1>3 DEF TargetI
<1>6. L > 0 => Unit <= TargetI(asked)
  BY <1>1, <1>2, <1>3 DEF TargetI
<1> QED
  BY <1>1, <1>4, <1>5, <1>6, Quotient

-------------------------------------------------------------------------------
(* Adaptation                                                              *)

\* The invariant holds before the first report.
LEMMA AInit == Init => AInv
<1> SUFFICES ASSUME Init PROVE AInv
  OBVIOUS
<1>1. TypeOK
  <2>1. overrides \in BOOLEAN /\ i_is_number \in BOOLEAN
    BY Zenon DEF Init
  <2>2. /\ L = 0 /\ I = 0 /\ M = 0 /\ do_RL_times = 0 /\ default_I = 0 /\ previous_L = 0
        /\ cb = "idle" /\ incomplete = "never" /\ type \in Types
    BY Zenon DEF Init
  <2> QED
    BY <2>1, <2>2, AdaptationAssumption DEF TypeOK
<1>2. LengthSet /\ PreviousLength /\ DefaultWithin /\ NumberSet
  BY DEF Init, LengthSet, PreviousLength, DefaultWithin, NumberSet
<1>3. IntervalWithin /\ IntervalRepaired
  BY AdaptationAssumption DEF Init, IntervalWithin, IntervalRepaired
<1> QED
  BY <1>1, <1>2, <1>3 DEF AInv

\* A complete report asks for an interval within the window it finds.
LEMMA ReportAInv ==
  ASSUME AInv, NEW asked \in Asked, Report(asked)
  PROVE  AInv'
<1> USE AdaptationAssumption DEF AInv
<1>1. L \in Nat
  BY DEF TypeOK
<1>2. /\ default_I' \in Nat
      /\ default_I' <= L \/ default_I' <= 1
      /\ L > 0 => default_I' >= 1
  BY <1>1, TargetWithin DEF Report
<1>3. TypeOK'
  BY <1>2 DEF TypeOK, Report, OutOfBand
<1>4. LengthSet' /\ PreviousLength' /\ NumberSet'
  BY DEF TypeOK, Report, LengthSet, PreviousLength, NumberSet
<1>5. DefaultWithin'
  BY <1>2 DEF TypeOK, Report, DefaultWithin
<1>6. IntervalWithin' /\ IntervalRepaired'
  BY DEF TypeOK, Report, IntervalWithin, IntervalRepaired
<1> QED
  BY <1>3, <1>4, <1>5, <1>6

\* A report without the remote-inbound item only promises types.
LEMMA IncompleteAInv ==
  ASSUME AInv, IncompleteReport
  PROVE  AInv'
<1> USE AdaptationAssumption DEF AInv
<1>1. TypeOK'
  BY DEF TypeOK, IncompleteReport
<1>2. /\ LengthSet' /\ PreviousLength' /\ NumberSet'
      /\ DefaultWithin' /\ IntervalWithin' /\ IntervalRepaired'
  BY DEF TypeOK, IncompleteReport, LengthSet, PreviousLength, NumberSet, DefaultWithin,
         IntervalWithin, IntervalRepaired
<1> QED
  BY <1>1, <1>2

\* Each write of the callback keeps the invariant: L within its range, I moved
\* by one from a positive value and clamped, M positive.
LEMMA CallbackAInv ==
  ASSUME AInv, CallbackStep
  PROVE  AInv'
<1> USE AdaptationAssumption DEF AInv
<1>1. CASE SetL
  <2>1. TypeOK' /\ LengthSet' /\ PreviousLength' /\ DefaultWithin' /\ NumberSet'
    BY <1>1
       DEF SetL, GetL, TypeOK, LengthSet, PreviousLength, DefaultWithin, NumberSet,
           reportVars, locals
  <2>2. IntervalWithin' /\ IntervalRepaired'
    BY <1>1 DEF SetL, TypeOK, IntervalWithin, IntervalRepaired, reportVars, locals
  <2> QED BY <2>1, <2>2
<1>2. CASE AskAgentI
  <2>1. PICK delta \in {-1, 0, 1} : I' = Unsigned(I + delta)
    BY <1>2 DEF AskAgentI
  <2>2. I' \in 0 .. Width - 1 /\ (I + delta \in 0 .. Width - 1 => I' = I + delta)
    BY <2>1, UnsignedFacts DEF TypeOK
  <2>3. TypeOK'
    BY <1>2, <2>2 DEF AskAgentI, TypeOK, reportVars, locals
  <2>4. IntervalWithin' /\ IntervalRepaired'
    BY <1>2, <2>1, <2>2
       DEF AskAgentI, TypeOK, IntervalWithin, IntervalRepaired, reportVars, locals
  <2>5. LengthSet' /\ PreviousLength' /\ DefaultWithin' /\ NumberSet'
    BY <1>2
       DEF AskAgentI, LengthSet, PreviousLength, DefaultWithin, NumberSet, reportVars,
           locals
  <2> QED BY <2>3, <2>4, <2>5
<1>3. CASE SetClampedI
  BY <1>3
     DEF SetClampedI, ClampI, TypeOK, LengthSet, PreviousLength, DefaultWithin,
         IntervalWithin, IntervalRepaired, NumberSet, reportVars, locals
<1>4. CASE SetDefaultI
  <2>1. TypeOK' /\ LengthSet' /\ PreviousLength' /\ DefaultWithin' /\ NumberSet'
    BY <1>4
       DEF SetDefaultI, TypeOK, LengthSet, PreviousLength, DefaultWithin, NumberSet,
           reportVars, locals
  <2>2. IntervalWithin' /\ IntervalRepaired'
    BY <1>4
       DEF SetDefaultI, TypeOK, LengthSet, PreviousLength, DefaultWithin,
           IntervalWithin, IntervalRepaired, reportVars, locals
  <2> QED BY <2>1, <2>2
<1>5. CASE SkipI
  BY <1>5
     DEF SkipI, TypeOK, LengthSet, PreviousLength, DefaultWithin, IntervalWithin,
         IntervalRepaired, NumberSet, reportVars, locals
<1>6. CASE OverrideI
  <2>1. overrides' \in BOOLEAN /\ i_is_number' \in BOOLEAN
    BY <1>6, Zenon DEF OverrideI
  <2>2. /\ cb = "override" /\ cb' = "M" /\ default_I' = 0 /\ I' \in {I, default_I}
        /\ L' = L /\ M' = M /\ UNCHANGED reportVars
    BY <1>6 DEF OverrideI, Overridden
  <2> QED
    BY <2>1, <2>2
       DEF TypeOK, LengthSet, PreviousLength, DefaultWithin, IntervalWithin,
           IntervalRepaired, NumberSet, reportVars
<1>7. CASE SetM
  BY <1>7
     DEF SetM, ChooseM, TypeOK, LengthSet, PreviousLength, DefaultWithin,
         IntervalWithin, IntervalRepaired, NumberSet, reportVars, locals
<1>8. CASE Finish
  <2>1. overrides' \in BOOLEAN /\ i_is_number' \in BOOLEAN
    BY <1>8, Zenon DEF Finish, locals, TypeOK
  <2>2. /\ cb = "burst" /\ cb' = "idle" /\ M' \in {M, 1} /\ default_I' = default_I
        /\ do_RL_times' = IF do_RL_times < Warmup THEN do_RL_times + 1 ELSE do_RL_times
        /\ L' = L /\ I' = I /\ type' = type /\ previous_L' = previous_L
        /\ incomplete' = incomplete
    BY <1>8, Zenon DEF Finish, locals
  <2> QED
    BY <2>1, <2>2
       DEF TypeOK, LengthSet, PreviousLength, DefaultWithin, IntervalWithin,
           IntervalRepaired, NumberSet
<1> QED
  BY <1>1, <1>2, <1>3, <1>4, <1>5, <1>6, <1>7, <1>8 DEF CallbackStep

\* Every step of the statistics thread keeps the invariant.
LEMMA AStep ==
  ASSUME AInv, [Next]_vars
  PROVE  AInv'
<1>1. CASE UNCHANGED vars
  BY <1>1 DEF AInv, vars, reportVars, locals, TypeOK, LengthSet, PreviousLength,
              DefaultWithin, IntervalWithin, IntervalRepaired, NumberSet
<1> QED
  BY <1>1, ReportAInv, IncompleteAInv, CallbackAInv DEF Next

\* A step writes at most one of L, I and M, and never a value that
\* SharedParams does not allow.
LEMMA WriterStep ==
  ASSUME AInv, [Next]_vars
  PROVE  [Writer!ParamsNext]_Writer!params
<1> USE AdaptationAssumption
    DEF Writer!ParamsNext, Writer!params, Writer!WriteL, Writer!WriteI, Writer!WriteM
<1>0. AInv'
  BY AStep
<1>1. /\ L \in 0 .. MaxL /\ I \in 0 .. Width - 1 /\ M \in 0 .. MaxM
      /\ I' \in 0 .. Width - 1
  BY <1>0 DEF AInv, TypeOK
<1>2. CASE (\E asked \in Asked : Report(asked)) \/ IncompleteReport \/ UNCHANGED vars
  BY <1>2 DEF Report, IncompleteReport, vars
<1>3. CASE SetL
  BY <1>3 DEF SetL, GetL
<1>4. CASE AskAgentI \/ SetClampedI \/ SetDefaultI \/ SkipI \/ OverrideI
  BY <1>1, <1>4 DEF AskAgentI, SetClampedI, SetDefaultI, SkipI, OverrideI
<1>5. CASE SetM
  BY <1>5 DEF SetM, ChooseM
<1>6. CASE Finish
  BY <1>6 DEF Finish
<1> QED
  BY <1>2, <1>3, <1>4, <1>5, <1>6 DEF Next, CallbackStep

-------------------------------------------------------------------------------
(* The sending side: the generator and the adaptation together             *)

\* StreamGenerator with its lemmas; G is the same module without them.
P == INSTANCE StreamGenerator_proofs WITH
  Lengths <- MinL .. MaxL, Intervals <- 0 .. Width - 1, Numbers <- 1 .. MaxM

SInv == AInv /\ P!WindowInv

\* What StreamGenerator assumes of its constants holds of the sender's.
LEMMA GeneratorConstants ==
  /\ Types \subseteq P!RateTypes \cup P!IntervalTypes
  /\ MinL .. MaxL \subseteq Nat \ {0} /\ 0 .. Width - 1 \subseteq Nat
  /\ 1 .. MaxM \subseteq Nat
  /\ \A l \in MinL .. MaxL : l <= MaskLength
<1>1. Types \subseteq P!RateTypes \cup P!IntervalTypes
  BY AdaptationAssumption DEF P!RateTypes, P!IntervalTypes, LTypes, FixedLTypes
<1> QED
  BY <1>1, AdaptationAssumption, SenderAssumption

\* A step of the sending thread leaves everything of Adaptation alone.
LEMMA SendLeavesAdaptation ==
  ASSUME SendStep
  PROVE  UNCHANGED vars /\ UNCHANGED callback
<1>1. G!SenderStep /\ UNCHANGED callback
  BY DEF SendStep
<1>2. UNCHANGED <<L, I, M, type>>
  BY <1>1 DEF G!SenderStep, G!AddPacket, G!PopFront, G!Trimmed, G!Insert, G!Refuse,
              G!Decide, G!Encode, G!EncodeFails, G!EncodeEmpty, G!GetFecPackets, G!params
<1> QED
  BY <1>1, <1>2 DEF vars, callback, reportVars, locals

\* Seen from the statistics thread, the sender is Adaptation.
LEMMA SenderAdapts ==
  ASSUME [SenderNext]_senderVars
  PROVE  [Next]_vars
  BY SendLeavesAdaptation DEF SenderNext, AdaptStep, senderVars, vars

\* Seen from the sending thread, it is StreamGenerator: a step of the callback
\* that writes no parameter leaves even the history bit alone.
LEMMA SenderGenerates ==
  ASSUME SInv, [SenderNext]_senderVars
  PROVE  [G!Next]_G!vars
<1>1. CASE SendStep
  BY <1>1 DEF SendStep, G!Next
<1>2. CASE AdaptStep
  <2>1. [Writer!ParamsNext]_Writer!params
    BY <1>2, WriterStep DEF SInv, AdaptStep
  <2>2. type' = type
    BY <1>2 DEF AdaptStep, Next, Report, IncompleteReport, CallbackStep, SetL, AskAgentI,
                SetClampedI, SetDefaultI, SkipI, OverrideI, SetM, Finish, reportVars
  <2>3. CASE Writer!ParamsNext
    <3>1. G!ParamsNext
      BY <2>3 DEF Writer!ParamsNext, Writer!WriteL, Writer!WriteI, Writer!WriteM,
                  G!ParamsNext, G!WriteL, G!WriteI, G!WriteM
    <3> QED
      BY <1>2, <2>2, <3>1 DEF AdaptStep, sender, G!Next, G!ParamStep, G!window
  <2>4. CASE UNCHANGED Writer!params
    <3>1. L' = L /\ I' = I /\ M' = M
      BY <2>4 DEF Writer!params
    <3>2. disturbed \in BOOLEAN /\ ~(L < L)
      BY AdaptationAssumption DEF SInv, P!WindowInv, P!TypeOK, AInv, TypeOK
    <3>3. disturbed' = disturbed
      <4>1. disturbed' = (disturbed \/ L' < L)
        BY <1>2 DEF AdaptStep
      <4>2. ~(L' < L)
        BY <3>1, <3>2
      <4> QED
        BY <3>2, <4>1, <4>2, Zenon
    <3> QED
      BY <1>2, <2>2, <3>1, <3>3
         DEF AdaptStep, sender, G!vars, G!params, G!window, G!history
  <2> QED BY <2>1, <2>3, <2>4
<1>3. CASE UNCHANGED senderVars
  BY <1>3 DEF senderVars, vars, sender, reportVars, G!vars, G!params, G!window, G!history
<1> QED
  BY <1>1, <1>2, <1>3 DEF SenderNext

\* G and P are the same specification.
LEMMA SameGenerator == [G!Next]_G!vars => [P!Next]_P!vars
  BY ZenonT(60)
     DEF G!Next, P!Next, G!SenderStep, P!SenderStep, G!AddPacket, P!AddPacket,
         G!PopFront, P!PopFront, G!Trimmed, P!Trimmed, G!Insert, P!Insert, G!Refuse,
         P!Refuse, G!Decide, P!Decide, G!Encode, P!Encode, G!EncodeFails,
         P!EncodeFails, G!EncodeEmpty, P!EncodeEmpty, G!GetFecPackets,
         P!GetFecPackets, G!TooLong, P!TooLong, G!EraseFar, P!EraseFar, G!FirstNear,
         P!FirstNear, G!Near, P!Near, G!MinDiff, P!MinDiff, G!ForwardDiff,
         P!ForwardDiff, G!NextSeq, P!NextSeq, G!Count, P!Count, G!Uncovered,
         P!Uncovered, G!Generates, P!Generates, G!AllNew, P!AllNew, G!RateReached,
         P!RateReached, G!NumFecPackets, P!NumFecPackets, G!Protectable,
         P!Protectable, G!MaskOf, P!MaskOf, G!AllCovered, P!AllCovered, G!Cap, P!Cap,
         G!NoPacket, P!NoPacket, G!ResetState, P!ResetState, G!RateTypes, P!RateTypes, G!IntervalTypes,
         P!IntervalTypes, G!FixedNumberTypes, P!FixedNumberTypes, G!ParamStep,
         P!ParamStep, G!ParamsNext, P!ParamsNext, G!WriteL, P!WriteL, G!WriteI,
         P!WriteI, G!WriteM, P!WriteM, G!params, P!params, G!window, P!window,
         G!history, P!history, G!vars, P!vars

\* They start alike.
LEMMA SameStart == G!Init => P!Init
  BY DEF G!Init, P!Init, G!NoPacket, P!NoPacket, G!ParamsInit, P!ParamsInit

\* Both threads' invariants hold at the start.
LEMMA SInit == SenderInit => SInv
<1>1. G!Init => P!WindowInv
  BY SameStart, P!WindowInit, GeneratorConstants, SenderAssumption
<1> QED
  BY <1>1, AInit DEF SenderInit, SInv

\* Every step of either thread keeps both invariants.
LEMMA SStep ==
  ASSUME SInv, [SenderNext]_senderVars
  PROVE  SInv'
<1>1. AInv'
  BY SenderAdapts, AStep DEF SInv
<1>2. [P!Next]_P!vars
  BY SenderGenerates, SameGenerator
<1>3. P!WindowInv'
  BY <1>2, P!WindowStep, GeneratorConstants, SenderAssumption DEF SInv
<1> QED
  BY <1>1, <1>3 DEF SInv

\* While reports are complete the unsigned decrement of I never wraps.
THEOREM IntervalNeverWraps == SenderSpec => []NeverWraps
<1>1. SInv => NeverWraps
  BY AdaptationAssumption DEF SInv, AInv, TypeOK, IntervalWithin, NeverWraps
<1> QED
  BY <1>1, SInit, SStep, PTL DEF SenderSpec

\* While reports are complete, an interval longer than the window is the one
\* the previous window allowed.
THEOREM ExcessAlwaysStale == SenderSpec => []ExcessIsStale
<1>1. SInv => ExcessIsStale
  BY AdaptationAssumption DEF SInv, AInv, TypeOK, IntervalRepaired, ExcessIsStale
<1> QED
  BY <1>1, SInit, SStep, PTL DEF SenderSpec

\* The callback implements the abstract writer that the generator was
\* specified against.
THEOREM CallbackImplementsParams == SenderSpec => ImplementsParams
<1>1. SenderInit => Writer!ParamsInit
  BY DEF SenderInit, Init, Writer!ParamsInit
<1>2. SInv /\ [SenderNext]_senderVars => [Writer!ParamsNext]_Writer!params
  BY SenderAdapts, WriterStep DEF SInv
<1> QED
  BY <1>1, <1>2, SInit, SStep, PTL DEF SenderSpec, ImplementsParams, Writer!ParamsSpec

\* The sending side implements the generator with an abstract writer, so what
\* StreamGenerator_proofs proves of the generator holds of the sender.
THEOREM SenderImplementsGenerator == SenderSpec => ImplementsGenerator
<1>1. SenderInit => G!Init
  BY DEF SenderInit
<1>2. SInv /\ [SenderNext]_senderVars => [G!Next]_G!vars
  BY SenderGenerates
<1> QED
  BY <1>1, <1>2, SInit, SStep, PTL DEF SenderSpec, ImplementsGenerator, G!Spec

\* When the number of FEC packets given on the command line is positive, the
\* encoder never throws the window away once a report has been handled.
THEOREM KeptAfterStart ==
  ASSUME GenerateFecNum > 0
  PROVE  SenderSpec => []WindowKeptAfterStart
<1>1. ASSUME SInv
      PROVE  WindowKeptAfterStart
  <2> SUFFICES ASSUME do_RL_times > 0, media_packets # <<>>
               PROVE  G!NumFecPackets > 0 /\ G!Protectable(media_packets)
    BY DEF WindowKeptAfterStart
  <2>1. G!NumFecPackets > 0
    <3>1. type \in MTypes => M >= 1
      BY <1>1 DEF SInv, AInv, NumberSet
    <3>2. type \in MTypes \/ type \in G!FixedNumberTypes
      BY <1>1, AdaptationAssumption
         DEF SInv, AInv, TypeOK, MTypes, LTypes, FixedLTypes, G!FixedNumberTypes
    <3>3. M \in Nat
      BY <1>1, AdaptationAssumption DEF SInv, AInv, TypeOK
    <3> QED
      BY <3>1, <3>2, <3>3 DEF G!NumFecPackets
  <2>2. P!MaskFits
    BY <1>1, P!WindowFits, GeneratorConstants, SenderAssumption DEF SInv
  <2>3. G!Protectable(media_packets)
    BY <2>2 DEF P!MaskFits, P!Protectable, P!MaskOf, P!ForwardDiff,
                G!Protectable, G!MaskOf, G!ForwardDiff
  <2> QED
    BY <2>1, <2>3
<1>2. SInv => WindowKeptAfterStart
  BY <1>1
<1> QED
  BY <1>2, SInit, SStep, PTL DEF SenderSpec

===============================================================================
