------------------------------ MODULE Adaptation ------------------------------
(***************************************************************************)
(* FECStatsObserver::OnStatsDelivered: one statistics report adapts the    *)
(* window length L, the interval I and the number M of FEC packets.  Each  *)
(* write of one of the three is a step of its own, because the sending     *)
(* thread reads them without a lock (intermediate values included).        *)
(*                                                                         *)
(* What the report says is abstracted to what the code decides with it:    *)
(* the interval the loss rate asks for (target_I, in units of 1/Unit),     *)
(* whether the moving averages are numbers (the isnan checks), the answers *)
(* of the two learning agents and whether bursts are short.  A report      *)
(* without a remote-inbound-rtp item leaves default_I and I_inv_EMALR_10   *)
(* as the stack held them.                                                 *)
(***************************************************************************)
EXTENDS Integers

CONSTANTS
  Types,       \* window types the program may be started with
  MinL, MaxL,  \* getL clamps to 3 .. 32
  MaxM,        \* the agent for M answers 1 .. 5
  DefaultL,    \* inputV::Params::default_L, assumed a length getL could give:
               \* the command line is not checked for it
  Warmup,      \* reports before the agents are asked (5)
  Unit,        \* target_I is counted in 1 / Unit
  Width,       \* I is a uint32_t: it wraps at Width
  StackValues  \* what an uninitialised default_I may hold

LTypes == {"RLSRSFEC", "SwiftFECAblI", "SwiftFECAblM", "RSFECStreamStableRate"}
FixedLTypes == {"SwiftFECAblL"}
ITypes == {"RLSRSFEC", "SwiftFECAblL", "SwiftFECAblM"}
MTypes == {"RLSRSFEC", "SwiftFECAblI", "SwiftFECAblL"}

ASSUME AdaptationAssumption ==
  /\ Types \subseteq LTypes \cup FixedLTypes
  /\ MinL \in Nat \ {0} /\ MaxL \in Nat /\ MinL <= MaxL /\ MaxM \in Nat \ {0}
  /\ DefaultL \in MinL .. MaxL
  /\ Warmup \in Nat /\ Warmup >= 2   \* the first report may leave I = 0
  /\ Unit \in Nat \ {0}
  /\ Width \in Nat /\ MaxL + 1 < Width /\ StackValues \subseteq 0 .. Width - 1

VARIABLES
  L, I, M,
  type,          \* inputV::Params::type, read once from the command line
  do_RL_times,   \* reports handled, counted up to Warmup
  default_I,     \* local of the callback
  overrides,     \* I_inv_EMALR_10 is below 0.75 or above 1.5
  i_is_number,   \* I_inv_EMALR_10 is not NaN
  previous_L,    \* L when the last report came (history)
  incomplete,    \* the "last" report, or a "past" one, lacked the remote-inbound
                 \* item (history)
  cb             \* where the callback is

reportVars == <<type, do_RL_times, previous_L, incomplete>>
locals == <<default_I, overrides, i_is_number>>
vars == <<L, I, M, reportVars, locals, cb>>

Init ==
  /\ L = 0 /\ I = 0 /\ M = 0 /\ do_RL_times = 0
  /\ default_I = 0 /\ overrides = FALSE /\ i_is_number = FALSE
  /\ previous_L = 0 /\ incomplete = "never" /\ cb = "idle"
  /\ type \in Types

-------------------------------------------------------------------------------
\* target_I from the loss rate: 1 / (2.5 * loss) in units, 0 for no loss
TargetI_Unclamped(asked) == IF asked = 0 THEN L * Unit ELSE asked
TargetI(asked) ==
  LET high == IF asked > L * Unit THEN L * Unit ELSE asked
  IN  IF asked = 0 THEN L * Unit ELSE IF high < Unit THEN Unit ELSE high

\* I / target_I is outside 0.75 .. 1.5 (no comparison holds for 0 / 0)
OutOfBand(target) == 4 * I * Unit < 3 * target \/ 2 * I * Unit > 3 * target

Asked == 0 .. (MaxL + 1) * Unit

\* A report arrives; the items it has are read with the L and I in force.
Report(asked) ==
  /\ cb = "idle"
  /\ default_I' = TargetI(asked) \div Unit
  /\ overrides' = OutOfBand(TargetI(asked))
  /\ i_is_number' = ~(I = 0 /\ TargetI(asked) = 0)
  /\ previous_L' = L
  /\ cb' = "L"
  /\ incomplete' = IF incomplete = "never" THEN "never" ELSE "past"
  /\ UNCHANGED <<L, I, M, type, do_RL_times>>

IncompleteReport ==
  /\ cb = "idle"
  /\ default_I' \in StackValues
  /\ i_is_number' \in BOOLEAN
  /\ overrides' \in {FALSE, i_is_number'}
  /\ previous_L' = L
  /\ incomplete' = "last"
  /\ cb' = "L"
  /\ UNCHANGED <<L, I, M, type, do_RL_times>>

\* getL after the warm-up and when its inputs are numbers, 32 otherwise
GetL_NoFloor == 0 .. MaxL
GetL == MinL .. MaxL

SetL ==
  /\ cb = "L"
  /\ \/ type \in LTypes /\ L' = MaxL
     \/ type \in LTypes /\ do_RL_times >= Warmup /\ L' \in GetL
     \/ type \in FixedLTypes /\ L' = DefaultL
  /\ cb' = "I"
  /\ UNCHANGED <<I, M, reportVars, locals>>

\* The agent for I moves it by one; I is unsigned.
Unsigned(n) == n % Width

AskAgentI ==
  /\ cb = "I" /\ type \in ITypes /\ do_RL_times >= Warmup /\ i_is_number
  /\ \E delta \in {-1, 0, 1} : I' = Unsigned(I + delta)
  /\ cb' = "clamp"
  /\ UNCHANGED <<L, M, reportVars, locals>>

ClampI_High == IF I > L THEN L ELSE I
ClampI == IF I > L THEN L ELSE IF I < 1 THEN 1 ELSE I

SetClampedI ==
  /\ cb = "clamp"
  /\ I' = ClampI
  /\ cb' = "override"
  /\ UNCHANGED <<L, M, reportVars, locals>>

\* Warm-up, or some moving average is not a number
SetDefaultI ==
  /\ cb = "I" /\ type \in ITypes
  /\ I' = default_I
  /\ cb' = "override"
  /\ UNCHANGED <<L, M, reportVars, locals>>

SkipI ==
  /\ cb = "I" /\ type \notin ITypes
  /\ cb' = "override"
  /\ UNCHANGED <<L, I, M, reportVars, locals>>

Overridden == IF overrides THEN default_I ELSE I

\* The last use of the locals, which are forgotten with it
OverrideI ==
  /\ cb = "override"
  /\ I' = Overridden
  /\ default_I' = 0 /\ overrides' = FALSE /\ i_is_number' = FALSE
  /\ cb' = "M"
  /\ UNCHANGED <<L, M, reportVars>>

\* The agent for M after the warm-up, 1 otherwise
ChooseM_AfterWarmup ==
  \/ type \in MTypes /\ do_RL_times >= Warmup /\ M' \in 1 .. MaxM
  \/ UNCHANGED M
ChooseM ==
  \/ type \in MTypes /\ do_RL_times >= Warmup /\ M' \in 1 .. MaxM
  \/ type \in MTypes /\ M' = 1
  \/ type \notin MTypes /\ UNCHANGED M

SetM ==
  /\ cb = "M"
  /\ ChooseM
  /\ cb' = "burst"
  /\ UNCHANGED <<L, I, reportVars, locals>>

\* Short bursts ask for one FEC packet, whatever the type; then the record.
Finish ==
  /\ cb = "burst"
  /\ M' \in {M, 1}
  /\ do_RL_times' = IF do_RL_times < Warmup THEN do_RL_times + 1 ELSE do_RL_times
  /\ cb' = "idle"
  /\ UNCHANGED <<L, I, type, previous_L, incomplete, locals>>

CallbackStep ==
  SetL \/ AskAgentI \/ SetClampedI \/ SetDefaultI \/ SkipI \/ OverrideI \/ SetM \/ Finish

Next == (\E asked \in Asked : Report(asked)) \/ IncompleteReport \/ CallbackStep

Spec == Init /\ [][Next]_vars

-------------------------------------------------------------------------------
(* Properties.                                                             *)

\* I stays a 32-bit unsigned number and the locals keep their ranges.
TypeOK ==
  /\ L \in 0 .. MaxL /\ I \in 0 .. Width - 1 /\ M \in 0 .. MaxM
  /\ do_RL_times \in 0 .. Warmup /\ default_I \in 0 .. Width - 1
  /\ overrides \in BOOLEAN /\ i_is_number \in BOOLEAN
  /\ previous_L \in 0 .. MaxL /\ incomplete \in {"never", "past", "last"}
  /\ type \in Types
  /\ cb \in {"idle", "L", "I", "clamp", "override", "M", "burst"}

\* After a complete report, an interval longer than the window is only ever the
\* one the previous window allowed: I exceeds L only by what L has just lost, and
\* the next report repairs it.  Whatever an incomplete report made of I is gone
\* with the first complete one.
ExcessIsStale ==
  cb = "idle" /\ type \in ITypes /\ incomplete # "last" /\ I > L => I <= previous_L

\* While reports are complete the decrement never wraps, not even for a moment,
\* although the first report, which finds L = 0, may set I to 0.
NeverWraps == incomplete = "never" => I <= MaxL + 1

\* What the sending thread relies on (module SharedParams), intermediate values
\* included: from the first report on L is a length the mask can hold and M is
\* one the encoder has room for.  I may be any number when a report lacks the
\* remote-inbound item.
Writer == INSTANCE SharedParams WITH
  Lengths <- MinL .. MaxL, Intervals <- 0 .. Width - 1, Numbers <- 1 .. MaxM
ImplementsParams == Writer!ParamsSpec

===============================================================================
