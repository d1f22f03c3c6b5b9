------------------------------- MODULE RSMatrix -------------------------------
(***************************************************************************)
(* reed_sol_skipped_stream_decoding_matrix: from the FEC packets selected, *)
(* the packets they protect and those of them that arrived, it inverts the *)
(* coding matrix by elimination without row exchange.  The rows of arrived *)
(* packets are unit rows throughout and are left out: a row here is the    *)
(* row of one unknown, that is of one FEC packet, split into its left half *)
(* (the coding matrix) and its right half (the inverse in the making).     *)
(***************************************************************************)
EXTENDS RSCode, FiniteSets, Sequences

CONSTANT Inputs   \* records [gen: list of generations, mask: list of sets of
                  \* window positions, unknown: set of positions]

VARIABLES
  in,        \* the arguments: base numbers, masks, what has not arrived
  left,      \* vdm, columns 0 .. n-1
  right,     \* vdm, columns n .. 2n-1
  r_i,       \* the row the loop is at
  pc

vars == <<in, left, right, r_i, pc>>

Columns == UNION {in.mask[i] : i \in DOMAIN in.mask}
K == Len(in.gen)

\* r_list: the m-th unknown column is the column of the m-th row
Now_r == Cardinality(in.unknown)
Col(m) == CHOOSE c \in in.unknown : Cardinality({d \in in.unknown : d < c}) = m - 1
Row == 1 .. Now_r

Coef(i, c) == Coefficient(in.gen[i], in.mask[i], c)

Init ==
  /\ in \in Inputs
  /\ left = <<>> /\ right = <<>> /\ r_i = 1
  /\ pc = "build"

\* Row i of the matrix and of the identity beside it, once the columns of arrived
\* packets are moved to the right half
LeftRow(i) == [c \in Columns |-> IF c \in in.unknown THEN Coef(i, c) ELSE 0]
RightRow(i) ==
  [c \in Columns |-> IF c \notin in.unknown THEN Coef(i, c)
                     ELSE IF c = Col(i) THEN 1 ELSE 0]

\* The matrix is filled, the identity set beside it, and the columns of arrived
\* packets moved to the right half.  More unknowns than FEC packets: NULL.
Build ==
  /\ pc = "build"
  /\ IF Now_r > K
     THEN pc' = "null" /\ UNCHANGED <<left, right>>
     ELSE /\ left' = [i \in Row |-> LeftRow(i)]
          /\ right' = [i \in Row |-> RightRow(i)]
          /\ pc' = IF Now_r = 0 THEN "done" ELSE "forward"
  /\ UNCHANGED <<in, r_i>>

Scale_Skipped(row, t) == row
Scale(row, t) == [c \in Columns |-> Mul(row[c], t)]
AddRow_Unscaled(row, other, t) == [c \in Columns |-> row[c] ^^ other[c]]
AddRow(row, other, t) == [c \in Columns |-> row[c] ^^ Mul(other[c], t)]

\* One turn of the forward loop: normalise row r_i by its pivot and clear the
\* pivot's column below.  A zero pivot: NULL.
Forward ==
  LET pivot == left[r_i][Col(r_i)]
      l == Scale(left[r_i], Inv(pivot))
      r == Scale(right[r_i], Inv(pivot))
  IN
  /\ pc = "forward"
  /\ IF pivot = 0
     THEN pc' = "null" /\ UNCHANGED <<left, right, r_i>>
     ELSE /\ left' = [i \in Row |->
               IF i = r_i THEN l
               ELSE IF i > r_i THEN AddRow(left[i], l, left[i][Col(r_i)])
               ELSE left[i]]
          /\ right' = [i \in Row |->
               IF i = r_i THEN r
               ELSE IF i > r_i THEN AddRow(right[i], r, left[i][Col(r_i)])
               ELSE right[i]]
          /\ IF r_i = Now_r THEN pc' = "backward" /\ r_i' = r_i
                            ELSE pc' = pc /\ r_i' = r_i + 1
  /\ UNCHANGED in

\* One turn of the backward loop: clear the pivot's column above.
Backward ==
  /\ pc = "backward"
  /\ left' = [i \in Row |->
       IF i < r_i THEN AddRow(left[i], left[r_i], left[i][Col(r_i)]) ELSE left[i]]
  /\ right' = [i \in Row |->
       IF i < r_i THEN AddRow(right[i], right[r_i], left[i][Col(r_i)]) ELSE right[i]]
  /\ IF r_i = 1 THEN pc' = "done" /\ r_i' = r_i ELSE pc' = pc /\ r_i' = r_i - 1
  /\ UNCHANGED in

Returned == pc \in {"done", "null"} /\ UNCHANGED vars

Next == Build \/ Forward \/ Backward \/ Returned

Spec == Init /\ [][Next]_vars

-------------------------------------------------------------------------------
(* Properties *)

\* Row i of the right half applied to what the receiver has, the FEC packets and
\* the arrived packets, gives this coefficient of packet c.
Applied(i, c) ==
  XorSum([j \in Row |-> Mul(right[i][Col(j)], Coef(j, c))])
    ^^ (IF c \in in.unknown THEN 0 ELSE right[i][c])

\* The table returned recovers every unknown packet exactly: its row for a packet
\* applied to the received data is that packet and nothing of any other.
TableRecovers ==
  pc = "done" =>
    \A i \in Row, c \in Columns : Applied(i, c) = IF c = Col(i) THEN 1 ELSE 0

\* NULL is returned just when there are too many unknowns or some leading minor
\* of the coding matrix is zero, by the determinants' definition.
NullJustified ==
  LET A == [i \in Row |-> [m \in Row |-> Coef(i, Col(m))]] IN
  /\ pc = "null" => Now_r > K \/ HasZeroMinor(A, Now_r)
  /\ pc = "done" => ~HasZeroMinor(A, Now_r)
===============================================================================
