------------------------------ MODULE QsaTopK ------------------------------
(***************************************************************************)
(* The choice of KV blocks a row attends to, patch_qsa_exact_topk.py.  The *)
(* scoring kernel writes the columns of the blocks a row can see into a    *)
(* buffer that was never cleared; the expansion kernel reads the first     *)
(* min(visible, block_topk) ids chosen.  Rows are independent: one row.    *)
(* VLLM_QSA_EXACT_TOPK=1; the other modes end in the stock kernel, of      *)
(* which the patch says that it may drop candidates.                       *)
(***************************************************************************)
EXTENDS Integers, FiniteSets, FiniteSetsExt

CONSTANTS
  BlockTopk,   \* block_topk
  MaxColumns,  \* most columns of a batch
  Scores,      \* what memory can hold, scores or garbage
  NegInf

ASSUME TopkAssumption ==
  /\ {BlockTopk, MaxColumns} \subseteq Nat \ {0}
  /\ Scores \subseteq Int /\ NegInf \in Int /\ \A s \in Scores : NegInf < s

VARIABLES
  columns,   \* columns of the batch
  visible,   \* visible_blocks of the row
  logits,    \* the scores by column
  blocks     \* the ids chosen, kept from batch to batch

qsaVars == <<columns, visible, logits, blocks>>

Columns == 0 .. columns - 1

QsaInit ==
  /\ columns = 1 /\ visible = 0
  /\ logits = [c \in 0 .. 0 |-> NegInf]
  /\ blocks = [i \in 1 .. BlockTopk |-> -1]

\* A new batch is scored.  Columns past the visible blocks hold anything.
ScoreBlocks ==
  /\ columns' \in 1 .. MaxColumns
  /\ visible' \in 0 .. columns'
  /\ logits' \in [0 .. columns' - 1 -> Scores]
  /\ UNCHANGED blocks

\* One column of the garbage survives.
QsaMaskInvisible_OffByOne ==
  [c \in Columns |-> IF c > visible THEN NegInf ELSE logits[c]]

QsaMaskInvisible == [c \in Columns |-> IF c >= visible THEN NegInf ELSE logits[c]]

\* torch.topk(sorted=False): k columns of the greatest values, those above the
\* k-th value before those that equal it, otherwise in any order.
TorchTopk(values, k) ==
  {s \in [1 .. k -> Columns] :
     /\ \A i, j \in 1 .. k : s[i] = s[j] => i = j
     /\ \A i \in 1 .. k, c \in Columns \ {s[j] : j \in 1 .. k} : values[s[i]] >= values[c]
     /\ \A i, j \in 1 .. k :
          i < j /\ values[s[i]] < values[s[j]] => \E m \in 1 .. k : values[s[m]] < values[s[i]]}

ExactTopk ==
  LET k == Min({BlockTopk, columns})
  IN  /\ logits' = QsaMaskInvisible
      /\ \E s \in TorchTopk(logits', k) :
           blocks' = [i \in 1 .. BlockTopk |-> IF i <= k THEN s[i] ELSE -1]

SelectBlocks == ExactTopk /\ UNCHANGED <<columns, visible>>

----------------------------------------------------------------------------

\* The slots the expansion kernel reads.
BlocksRead == {blocks[i] : i \in 1 .. Min({visible, BlockTopk})}

\* The blocks read are as many as can be, all visible, and none left unread scores
\* higher.
BestBlocks ==
  /\ Cardinality(BlocksRead) = Min({visible, BlockTopk})
  /\ BlocksRead \subseteq 0 .. visible - 1
  /\ \A b \in BlocksRead, c \in 0 .. visible - 1 \ BlocksRead : logits[b] >= logits[c]
=============================================================================
