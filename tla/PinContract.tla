---------------------------- MODULE PinContract ----------------------------
(***************************************************************************)
(* What the never-evict pin promises, with no pool, queue or block in      *)
(* sight: ordinary traffic may cache and evict whatever it likes, but a    *)
(* protected hash stays cached and protected until the pin is replaced;    *)
(* never more than cap hashes are protected, all of them pinned.           *)
(***************************************************************************)
EXTENDS Integers, FiniteSets

CONSTANTS
  Hashes,         \* block hashes
  MarkedPrompts,  \* hash sets a marked prompt may pin
  PromptCap       \* the cap that goes with them

VARIABLES
  resident,   \* hashes some block of the pool carries
  protected,  \* hashes held back from eviction
  pinned,     \* hashes the pin is armed with
  cap         \* how many of them it may protect

contractVars == <<resident, protected, pinned, cap>>

Init ==
  /\ resident = {}
  /\ protected = {}
  /\ pinned = {}
  /\ cap = 0

Traffic ==
  /\ resident' \subseteq Hashes
  /\ protected \subseteq protected'
  /\ protected' \subseteq pinned \intersect resident'
  /\ protected' = protected \/ Cardinality(protected') <= cap
  /\ UNCHANGED <<pinned, cap>>

\* Replacing the pin by itself keeps all that is protected; by another, it
\* may drop protection but never invents it.
Replace(hashes, newCap) ==
  /\ pinned' = hashes
  /\ cap' = newCap
  /\ IF hashes = pinned /\ newCap = cap
     THEN protected' = protected
     ELSE /\ protected' \subseteq protected \intersect hashes
          /\ Cardinality(protected') <= newCap

Rearm(hashes) ==
  /\ Replace(hashes, PromptCap)
  /\ UNCHANGED resident

Reset ==
  /\ Replace({}, 1)
  /\ resident' \in {resident, {}}

Next ==
  \/ Traffic
  \/ \E hashes \in MarkedPrompts : Rearm(hashes)
  \/ Reset

Spec == Init /\ [][Next]_contractVars

=============================================================================
