----------------------------- MODULE WorldLedger -----------------------------
(***************************************************************************)
(* What the write-back of a voxel world promises, without a cut, a writer  *)
(* or a crash: the world a restart would rebuild changes only by the       *)
(* transaction that was appended, and the published prefix only rises, to  *)
(* a sequence number the log has reached.                                  *)
(***************************************************************************)
EXTENDS Integers

CONSTANT Units

VARIABLES
  head,     \* the number of the last transaction
  rebuilt,  \* what a restart rebuilds: the edits applied to each unit
  safe      \* the published prefix, -1 before the first

ledgerVars == <<head, rebuilt, safe>>

LedgerInit ==
  /\ head \in Nat /\ rebuilt \in [Units -> SUBSET (1..head)] /\ safe = -1

(* A transaction edits the units U: it is never lost afterwards. *)
AppendTxn(U) ==
  /\ head' = head + 1
  /\ rebuilt' = [u \in Units |-> IF u \in U THEN rebuilt[u] \cup {head + 1} ELSE rebuilt[u]]
  /\ UNCHANGED safe

(* A cut is published: a restart rebuilds the same world from it. *)
PublishCut ==
  /\ safe < safe' /\ safe' <= head
  /\ UNCHANGED <<head, rebuilt>>

LedgerNext == (\E U \in SUBSET Units : AppendTxn(U)) \/ PublishCut

LedgerSpec == LedgerInit /\ [][LedgerNext]_ledgerVars
==============================================================================
