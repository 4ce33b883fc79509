-------------------------- MODULE RecoverableBuild --------------------------
(***************************************************************************)
(* What the files of one index promise, without files: a load finds one    *)
(* whole version of the index, or nothing, and never a version older than  *)
(* the last one whose persistence was confirmed.  The stored version may   *)
(* change, or be lost, only while a rebuild or a save is under way or has  *)
(* failed since the last confirmation.                                     *)
(***************************************************************************)
EXTENDS Naturals

CONSTANT MaxV       \* versions are numbered 1 .. MaxV in the order of their heap snapshots

VARIABLES
  stored,     \* the version a load would find, 0 if it would find nothing
  promised,   \* the last version a client was told is persistent
  open,       \* an attempt to replace the stored version is not confirmed yet
  void        \* one of the named accidents happened: nothing is promised

vars == <<stored, promised, open, void>>

Init == stored = 0 /\ promised = 0 /\ ~open /\ ~void

\* An attempt begins; it may keep every load out from then on.
Attempt ==
  /\ open'
  /\ stored' \in {stored, 0}
  /\ UNCHANGED <<promised, void>>

\* The stored version is replaced by one that is not older than promised, or lost.
Change ==
  /\ open
  /\ stored' \in {0} \cup promised .. MaxV
  /\ UNCHANGED <<promised, open, void>>

\* An attempt is confirmed: its version, newer than what was promised, is stored.
Confirm ==
  /\ open
  /\ stored' \in promised .. MaxV
  /\ stored' # 0
  /\ promised' = stored'
  /\ open' \in BOOLEAN     \* another attempt may be under way
  /\ UNCHANGED void

Accident == void'

Next == Attempt \/ Change \/ Confirm \/ Accident

Spec == Init /\ [][Next]_vars
=============================================================================
