----------------------------- MODULE CaptureLog -----------------------------
(***************************************************************************)
(* What the recording core promises to its users, with no buffer, thread   *)
(* or lock in sight: records are inserted one at a time; a prefix of them  *)
(* is saved, which only grows and only by whole records; where the file    *)
(* may fail to open, the records next in line may be given up; and the     *)
(* capture closes when no record is left to save.                          *)
(***************************************************************************)
EXTENDS Naturals, SequencesExt

CONSTANTS
  Records,
  MayLose     \* may records be given up?

VARIABLES
  recorded,   \* the records inserted and not given up, in order
  saved,      \* those in the file, or kept until it opens
  capturing   \* rmemInit has been called and rmemShutDown has not returned

logVars == <<recorded, saved, capturing>>

Init ==
  /\ recorded \in {<<r>> : r \in Records}
  /\ saved = <<>>
  /\ capturing = TRUE

Insert(r) ==
  /\ capturing
  /\ r \notin ToSet(recorded)
  /\ recorded' = Append(recorded, r)
  /\ UNCHANGED <<saved, capturing>>

Save(n) ==
  /\ capturing
  /\ saved' = SubSeq(recorded, 1, n)
  /\ UNCHANGED <<recorded, capturing>>

Lose(n) ==
  /\ capturing /\ MayLose
  /\ recorded' = saved \o SubSeq(recorded, n + 1, Len(recorded))
  /\ UNCHANGED <<saved, capturing>>

Close ==
  /\ capturing /\ saved = recorded
  /\ capturing' = FALSE
  /\ UNCHANGED <<recorded, saved>>

Next ==
  \/ \E r \in Records : Insert(r)
  \/ \E n \in (Len(saved) + 1)..Len(recorded) : Save(n) \/ Lose(n)
  \/ Close

Spec == Init /\ [][Next]_logVars
=============================================================================
