--------------------------- MODULE CaptureLedger ---------------------------
(***************************************************************************)
(* What the two-phase pipeline promises about hotkey triggers, with no     *)
(* goroutines, channels or wait groups: a trigger that was accepted is     *)
(* captured; the capture is either lost or put at the end of a bounded     *)
(* waiting line; captures leave the line in order, each exactly once, to   *)
(* be analysed; and the pipeline stops only when every trigger it accepted *)
(* has been settled.  Pipeline.tla is shown to implement this module.      *)
(***************************************************************************)
EXTENDS Naturals, Sequences

CONSTANTS
  MaxTriggers,    (* number of triggers one run of the pipeline may accept  *)
  QueueCapacity   (* how many captures may wait at once                     *)

Triggers == 1 .. MaxTriggers

VARIABLES
  fate,     (* what has become of each trigger                              *)
  waiting,  (* captures waiting to be analysed, oldest first                *)
  phase     (* "open": accepting; "closing": finishing; "stopped"           *)

ledgerVars == <<fate, waiting, phase>>

Fates == {"unseen", "capturing", "waiting", "analysing", "settled"}

LedgerTypeOK ==
  /\ fate \in [Triggers -> Fates]
  /\ waiting \in Seq(Triggers)
  /\ phase \in {"open", "closing", "stopped"}

Init ==
  /\ fate = [t \in Triggers |-> "unseen"]
  /\ waiting = <<>>
  /\ phase = "open"

Becomes(t, old, new) ==
  /\ fate[t] = old
  /\ fate' = [fate EXCEPT ![t] = new]

Accept(t) ==
  /\ phase = "open"
  /\ Becomes(t, "unseen", "capturing")
  /\ UNCHANGED <<waiting, phase>>

(* No window, a failed or late screenshot, or a full line. *)
Lose(t) ==
  /\ Becomes(t, "capturing", "settled")
  /\ UNCHANGED <<waiting, phase>>

Enqueue(t) ==
  /\ Len(waiting) < QueueCapacity
  /\ Becomes(t, "capturing", "waiting")
  /\ waiting' = Append(waiting, t)
  /\ UNCHANGED phase

Dequeue(t) ==
  /\ waiting # <<>>
  /\ t = Head(waiting)
  /\ Becomes(t, "waiting", "analysing")
  /\ waiting' = Tail(waiting)
  /\ UNCHANGED phase

Settle(t) ==
  /\ Becomes(t, "analysing", "settled")
  /\ UNCHANGED <<waiting, phase>>

Close ==
  /\ phase = "open"
  /\ phase' = "closing"
  /\ UNCHANGED <<fate, waiting>>

AllSettled == \A t \in Triggers : fate[t] \in {"unseen", "settled"}

Stop ==
  /\ phase # "stopped"
  /\ AllSettled
  /\ waiting = <<>>
  /\ phase' = "stopped"
  /\ UNCHANGED <<fate, waiting>>

Next ==
  \/ \E t \in Triggers :
       Accept(t) \/ Lose(t) \/ Enqueue(t) \/ Dequeue(t) \/ Settle(t)
  \/ Close
  \/ Stop

(***************************************************************************)
(* A trigger never waits for ever in any fate but the first and the last,  *)
(* and a pipeline that is closing stops.                                   *)
(***************************************************************************)
Progress ==
  /\ \A t \in Triggers : /\ WF_ledgerVars(Lose(t) \/ Enqueue(t))
                         /\ WF_ledgerVars(Dequeue(t))
                         /\ WF_ledgerVars(Settle(t))
  /\ WF_ledgerVars(phase = "closing" /\ Stop)

Safety == Init /\ [][Next]_ledgerVars

Spec == Safety /\ Progress
=============================================================================
