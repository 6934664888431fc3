--------------------------- MODULE WindowLifecycle ---------------------------
(***************************************************************************)
(* What the spread detector promises to everything downstream of it, with  *)
(* no queues, prices or ticks: each market goes round                      *)
(*                                                                         *)
(*      idle --> pending --> open --> idle      (a real opportunity)       *)
(*      idle --> pending --> idle               (single-tick noise)        *)
(*                                                                         *)
(* and the detector emits an Open exactly when a window becomes open and a *)
(* Close exactly when it ends.  Sending never waits: an event is either    *)
(* accepted by the channel or dropped, and `sent' records which.           *)
(* SpreadDetector is shown to implement this module, and WindowPersistence *)
(* builds the rest of the pipeline on it.                                  *)
(***************************************************************************)
EXTENDS Integers, Sequences

CONSTANTS Markets, Times

VARIABLES phase,    \* phase[m]: where market m's window is
          opened,   \* opened[m]: opened_at_ns of m's window, 0 while idle
          emitted   \* every Open and Close handed to the channel, in order

lifecycleVars == <<phase, opened, emitted>>

Phases == {"idle", "pending", "open"}

OpenNote(m, at) ==
  [kind |-> "open", market |-> m, opened_at |-> at, class |-> "multi_tick"]
CloseNote(m, at, c) ==
  [kind |-> "close", market |-> m, opened_at |-> at, class |-> c]

Notes == [kind : {"open", "close"}, market : Markets, opened_at : Times,
          class : {"single_tick", "multi_tick"}]

Emit(note) ==
  \E sent \in BOOLEAN :
    emitted' = Append(emitted, [note |-> note, sent |-> sent])

LifecycleInit ==
  /\ phase = [m \in Markets |-> "idle"]
  /\ opened = [m \in Markets |-> 0]
  /\ emitted = <<>>

\* The first tick on which YES and NO together cost less than One.
Sight(m, at) ==
  /\ phase[m] = "idle"
  /\ phase' = [phase EXCEPT ![m] = "pending"]
  /\ opened' = [opened EXCEPT ![m] = at]
  /\ UNCHANGED emitted

\* The window has lasted MIN_ARB_TICKS ticks.
Confirm(m) ==
  /\ phase[m] = "pending"
  /\ phase' = [phase EXCEPT ![m] = "open"]
  /\ Emit(OpenNote(m, opened[m]))
  /\ UNCHANGED opened

\* The spread is gone: noise if the window was still pending.
End(m) ==
  /\ phase[m] # "idle"
  /\ phase' = [phase EXCEPT ![m] = "idle"]
  /\ opened' = [opened EXCEPT ![m] = 0]
  /\ Emit(CloseNote(m, opened[m], IF phase[m] = "open" THEN "multi_tick"
                                                       ELSE "single_tick"))

LifecycleNext ==
  \E m \in Markets : \/ \E at \in Times : Sight(m, at)
                     \/ Confirm(m)
                     \/ End(m)

LifecycleSpec == LifecycleInit /\ [][LifecycleNext]_lifecycleVars
=============================================================================
