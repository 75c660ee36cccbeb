----------------------------- MODULE RunnerProofs -----------------------------
(***************************************************************************)
(* Theorems about the connection loop, for any MaxExponent, MaxEpochs and  *)
(* MaxStarts.  Its types are not inductive by themselves: a loop that      *)
(* sleeps must be known to have an epoch left to wake up to.               *)
(***************************************************************************)
EXTENDS Runner, TLAPS

RunnerInv ==
    /\ RunnerTypeOK
    /\ phase = "sleeping" => epoch < MaxEpochs
    /\ BacksOff

(* A connection that is left is neither stable nor quiet.                  *)
LEMMA LeaveTypes ==
    ASSUME NEW next, Leave(next)
    PROVE  /\ phase' = next /\ epoch' = epoch /\ starts' = starts
           /\ stable' \in BOOLEAN /\ quiet' \in BOOLEAN
<1>1. stable' \in BOOLEAN /\ quiet' \in BOOLEAN
  BY Zenon DEF Leave
<1> QED
  BY <1>1 DEF Leave

(* What follows a lost connection, from wherever it was lost.              *)
LEMMA BackOffKeeps ==
    ASSUME RunnerInv, phase # "stopped", BackOff
    PROVE  RunnerInv'
<1>1. failures' = failures + 1
  BY DEF BackOff
<1>2. CASE epoch >= MaxEpochs /\ Stop("max_epochs")
  BY <1>1, <1>2, LeaveTypes, RunnerAssumption DEF RunnerInv, RunnerTypeOK, BacksOff, Stop
<1>3. CASE attempt > MaxExponent /\ Stop("overflow")
  BY <1>1, <1>3, LeaveTypes, RunnerAssumption DEF RunnerInv, RunnerTypeOK, BacksOff, Stop
<1>4. CASE /\ epoch < MaxEpochs
           /\ attempt <= MaxExponent
           /\ attempt' = attempt + 1
           /\ Leave("sleeping")
           /\ UNCHANGED ended
  BY <1>1, <1>4, LeaveTypes, RunnerAssumption DEF RunnerInv, RunnerTypeOK, BacksOff
<1> QED
  BY <1>2, <1>3, <1>4 DEF BackOff

LEMMA RunnerInitInv == RunnerInit => RunnerInv
<1> SUFFICES ASSUME RunnerInit PROVE RunnerInv
  OBVIOUS
<1>1. stable \in BOOLEAN /\ quiet \in BOOLEAN
  BY Zenon DEF RunnerInit
<1>2. /\ phase = "stopped"
      /\ epoch = 0 /\ attempt = 0 /\ starts = 0 /\ failures = 0
      /\ ended = "not_ended"
  BY DEF RunnerInit
<1> QED
  BY <1>1, <1>2, RunnerAssumption DEF RunnerInv, RunnerTypeOK, BacksOff

LEMMA RunnerStepInv == RunnerInv /\ [RunnerNext]_runnerVars => RunnerInv'
<1> SUFFICES ASSUME RunnerInv, [RunnerNext]_runnerVars
             PROVE  RunnerInv'
  OBVIOUS
<1> USE RunnerAssumption
<1>1. CASE Start
  BY <1>1 DEF RunnerInv, RunnerTypeOK, BacksOff, Start
<1>2. CASE Connect
  BY <1>2 DEF RunnerInv, RunnerTypeOK, BacksOff, Connect
<1>3. CASE Receive
  BY <1>3 DEF RunnerInv, RunnerTypeOK, BacksOff, Receive
<1>4. CASE Disconnect
  BY <1>4, BackOffKeeps DEF Disconnect
<1>5. CASE IdleTimeout
  BY <1>5, BackOffKeeps DEF IdleTimeout
<1>6. CASE Wake
  BY <1>6 DEF RunnerInv, RunnerTypeOK, BacksOff, Wake
<1>7. CASE RouteFails
  BY <1>7, LeaveTypes DEF RunnerInv, RunnerTypeOK, BacksOff, RouteFails, Stop
<1>8. CASE Cancel
  BY <1>8, LeaveTypes DEF RunnerInv, RunnerTypeOK, BacksOff, Cancel, Stop
<1>9. CASE GrowStable
  BY <1>9 DEF RunnerInv, RunnerTypeOK, BacksOff, GrowStable
<1>10. CASE FallSilent
  BY <1>10 DEF RunnerInv, RunnerTypeOK, BacksOff, FallSilent
<1>11. CASE UNCHANGED runnerVars
  BY <1>11 DEF RunnerInv, RunnerTypeOK, BacksOff, runnerVars
<1> QED
  BY <1>1, <1>2, <1>3, <1>4, <1>5, <1>6, <1>7, <1>8, <1>9, <1>10, <1>11
     DEF RunnerNext, LoopNext

(* The loop keeps its invariant in whatever order connections are accepted, *)
(* lost, found silent and tried again.                                     *)
THEOREM RunnerInvariance == RunnerSpec => []RunnerInv
<1> QED
  BY RunnerInitInv, RunnerStepInv, PTL DEF RunnerSpec

(* The loop's state is always of its type: epoch never passes max_epochs,  *)
(* and attempt stops one above the last exponent that still converts.      *)
THEOREM RunnerTypes == RunnerSpec => []RunnerTypeOK
<1>1. RunnerInv => RunnerTypeOK
  BY DEF RunnerInv
<1> QED
  BY <1>1, RunnerInvariance, PTL

(* However connections are accepted, dropped or fall silent, the exponent  *)
(* of the next delay is the number lost since one proved stable.           *)
THEOREM AlwaysBacksOff == RunnerSpec => []BacksOff
<1>1. RunnerInv => BacksOff
  BY DEF RunnerInv
<1> QED
  BY <1>1, RunnerInvariance, PTL

=============================================================================
