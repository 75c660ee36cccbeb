------------------------------- MODULE MCRunner -------------------------------
(* Runner, and an outage of the exchange: every connection is refused.     *)
EXTENDS Runner

OutageNext == Start \/ (phase = "connecting" /\ Disconnect) \/ Wake

OutageSpec == RunnerInit /\ [][OutageNext]_runnerVars

=============================================================================
