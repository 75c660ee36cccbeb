-------------------------------- MODULE Runner --------------------------------
(***************************************************************************)
(* The producer's connection loop (run and Backoff in                      *)
(* src/producer/runner.py) and the process around it (__main__.py): it     *)
(* connects, routes messages until the connection fails or falls silent,   *)
(* backs off and connects again under the next conn_epoch.                 *)
(*                                                                         *)
(* Time is two flags of the open connection: stable, once it is older than *)
(* stable_after_s, and quiet, once idle_timeout_s pass without a message   *)
(* (heartbeats come every second, so only a dead connection is quiet).     *)
(* The length of a delay is left out; its exponent is not.                 *)
(***************************************************************************)
EXTENDS Naturals

CONSTANTS
    MaxExponent,    \* the greatest n for which 2**n converts to a float: 1023
    MaxEpochs,      \* max_epochs: connection attempts of one process
    MaxStarts       \* bound: how many times the process is started

ASSUME RunnerAssumption ==
    /\ MaxExponent \in Nat
    /\ MaxEpochs \in Nat \ {0}
    /\ MaxStarts \in Nat

VARIABLES
    phase,      \* where the loop is; "stopped" when no process runs
    epoch,      \* run's epoch: the number of this connection in this process
    attempt,    \* backoff.attempt
    stable,     \* the open connection is older than stable_after_s
    quiet,      \* the open connection has died without closing
    ended,      \* why the last process stopped, if none is running
    starts,     \* how many processes have been started
    failures    \* history: connections lost since a stable one last delivered

runnerVars == <<phase, epoch, attempt, stable, quiet, ended, starts, failures>>

RunnerTypeOK ==
    /\ phase \in {"stopped", "connecting", "open", "sleeping"}
    /\ epoch \in 0..MaxEpochs
    /\ attempt \in 0..(MaxExponent + 1)
    /\ stable \in BOOLEAN
    /\ quiet \in BOOLEAN
    /\ ended \in {"not_ended", "max_epochs", "overflow", "sink_error", "signal"}
    /\ starts \in 0..MaxStarts
    /\ failures \in Nat

RunnerInit ==
    /\ phase = "stopped"
    /\ epoch = 0
    /\ attempt = 0
    /\ stable = FALSE
    /\ quiet = FALSE
    /\ ended = "not_ended"
    /\ starts = 0
    /\ failures = 0

(* A process starts, with a new Backoff and with epoch counted from 0; the *)
(* loop takes it to 1 before the first connection.                         *)
Start ==
    /\ phase = "stopped"
    /\ starts < MaxStarts
    /\ starts' = starts + 1
    /\ phase' = "connecting"
    /\ epoch' = 1
    /\ attempt' = 0
    /\ failures' = 0
    /\ ended' = "not_ended"
    /\ UNCHANGED <<stable, quiet>>

(* The connection, if one is open, is left.                                *)
Leave(next) ==
    /\ phase' = next
    /\ stable' = FALSE
    /\ quiet' = FALSE
    /\ UNCHANGED <<epoch, starts>>

Stop(why) ==
    /\ Leave("stopped")
    /\ ended' = why
    /\ UNCHANGED attempt

(* The socket opens and the subscription is sent.                          *)
ConnectResettingBackoff ==
    /\ phase = "connecting"
    /\ phase' = "open"
    /\ attempt' = 0
    /\ UNCHANGED <<epoch, stable, quiet, ended, starts, failures>>

Connect ==
    /\ phase = "connecting"
    /\ phase' = "open"
    /\ UNCHANGED <<epoch, attempt, stable, quiet, ended, starts, failures>>

(* A message is received and routed; a stable connection that delivers one *)
(* resets the backoff.                                                     *)
Receive ==
    /\ phase = "open"
    /\ ~ quiet
    /\ attempt' = IF stable THEN 0 ELSE attempt
    /\ failures' = IF stable THEN 0 ELSE failures
    /\ UNCHANGED <<phase, epoch, stable, quiet, ended, starts>>

(* What follows every lost connection: the attempts run out, or the next   *)
(* delay is computed.  base_s is a float and 2**attempt an exact integer,  *)
(* so past MaxExponent their product raises OverflowError, which nothing   *)
(* catches.                                                                *)
BackOff ==
    /\ failures' = failures + 1
    /\ \/ /\ epoch >= MaxEpochs
          /\ Stop("max_epochs")
       \/ /\ epoch < MaxEpochs
          /\ attempt > MaxExponent
          /\ Stop("overflow")
       \/ /\ epoch < MaxEpochs
          /\ attempt <= MaxExponent
          /\ attempt' = attempt + 1
          /\ Leave("sleeping")
          /\ UNCHANGED ended

(* The connection is refused, or closed, or times out while opening.       *)
Disconnect ==
    /\ phase \in {"connecting", "open"}
    /\ BackOff

(* No message for idle_timeout_s.                                          *)
IdleTimeoutWhenStable ==
    /\ phase = "open"
    /\ quiet
    /\ stable
    /\ BackOff

IdleTimeout ==
    /\ phase = "open"
    /\ quiet
    /\ BackOff

(* The backoff delay is over.                                              *)
Wake ==
    /\ phase = "sleeping"
    /\ phase' = "connecting"
    /\ epoch' = epoch + 1
    /\ UNCHANGED <<attempt, stable, quiet, ended, starts, failures>>

(* Routing a message fails in the sink (a KafkaError is no OSError, and    *)
(* nothing catches it), or a signal cancels the task.                      *)
RouteFails ==
    /\ phase = "open"
    /\ ~ quiet
    /\ Stop("sink_error")
    /\ UNCHANGED failures

Cancel ==
    /\ phase # "stopped"
    /\ Stop("signal")
    /\ UNCHANGED failures

(* Time passes on an open connection (external).                           *)
GrowStable ==
    /\ phase = "open"
    /\ ~ stable
    /\ stable' = TRUE
    /\ UNCHANGED <<phase, epoch, attempt, quiet, ended, starts, failures>>

FallSilent ==
    /\ phase = "open"
    /\ ~ quiet
    /\ quiet' = TRUE
    /\ UNCHANGED <<phase, epoch, attempt, stable, ended, starts, failures>>

(* What the loop does besides connecting and receiving a message.          *)
LoopNext ==
    \/ Start \/ Disconnect \/ IdleTimeout \/ Wake
    \/ RouteFails \/ Cancel \/ GrowStable \/ FallSilent

RunnerNext == LoopNext \/ Connect \/ Receive

RunnerSpec == RunnerInit /\ [][RunnerNext]_runnerVars

-----------------------------------------------------------------------------
(* config.py on stable_after_s: "so a server that accepts-then-drops still *)
(* backs off".  The exponent of the next delay is the number of            *)
(* connections lost since one proved stable, however many were accepted.   *)
BacksOff == phase # "stopped" => attempt = failures

(* config.py on idle_timeout_s: "the connection is dead even if TCP hasn't *)
(* noticed".  The producer, once started, is connected again and again, to *)
(* a live connection, or has ended: a silent one is given up, and every    *)
(* lost one is followed by another.                                        *)
Recovers == [](starts > 0 => <>(phase = "stopped" \/ (phase = "open" /\ ~ quiet)))

(* run's docstring: "reconnect forever with jittered exponential backoff". *)
(* Nothing but a signal, the sink or max_epochs ends the loop.             *)
ReconnectsForever == ended # "overflow"

=============================================================================
