------------------------------- MODULE Promotion -------------------------------
(***************************************************************************)
(* Training and promotion (ml/train.py, and volatility_model in            *)
(* orchestration/definitions.py): a training loads gold, fits a model,     *)
(* measures its skill on the test rows, asks the registry whether it holds *)
(* a version, and registers the model if the skill suffices or the         *)
(* registry is empty.  Trainings are started by a schedule and by hand     *)
(* (make train), overlap, lose their connections and are tried again.  The *)
(* service loads the registry's last version.                              *)
(*                                                                         *)
(* Fitting is abstracted to its outcome: the skill suffices or not.  A try *)
(* after a failure is a training from the beginning.                       *)
(***************************************************************************)
EXTENDS Naturals, Sequences

CONSTANTS
    Trainer,        \* bound: the trainings that may run at a time
    Scheduled,      \* the one of them the schedule starts
    MaxRows,        \* bound: how many usable rows gold gets
    MinRows,        \* how many a training needs: 60
    MaxVersions     \* bound: how many versions are registered

ASSUME PromotionAssumption ==
    /\ {MaxRows, MinRows, MaxVersions} \subseteq Nat
    /\ Scheduled \in Trainer

VARIABLES
    usable,     \* how many rows of gold are usable
    registry,   \* the registered versions: how many rows each was trained on,
                \* and whether its skill sufficed
    training,   \* what each training is about to do
    result,     \* run's return value of the last training that ended
    raced       \* history: a model was promoted while another one was about to
                \* be registered

promotionVars == <<usable, registry, training, result, raced>>

Version == [rows: MinRows..MaxRows, skilled: BOOLEAN]

Training ==
    [step: {"idle"}] \union [step: {"loaded"}, rows: MinRows..MaxRows]
        \union [step: {"rejecting", "promoting", "registered"}, version: Version]

Results == {"none", "insufficient_data", "rejected", "promoted"}

PromotionTypeOK ==
    /\ usable \in 0..MaxRows
    /\ registry \in Seq(Version)
    /\ training \in [Trainer -> Training]
    /\ result \in Results
    /\ raced \in BOOLEAN

Idle == [step |-> "idle"]

PromotionInit ==
    /\ usable = 0
    /\ registry = <<>>
    /\ training = [t \in Trainer |-> Idle]
    /\ result = "none"
    /\ raced = FALSE

-----------------------------------------------------------------------------
(* Gold grows (external).                                                  *)
MoreRows ==
    /\ usable < MaxRows
    /\ usable' = usable + 1
    /\ UNCHANGED <<registry, training, result, raced>>

(* load_gold, and the end of a training that gets too few rows.            *)
LoadAny(t) ==
    /\ training[t].step = "idle"
    /\ training' = [training EXCEPT ![t] = [step |-> "loaded", rows |-> usable]]
    /\ UNCHANGED <<usable, registry, result, raced>>

Load(t) ==
    /\ training[t].step = "idle"
    /\ usable >= MinRows
    /\ training' = [training EXCEPT ![t] = [step |-> "loaded", rows |-> usable]]
    /\ UNCHANGED <<usable, registry, result, raced>>

TooFewRows(t) ==
    /\ training[t].step = "idle"
    /\ usable < MinRows
    /\ result' = "insufficient_data"
    /\ UNCHANGED <<usable, registry, training, raced>>

(* The registry is asked, and is empty: when it does not answer, an        *)
(* incumbent is assumed.  One variant takes no answer for an empty         *)
(* registry, another one knows no bootstrap.                               *)
BootstrapUnlessAnswered(answered) == answered => registry = <<>>

NeverBootstrap(answered) == FALSE

Bootstrap(answered) == answered /\ registry = <<>>

(* The model is fitted and its skill measured, and the gate decides.       *)
Gate(t, answered) ==
    /\ training[t].step = "loaded"
    /\ \E skilled \in BOOLEAN :
           LET promote == skilled \/ Bootstrap(answered)
           IN  /\ training' = [training EXCEPT ![t] =
                      [step |-> IF promote THEN "promoting" ELSE "rejecting",
                       version |-> [rows |-> training[t].rows, skilled |-> skilled]]]
               /\ raced' = (raced \/ (promote /\ \E other \in Trainer :
                                                     training[other].step = "promoting"))
    /\ UNCHANGED <<usable, registry, result>>

(* The artifact is logged, and the model registered if it is promoted.     *)
Register(t) ==
    /\ training[t].step = "promoting"
    /\ Len(registry) < MaxVersions
    /\ registry' = Append(registry, training[t].version)
    /\ training' = [training EXCEPT ![t].step = "registered"]
    /\ UNCHANGED <<usable, result, raced>>

Finish(t) ==
    /\ training[t].step \in {"rejecting", "registered"}
    /\ result' = IF training[t].step = "registered" THEN "promoted" ELSE "rejected"
    /\ training' = [training EXCEPT ![t] = Idle]
    /\ UNCHANGED <<usable, registry, raced>>

(* Trino or MLflow fails, the reply to the registration included.          *)
Fail(t) ==
    /\ training[t].step # "idle"
    /\ training' = [training EXCEPT ![t] = Idle]
    /\ UNCHANGED <<usable, registry, result, raced>>

PromotionNext ==
    \/ MoreRows
    \/ \E t \in Trainer :
           \/ Load(t) \/ TooFewRows(t) \/ Register(t) \/ Finish(t) \/ Fail(t)
           \/ \E answered \in BOOLEAN : Gate(t, answered)

PromotionSpec == PromotionInit /\ [][PromotionNext]_promotionVars

(* Gold grows and the schedule fires, day after day, and no outage of the  *)
(* registry lasts for good.                                                *)
PromotionFairness ==
    /\ WF_promotionVars(MoreRows)
    /\ WF_promotionVars(Load(Scheduled))
    /\ SF_promotionVars(Gate(Scheduled, TRUE))
    /\ SF_promotionVars(Register(Scheduled))
    /\ WF_promotionVars(Finish(Scheduled))

FairPromotion == PromotionSpec /\ PromotionFairness

-----------------------------------------------------------------------------
(* train.py: "a registry hiccup can never bootstrap-promote a model that   *)
(* failed the skill gate", and "models:/.../latest never regresses".       *)
(* Whatever fails and is tried again, and though a registration may have   *)
(* succeeded that was not heard of, only the first version may lack skill, *)
(* unless two trainings raced to register.                                 *)
OnlyFirstUnskilled ==
    \A i \in DOMAIN registry : i > 1 /\ ~ registry[i].skilled => raced

(* train.py: the first model is registered regardless "so there is         *)
(* something to serve": once gold has the rows, no run of failures keeps   *)
(* the registry empty for good, not even if no model ever has skill.       *)
SomethingToServe == (MinRows <= MaxRows) => <>(registry # <<>>)

=============================================================================
