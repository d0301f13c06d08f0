---------------------------- MODULE MCSignalSide ----------------------------
(* Instances for TLC of the side of the bot that turns market data into      *)
(* plans: Wire, the detectors of a ticker (Densities, Tape, Icebergs,        *)
(* Approaches, Leader), Levels, Universe and Plans.  They meet only in       *)
(* messages, signals and the pool of tickers, which each model chooses       *)
(* freely, so they are checked side by side: part names the one that takes   *)
(* steps.                                                                    *)
EXTENDS Wire, Plans, Densities, Tape, Icebergs, Approaches, Leader, Levels, Universe

VARIABLE part

StartBook == [t \in Ticks |-> CASE t = 1 -> [side |-> "Bid", size |-> 1]
                                 [] t = 4 -> [side |-> "Ask", size |-> 1]
                                 [] OTHER -> [side |-> "none", size |-> 0]]

detectorVars == <<densityVars, tapeVars, iceVars, approachVars, leadVars>>

SideInit ==
    /\ part \in {"wire", "plans", "densities", "tape", "icebergs", "approaches", "leader",
                 "levels", "universe"}
    /\ PlansInit /\ DensitiesInit /\ TapeInit /\ IcebergsInit /\ ApproachesInit /\ LeaderInit
    /\ LevelsInit /\ UniverseInit /\ WireInit
    /\ part # "levels" => used.ids = 0
    /\ part # "plans" => ground = 600 /\ scale = 2

DetectorsNext ==
    \/ /\ part = "densities" /\ DensitiesNext
       /\ UNCHANGED <<tapeVars, iceVars, approachVars, leadVars>>
    \/ /\ part = "tape" /\ TapeNext
       /\ UNCHANGED <<densityVars, iceVars, approachVars, leadVars>>
    \/ /\ part = "icebergs" /\ IcebergsNext
       /\ UNCHANGED <<densityVars, tapeVars, approachVars, leadVars>>
    \/ /\ part = "approaches" /\ ApproachesNext
       /\ UNCHANGED <<densityVars, tapeVars, iceVars, leadVars>>
    \/ /\ part = "leader" /\ LeaderNext
       /\ UNCHANGED <<densityVars, tapeVars, iceVars, approachVars>>

SideNext ==
    \/ /\ part = "plans" /\ PlansNext
       /\ UNCHANGED <<part, detectorVars, levelVars, universeVars, wireVars>>
    \/ /\ part = "levels" /\ LevelsNext
       /\ UNCHANGED <<part, planVars, detectorVars, universeVars, wireVars>>
    \/ /\ part = "universe" /\ UniverseNext
       /\ UNCHANGED <<part, planVars, detectorVars, levelVars, wireVars>>
    \/ /\ part = "wire" /\ WireNext
       /\ UNCHANGED <<part, planVars, detectorVars, levelVars, universeVars>>
    \/ DetectorsNext /\ UNCHANGED <<part, planVars, levelVars, universeVars, wireVars>>

SideSpec ==
    SideInit
    /\ [][SideNext]_<<part, planVars, detectorVars, levelVars, universeVars, wireVars>>

=============================================================================
