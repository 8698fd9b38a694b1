------------------------------ MODULE NightLight ------------------------------
(***************************************************************************)
(* The night light (gamma.c) and its command (ipc.c), with the status      *)
(* stream that announces it: one setting for all outputs, a floor and a    *)
(* ceiling for its brightness, and for each output the transform that was  *)
(* built for it, None while it is neutral.  Outputs come and go meanwhile. *)
(* Every output has a gamma ramp and accepts the transform: honey only     *)
(* logs it when one does not.                                              *)
(***************************************************************************)
EXTENDS StatusStream

CONSTANTS
    Percents, \* the numbers users give for brightness
    Kelvins   \* and for temperature

ASSUME LightAssumption == Percents \subseteq Nat /\ Kelvins \subseteq Nat

VARIABLES
    floor,     \* server->gamma_brightness_min
    ceiling,   \* server->gamma_brightness_max
    transform  \* output->gamma_transform

lightVars == <<vars, floor, ceiling, transform>>

Neutral == [o \in Outputs |-> None]

LightTypeOK ==
    /\ floor \in 0 .. 100 /\ ceiling \in 0 .. 100
    /\ transform \in [Outputs -> Levels \cup {None}]

\* v within lo and hi, lo first, as the command compares them.
Clamp(v, lo, hi) == IF v < lo THEN lo ELSE IF v > hi THEN hi ELSE v

\* honey_gamma_update_output: what is built for a setting.
Transform(l) == IF l.temperature > 0 THEN l ELSE None

\* honey_gamma_set on all outputs.
SetLight(temperature, brightness) ==
    /\ SetGamma([temperature |-> temperature, brightness |-> brightness])
    /\ transform' = [o \in Outputs |->
                        IF o \in Plugged THEN Transform(gamma') ELSE None]
    /\ UNCHANGED <<floor, ceiling>>

\* What a number means after a sign, or without one.
Meant(n, current) == {n, current + n, current - n}

GammaOff == SetLight(0, 100)

GammaMin(n) ==
    /\ floor' = Clamp(n, 0, 100)
    /\ UNCHANGED <<vars, ceiling, transform>>
GammaMax(n) ==
    /\ ceiling' = Clamp(n, 0, 100)
    /\ UNCHANGED <<vars, floor, transform>>

\* gamma brightness: the temperature is kept, also when it is off.
GammaBrightness(n) ==
    \E v \in Meant(n, gamma.brightness) :
        SetLight(gamma.temperature, Clamp(v, floor, ceiling))

\* gamma temperature: starts at 6500 K if it is off.
GammaTemperature(n) ==
    LET baseline == IF gamma.temperature > 0 THEN gamma.temperature ELSE 6500
    IN  \E v \in Meant(n, baseline) :
            SetLight(Clamp(v, 1000, 10000), gamma.brightness)

\* gamma <temperature> <brightness>
GammaAbsolute(t, b) ==
    /\ t \in 1000 .. 10000
    /\ SetLight(t, Clamp(b, floor, ceiling))

-----------------------------------------------------------------------------
(* The handlers that have nothing to do with it, and hot-plugging *)

\* A mutant of the next one: the new output is left as it is.
PlugUnlit(o) ==
    /\ PlugStep(o)
    /\ UNCHANGED <<floor, ceiling, transform>>

PlugLit(o) ==
    /\ PlugStep(o)
    /\ transform' = [transform EXCEPT ![o] = Transform(gamma)]
    /\ UNCHANGED <<floor, ceiling>>

\* The transform is freed with its output.
UnplugLit(o) ==
    /\ UnplugStep(o)
    /\ transform' = [transform EXCEPT ![o] = None]
    /\ UNCHANGED <<floor, ceiling>>

OtherStep ==
    /\ ChangeStep \/ FocusStep \/ ClientStep
    /\ UNCHANGED <<floor, ceiling, transform>>

CommandStep ==
    \/ GammaOff
    \/ \E n \in Percents : GammaMin(n) \/ GammaMax(n) \/ GammaBrightness(n)
    \/ \E n \in Kelvins : GammaTemperature(n)
    \/ \E t \in Kelvins, b \in Percents : GammaAbsolute(t, b)

LightInit ==
    /\ Init
    /\ floor = 5 /\ ceiling = 100
    /\ transform = Neutral

LightNext ==
    \/ OtherStep \/ CommandStep
    \/ \E o \in Outputs : PlugLit(o) \/ UnplugLit(o)

LightSpec == LightInit /\ [][LightNext]_lightVars

-----------------------------------------------------------------------------
(* Properties *)

(* Every output shows the night light as it is set and as bars are told,   *)
(* whatever was plugged in before or after the command (output.c:176       *)
(* "hotplugged during night light"), and what is freed is not kept.        *)
OutputsLit ==
    \A o \in Outputs :
        transform[o] = IF o \in Plugged THEN Transform(gamma) ELSE None

(* README.md:522: min and max "clamp brightness; applies to every source": *)
(* a setting that is shown has its brightness between them.                *)
BrightnessClamped ==
    [][gamma' # gamma /\ gamma'.temperature > 0 =>
          gamma'.brightness = Clamp(gamma'.brightness, floor, ceiling)]_lightVars
=============================================================================
