------------------------------- MODULE Panels -------------------------------
(***************************************************************************)
(* What the configurator Worker and the devices share: panel designs, the  *)
(* unit an aircraft profile sets, versions, and the bounds of the model.   *)
(***************************************************************************)
EXTENDS Integers, FiniteSets

CONSTANTS
    Devices,        \* device ids, AUTOINCREMENT: given out in order, never again
    Designs,        \* panel designs somebody may save
    NoDesign,       \* no blob, no file
    Screens,        \* names of additional on-device screens
    Extras,         \* design -> its screens beside the boot screen
    Bad,            \* designs that make pyEfis exit or throw on load
    Foreign,        \* stored documents that are not native panel YAML
    Broken,         \* native ones with a screen that is no mapping
    Units,          \* altimeter units a profile may set
    NoUnit, Hand,   \* no unit; a unit the user wrote by hand
    Savers,         \* browser tabs that save panel designs
    MaxVersion,     \* bound: versions per device
    MaxProfile,     \* bound: saves and activations of the profile
    MaxTokens,      \* bound: pairings
    MaxHandEdits,   \* bound: edits of the unit by hand
    Faults,         \* what may go wrong, each at most once: a pull is "cut" short by a
                    \* power loss or a write that fails, a good panel is "misjudged"
                    \* crashed, a pull ends "unverified" because the restart is left
                    \* out or fails
    MaxFaults       \* bound: how many of these happen

Versions == 1..MaxVersion
Unit == Units \cup {NoUnit}

ASSUME DevicesAssumption == Devices \subseteq Nat \ {0} /\ IsFiniteSet(Devices)
ASSUME DesignsAssumption ==
    /\ NoDesign \notin Designs /\ Bad \subseteq Designs /\ Foreign \subseteq Designs
    /\ Broken \subseteq Designs
    /\ Extras \in [Designs -> SUBSET Screens]
    /\ IsFiniteSet(Screens) /\ Screens \cap {"managed", "managed_boot", "list"} = {}
ASSUME UnitsAssumption == NoUnit \notin Units /\ Hand \notin Units /\ Hand # NoUnit
ASSUME PanelBounds ==
    /\ MaxVersion \in Nat \ {0} /\ MaxTokens \in Nat \ {0}    \* a legacy device has one of each
    /\ MaxProfile \in Nat /\ MaxHandEdits \in Nat /\ MaxFaults \in Nat
    /\ Faults \subseteq {"cut", "misjudged", "unverified"}
=============================================================================
