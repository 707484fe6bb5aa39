------------------------------ MODULE LiveData ------------------------------
(***************************************************************************)
(* What the on-Pi updater promises to a running pyEfis, as one sentence:   *)
(* in every data directory the edition behind `current` changes only by    *)
(* being replaced, in one step, by a whole edition that some signed        *)
(* manifest has listed, or by being dropped.  Nothing half-downloaded,     *)
(* unverified or unlisted is ever behind `current`.                        *)
(*                                                                         *)
(* This is the abstract specification; module Updater implements it.       *)
(***************************************************************************)

CONSTANTS
    Dirs,       \* data directories, one `current` link each
    Editions,   \* everything that could be served: [id, cycle, ok] records
    Nothing     \* no edition

VARIABLES
    live,       \* directory -> the edition pyEfis opens there
    listed      \* <<directory, edition>> pairs signed manifests have listed so far

vars == <<live, listed>>

Init ==
    /\ live = [d \in Dirs |-> Nothing]
    /\ listed \subseteq Dirs \X Editions

\* One whole edition, listed for this directory, takes the place of what was there.
Swap(d, e) ==
    /\ <<d, e>> \in listed
    /\ live' = [live EXCEPT ![d] = e]
    /\ UNCHANGED listed

\* The directory's data is given up.
Drop(d) ==
    /\ live' = [live EXCEPT ![d] = Nothing]
    /\ UNCHANGED listed

\* A newer signed manifest lists more editions.
List ==
    /\ listed' \in SUBSET (Dirs \X Editions)
    /\ listed \subseteq listed'
    /\ UNCHANGED live

Next ==
    \/ \E d \in Dirs, e \in Editions : Swap(d, e)
    \/ \E d \in Dirs : Drop(d)
    \/ List

Spec == Init /\ [][Next]_vars
=============================================================================
