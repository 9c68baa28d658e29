------------------------------- MODULE MCEffects -------------------------------
(* Samples of four bits and the three middle taps of the FIR filter, whose   *)
(* gain exceeds 1; the two loudest samples; both forms of the filters, the   *)
(* three distortions, with the phaser and without.                           *)
EXTENDS Effects, TLC

MCFir == (0 :> 2) @@ (1 :> 5) @@ (2 :> 2)

MCInputs == {-8, 7}

MCClean ==
  [mode |-> 0, gain |-> 0, normalizer |-> 0, qubic_shift |-> 2, threshold_high |-> 7,
   threshold_low |-> -8, compThresh |-> 4, highPass |-> 2, lowPass |-> 9, phaser |-> TRUE]
MCSoft == [MCClean EXCEPT !.mode = 1, !.gain = 1, !.normalizer = 2, !.highPass = 10,
                          !.lowPass = 1, !.phaser = FALSE]
MCFuzz == [MCClean EXCEPT !.mode = 2, !.gain = 1, !.threshold_high = 5, !.highPass = 9, !.lowPass = 10]
MCSettings == {MCClean, MCSoft, MCFuzz}
=============================================================================
