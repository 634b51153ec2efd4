--------------------------- MODULE MCSegmentation ---------------------------
EXTENDS Segmentation

\* Energy gate 2: level 0 is silence, 2 a voice that steady noise of level 2 hides, 4 a loud one.
Plain == [energy |-> 2, start |-> 3, end |-> 2, max |-> 6, preRoll |-> 1, gap |-> 1,
          presence |-> 1, backpad |-> 1, adaptive |-> TRUE]
\* Level 2 is under the gate but counts as presence; no tolerance; a back-pad as long as the
\* hangover.
Strict == [Plain EXCEPT !.energy = 3, !.start = 2, !.gap = 0, !.max = 5, !.backpad = 2,
                        !.presence = 2, !.preRoll = 0]
\* The fixed threshold.
Fixed == [Plain EXCEPT !.adaptive = FALSE, !.max = 4, !.start = 1, !.backpad = 2]

ThreeSettings == {Plain, Strict, Fixed}

\* Room for an onset that dips twice on its way to three voiced frames.
Choppy == {[Plain EXCEPT !.max = 7]}
=============================================================================
