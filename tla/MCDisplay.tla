----------------------------- MODULE MCDisplay ------------------------------
(* A screen of three columns and two text lines over the status bar, glyphs  *)
(* of one by two pixels, and print calls that reach every branch of          *)
(* put_char, wrap in the middle of a call and scroll twice in one call.      *)
EXTENDS Display

MCTexts == {<<"a">>, <<"return", "space">>, <<"backspace">>, <<"tab">>,
            <<"a", "newline", "a", "newline">>, <<"backspace", "a", "a", "a">>}
\* Larger than the framebuffer, narrower, and too short for it.
MCModes == {[w |-> 4, h |-> 9], [w |-> 2, h |-> 9], [w |-> 3, h |-> 5]}

MCBarTexts == {<<"t", "u", "v">>}

=============================================================================
