----------------------------- MODULE MCEisClient -----------------------------
(* An instance for TLC: a keyboard that is also an absolute pointer, and a   *)
(* relative pointer without a wheel, plugged in at any time.                *)
EXTENDS EisClient, TLC

CONSTANTS k, p

KeyboardAndPointer ==
    k :> <<"ei_keyboard", "ei_pointer_absolute">> @@ p :> <<"ei_pointer">>
MoveAndScroll == {<<"pointer_abs", "ei_pointer_absolute">>, <<"pointer", "ei_scroll">>}
=============================================================================
