------------------------------- MODULE Values -------------------------------
(* What stands where a value is missing or malformed. *)
CONSTANTS
    None,       \* null, or a field that is not there
    Bad         \* a value of the wrong type, form or alphabet
=============================================================================
