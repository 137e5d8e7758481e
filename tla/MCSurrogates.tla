---------------------------- MODULE MCSurrogates ----------------------------
(* Surrogates for TLC.  The salts are chosen to collide: two values for     *)
(* three originals and two attempts, a candidate that is its own original,  *)
(* and one that repeats itself on retry.                                    *)
EXTENDS Surrogates

CONSTANTS a, b, c, v1, v2, v3, v4

MCText == {a, b, c}
MCValue == {a, v1, v2, v3, v4}

\* The attempts of each original, whatever its type and source.
Attempts == {[t \in MCText |-> IF t = a THEN x ELSE IF t = b THEN y ELSE <<v1, v1, v1, v1>>] :
                x \in {<<a, v1, v2, v3>>, <<v1, v2, v3, v4>>}, y \in {<<v2, v1, v2, v1>>}}

MCGenerators == {[p \in EType \X Text \X Source \X Attempt |-> f[p[2]][p[4] + 1]] :
                    f \in Attempts}

\* What is generated depends on no locale here, so valid ones are interchangeable.
MCSymmetry == Permutations(ValidLocale)

MCFallback(e, t) == <<e, t>>
=============================================================================
