--------------------------------- MODULE MCFix ---------------------------------
(* Instances of Fix for TLC. *)
EXTENDS Fix, TLC

\* Values that look like parts of a message: "", "A", "9=", "10=1", "+0".
Looks == {<<>>, <<65>>, <<57, 61>>, <<49, 48, 61, 49>>, <<43, 48>>}

\* Messages with the tags 49 and 110, with and without an envelope of their own.
Tagged(v, w) == (49 :> v) @@ (110 :> w)
Messages ==
    {Tagged(v, w) : v, w \in Looks}
    \cup {Tagged(v, <<65>>) @@ (8 :> <<65, 61>>) @@ (9 :> <<57>>) @@ (10 :> w) : v, w \in Looks}
FewMessages == {Tagged(v, <<65>>) : v \in Looks}

\* NUL, SOH, '+', '0', '1', '8', '9', '=', 'A', and bytes beyond ASCII.
Bytes == {0, 1, 43, 48, 49, 56, 57, 61, 65, 129, 255}
===============================================================================
