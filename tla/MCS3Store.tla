------------------------------ MODULE MCS3Store ------------------------------
EXTENDS S3Store
CONSTANT c1

\* One client; a page of the listing is shorter than what it has stored.
MCOnePrefix == c1 :> <<"team">>
MCPath == {<<"chunks", "a">>, <<"chunks", "b">>}
Symmetry == Permutations(S3Data)
=============================================================================
