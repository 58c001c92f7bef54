----------------------------- MODULE MCQueries -----------------------------
(* An instance of Queries for TLC: two-byte keys and values over two bytes. *)
EXTENDS Queries

TwoByteKeys == {<<0, 1>>, <<1, 0>>}
OneValue == {<<0, 1>>}

\* A hash under which some keys share bits.
AnyHash(k, i) == 5 * k[1] + 3 * k[2] + i * (k[1] + 2)
=============================================================================
