------------------------------- MODULE MCTrie -------------------------------
(***************************************************************************)
(* A small instance of Trie for TLC: common prefixes, a pattern that is    *)
(* one of another, the empty one, a path as deep as the arrays are long    *)
(* and, with <<"c">>, a child too many.                                    *)
(***************************************************************************)
EXTENDS Trie

MCPatterns ==
  { <<>>, <<"a">>, <<"b">>, <<"c">>, <<"a", "b">>, <<"b", "a">>, <<"a", "a">>,
    <<"b", "b">>, <<"a", "b", "a">>, <<"a", "a", "b", "b">> }
=============================================================================
