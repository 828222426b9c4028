----------------------------- MODULE MCSecrets -----------------------------
(* Model-checking instance of Secrets: a rotation from the first key to    *)
(* the second, with both listed in between.                                *)
EXTENDS Secrets
MCKeyLists == {<<"k1">>, <<"k2", "k1">>, <<"k2">>}
============================================================================
