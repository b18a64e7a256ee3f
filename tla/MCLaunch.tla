------------------------------ MODULE MCLaunch ------------------------------
(* Sepolia, and a local chain that stores its own art around a file that   *)
(* is stored in parts: a batch that its bytes fill, and one that its files *)
(* fill and that holds a twin of a later one.                              *)
EXTENDS Launch

CONSTANTS deployer, k1, k2

Env(s, k, p) == [allowlistSigner |-> s, allowlistKey |-> k, paymasterKey |-> p]
MCEnvs == {Env(k1, k1, k1), Env(k2, k2, k1), Env(deployer, k1, k1)}

A == <<"a">>
B == <<"b">>
FillsBatch == <<"a", "b", "c">>
Chunked == <<"a", "b", "c", "a">>
MCContents == {A, B, FillsBatch, Chunked}
MCSites == {[local |-> FALSE, files |-> <<>>],
            [local |-> TRUE, files |-> <<FillsBatch, Chunked, A>>],
            [local |-> TRUE, files |-> <<A, B, Chunked, A>>]}
=============================================================================
