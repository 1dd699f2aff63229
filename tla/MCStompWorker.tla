--------------------------- MODULE MCStompWorker ---------------------------
(* StompWorker with its constants given by the configurations: one node and  *)
(* the chain, and a chain the pedal changes into another.                    *)
EXTENDS StompWorker, TLC
CONSTANTS gain, chain, v1, v2, odd
Nodes == {gain, chain}
Normal == (v1 :> v1) @@ (v2 :> v2) @@ (odd :> v2)
Plain(v) == (gain :> v) @@ (chain :> v)
TwoContents == {Plain(v1), Plain(v2)}
TwoTones == {Plain(v1), gain :> v2}
=============================================================================
