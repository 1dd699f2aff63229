-------------------------- MODULE MCBundleContents --------------------------
(* BundleContents on two slots, with a document TonePush cannot read.        *)
EXTENDS BundleContents, TLC
CONSTANTS new, n1, d1, d2, raw, m1, s1, s2, on, off
OneOrTwo == {<<[name |-> n1, doc |-> d1], EmptySlot>>,
             <<[name |-> n1, doc |-> raw], [name |-> new, doc |-> d1]>>}
Alike == Permutations({s1, s2}) \cup Permutations({on, off})
=============================================================================
