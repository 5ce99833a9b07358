---------------------------- MODULE MCGraphSync ----------------------------
(* Three users; post is bob's.  c1 is ann's comment on it, c2 bob's answer,   *)
(* c3 another comment of ann, an answer to c2.                                *)
EXTENDS GraphSync, TLC

CONSTANTS ann, bob, cyd, post, c1, c2, c3

MCAuthor == (post :> bob) @@ (c1 :> ann) @@ (c2 :> bob) @@ (c3 :> ann)
MCOn == [x \in {c1, c2, c3} |-> post]
MCReplyTo == (c1 :> None) @@ (c2 :> c1) @@ (c3 :> c2)
MCBatches == {<<post>>, <<c1, c2>>, <<c2, c3>>}
MCFollows == {<<ann, bob>>, <<ann, cyd>>}
Interchangeable == Permutations(Sessions)
NoBatches == {}
============================================================================
