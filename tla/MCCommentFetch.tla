---------------------------- MODULE MCCommentFetch ----------------------------
(* Model values for CommentFetch.                                             *)
EXTENDS CommentFetch, TLC

\* Nothing tells the comments apart.
Interchangeable == Permutations(Comments)
===============================================================================
