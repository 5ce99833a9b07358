--------------------------- MODULE MCCrawlHandlers ---------------------------
(* Model values for CrawlHandlers.                                            *)
EXTENDS CrawlHandlers

CONSTANTS ann, bob

\* Lists that name both in either order, with and without their ids, and a
\* detail.
MCAnswers ==
    {<<Lake!Stub(ann, "synthetic", None), Lake!Stub(bob, "real", "known")>>,
     <<Lake!Stub(bob, "real", None), Lake!Stub(ann, "synthetic", "known")>>,
     <<Lake!Stub(ann, "real", None)>>,
     <<Lake!Detail(bob, "real", None)>>}

==============================================================================
