------------------------------ MODULE MCStudio ------------------------------
(* One site claimed or analyzed twice, two requests at a time; two builds,   *)
(* in one process (the local runner) or in two (Celery); a site of a home    *)
(* page and two more, one of which a check reads and may be led on from, and *)
(* one of which may be linked twice.                                         *)
EXTENDS Studio, TLC

CONSTANTS h1, h2, t1, t2, quiz, calculator, b1, b2, p1, p2, red, blue

\* What a page is painted in: nothing, or one of two colours.
MCPalettes == {<<>>, <<red>>, <<blue>>}

\* Two links in either order; and a page linked twice, first under a label that
\* leads nowhere and then as what it is.
Link(p, r) == [page |-> p, rank |-> r]
MCMenus == {<<Link(1, 0), Link(2, 1)>>, <<Link(2, 1), Link(1, 0)>>,
            <<Link(1, 2), Link(2, 1), Link(1, 0)>>}

\* No page is redirected at first; an edit may move one.
MCMoved == {[p \in 0..2 |-> p]}

MCSymmetry ==
    {p @@ q @@ r @@ s : p \in Permutations({h1, h2}), q \in Permutations({t1, t2}),
                        r \in Permutations({quiz, calculator}),
                        s \in Permutations({red, blue})}
=============================================================================
