------------------------------ MODULE BrandWatch ------------------------------
(***************************************************************************)
(* How a live tool is kept in the colours of its customer's site           *)
(* (pipeline/evidence.py, pipeline/heal.py, the grounding of               *)
(* pipeline/states/architect.py).  A check reads the home page and a few   *)
(* pages it links to, one request each, while the site may be edited,      *)
(* redirect, or not answer.  If the colours it found are not those of the  *)
(* last check, the Architect designs the tool anew, what it answers is     *)
(* forced back onto what was found, and the tool is regenerated if that    *)
(* differs from what it has.                                               *)
(*                                                                         *)
(* When a check runs, and what else it does, is the business of HealSweep. *)
(* A page is reduced to the colours its styles name, in their order; fonts *)
(* are treated as colours are, and left out with the logo, as are the      *)
(* colours that are never compared.                                        *)
(***************************************************************************)
EXTENDS Integers, Sequences, FiniteSets, SequencesExt

CONSTANTS
    Inner,         \* the pages the home page links to, numbered as they sort
    Palettes,      \* what a page may be painted in: sequences of colours
    Menus,         \* what the pages may link to: sequences of links
    Moved,         \* where the pages may be redirected to at first
    MaxPages,      \* MAX_PAGES
    MaxHops,       \* MAX_REDIRECTS
    MaxColours,    \* how many colours evidence keeps
    MaxEdits       \* bound of the model

VARIABLES
    site,      \* what each page of the site serves
    nav,       \* the links on its pages
    stage,     \* where the check is
    todo,      \* the pages it has still to read
    found,     \* the colours of each page it has read
    print,     \* the colours of the last check (source_brand_fingerprint)
    look,      \* the colours of the tool (brand_tokens)
    fresh,     \* what the Architect has designed
    settled,   \* history: the look was last compared, or made, with print
    sure,      \* history: print is of all pages, and nothing was edited since
               \* but the order of links
    steady,    \* history: the same of the check under way
    edits      \* edits so far

world == <<site, nav, edits>>
record == <<print, look, settled, sure>>
vars == <<world, stage, todo, found, record, fresh, steady>>

Home == 0
Pages == {Home} \cup Inner
Away == -1    \* another host, or nowhere
NoPrint == <<"never compared">>
\* What a link's path and label make of it: one to prices, services or solutions,
\* one to another useful page, one that is left out.
Ranks == 0..2
Useless == 2
Links == [page : Inner, rank : Ranks]

Neutral == "a neutral"
Absent == "not recorded"

Colours == UNION {ToSet(p) : p \in Palettes}
Fields == {"primary", "secondary"}    \* those of BRAND_DRIFT_FIELDS

\* What the Architect may answer for a field: anything.
Answers == [Fields -> Colours \cup {Neutral}]
NoLook == [f \in Fields |-> Absent]

-----------------------------------------------------------------------------
(* Reading the site *)

AtMost(limit, n) == IF n > limit THEN limit ELSE n

\* Where the styles of the pages name a colour: the page, and the place on it.
Places(pages) == UNION {{i} \X DOMAIN pages[i] : i \in DOMAIN pages}
Before(a, b) == a[1] < b[1] \/ (a[1] = b[1] /\ a[2] < b[2])

\* _dedupe: the colours of the pages, the first of each, up to a limit.
Deduped(pages) ==
    LET at(a) == pages[a[1]][a[2]]
        firsts == {a \in Places(pages) :
                      \A b \in Places(pages) : Before(b, a) => at(b) # at(a)}
        order == SetToSortSeq(firsts, Before)
    IN [n \in 1..AtMost(MaxColours, Cardinality(firsts)) |-> at(order[n])]

\* The colours in the styles of a page (none, if it is not one of the site).
Palette(p) == IF p \in Pages THEN site[p].palette ELSE <<>>

\* Where a request for a page ends: what serves it after at most MaxHops
\* redirects.
Landing(p) ==
    LET next(q) == IF q \in Pages THEN site[q].to ELSE Away
        after[n \in Nat] == IF n = 0 THEN p ELSE next(after[n - 1])
        last == after[MaxHops]
    IN IF next(last) = last THEN last ELSE Away

\* A page that is linked twice is known by its first link, whatever becomes of
\* that one.
FirstLinks ==
    {nav[i] : i \in {j \in DOMAIN nav : \A k \in 1..(j - 1) : nav[k].page # nav[j].page}}

\* The links of the home page that lead on.
Wanted(home) == {l \in FirstLinks : l.page # home /\ l.rank # Useless}

Sooner(l, m) == l.rank < m.rank \/ (l.rank = m.rank /\ l.page < m.page)

\* Mutant: the pages are read in the order of the links.
CandidatesAsLinked(home) ==
    LET wanted == SelectSeq(nav, LAMBDA l : l \in Wanted(home))
    IN [n \in 1..AtMost(MaxPages - 1, Len(wanted)) |-> wanted[n].page]

\* The pages to read beside the home page: sorted, then cut.
Candidates(home) ==
    LET sorted == SetToSortSeq(Wanted(home), Sooner)
    IN [n \in 1..AtMost(MaxPages - 1, Cardinality(Wanted(home))) |-> sorted[n].page]

\* No page is linked under labels that make different things of it.
LabelsAgree == \A l, m \in ToSet(nav) : l.page = m.page => l.rank = m.rank

\* What a request for each of the pages comes back with.
Served(pages) == [i \in DOMAIN pages |-> Palette(Landing(pages[i]))]

\* The pages of a whole crawl of a site that stays as it is, and its evidence.
Crawled == <<Palette(Landing(Home))>> \o Served(Candidates(Landing(Home)))
Evidence == Deduped(Crawled)

Init ==
    /\ \E paint \in [Pages -> Palettes], to \in Moved :
          site = [p \in Pages |-> [palette |-> paint[p], to |-> to[p]]]
    /\ nav \in Menus
    /\ edits = 0
    /\ stage = "idle" /\ todo = <<>> /\ found = <<>>
    /\ print = NoPrint \/ (print = Evidence /\ Landing(Home) # Away)
    /\ look \in Answers \cup {NoLook}
    /\ fresh = NoLook
    /\ settled = FALSE
    /\ sure = (print # NoPrint)
    /\ steady = FALSE

\* The home page, wherever it is, or the check fails and is forgotten.
Begin ==
    /\ stage = "idle"
    /\ Landing(Home) # Away
    /\ stage' = "reading"
    /\ todo' = Candidates(Landing(Home))
    /\ found' = <<Palette(Landing(Home))>>
    /\ steady' = TRUE
    /\ UNCHANGED <<world, record, fresh>>

\* A page that leads to another host, or nowhere, adds no colours.
Read ==
    /\ stage = "reading" /\ todo # <<>>
    /\ found' = Append(found, Palette(Landing(Head(todo))))
    /\ todo' = Tail(todo)
    /\ UNCHANGED <<world, stage, record, fresh, steady>>

\* Nor does one that does not answer, or not with a page.
Miss ==
    /\ stage = "reading" /\ todo # <<>>
    /\ todo' = Tail(todo)
    /\ steady' = FALSE
    /\ UNCHANGED <<world, stage, found, record, fresh>>

-----------------------------------------------------------------------------
(* Grounding a design *)

Grounded(colour, evidence) == colour = Neutral \/ colour \in ToSet(evidence)

\* Mutant: only the primary colour is forced back.
GroundPrimary(answer, evidence) ==
    IF evidence = <<>> \/ Grounded(answer["primary"], evidence) THEN answer
    ELSE [answer EXCEPT !["primary"] = evidence[1]]

\* A colour that was not found is replaced by one that was, or by a neutral;
\* if none was found, whatever the Architect says goes.
Ground(answer, evidence) ==
    LET instead == [primary |-> evidence[1],
                    secondary |-> IF Len(evidence) > 1 THEN evidence[2] ELSE Neutral]
    IN IF evidence = <<>> THEN answer
       ELSE [f \in Fields |-> IF Grounded(answer[f], evidence) THEN answer[f]
                              ELSE instead[f]]

\* _diff_fields: a field that was never recorded has not drifted.
Differs(f, new) == look[f] # Absent /\ look[f] # new[f]

-----------------------------------------------------------------------------
(* Comparing *)

Checked == stage = "reading" /\ todo = <<>>
Now == Deduped(found)

\* The evidence replaces that of the last check, whatever comes of this one.
Record ==
    /\ stage' = "idle" /\ found' = <<>> /\ fresh' = NoLook
    /\ print' = Now
    /\ sure' = steady
    /\ steady' = FALSE

\* The colours are those of the last check: nobody is asked.
Same ==
    /\ Checked
    /\ print = Now
    /\ Record
    /\ UNCHANGED <<world, todo, look, settled>>

\* The tool is designed anew.  The layout is described in free text, and may be
\* worded otherwise each time.
Compare ==
    /\ Checked
    /\ print # Now
    /\ \E answer \in Answers, reworded \in BOOLEAN :
          LET new == Ground(answer, Now)
          IN IF reworded \/ \E f \in Fields : Differs(f, new)
             THEN /\ stage' = "drifted"
                  /\ fresh' = new
                  /\ UNCHANGED <<found, print, sure, steady, settled>>
             ELSE Record /\ settled' = TRUE
    /\ UNCHANGED <<world, todo, look>>

\* The tool is regenerated and published.
Heal ==
    /\ stage = "drifted"
    /\ Record
    /\ look' = fresh
    /\ settled' = TRUE
    /\ UNCHANGED <<world, todo>>

\* The regeneration fails, and the evidence is kept all the same.
HealFails ==
    /\ stage = "drifted"
    /\ Record
    /\ settled' = FALSE
    /\ UNCHANGED <<world, todo, look>>

\* The Architect cannot be asked, the worker is lost, or the transaction is
\* rolled back: nothing of the check remains.
Abandon ==
    /\ stage # "idle"
    /\ stage' = "idle" /\ todo' = <<>> /\ found' = <<>> /\ fresh' = NoLook
    /\ steady' = FALSE
    /\ UNCHANGED <<world, record>>

-----------------------------------------------------------------------------
(* The customer's site *)

\* A page is painted otherwise, or moved.
Edit(p) ==
    /\ edits < MaxEdits
    /\ edits' = edits + 1
    /\ \/ \E c \in Palettes \ {Palette(p)} : site' = [site EXCEPT ![p].palette = c]
       \/ \E q \in (Pages \cup {Away}) \ {site[p].to} : site' = [site EXCEPT ![p].to = q]
    /\ sure' = FALSE
    /\ steady' = FALSE
    /\ UNCHANGED <<nav, stage, todo, found, print, look, settled, fresh>>

\* Links are added, taken away, labelled otherwise, or put in another order; the
\* last of these changes nothing if the labels of each page agree.
Relink ==
    /\ edits < MaxEdits
    /\ edits' = edits + 1
    /\ nav' \in Menus \ {nav}
    /\ LET reordered == LabelsAgree /\ ToSet(nav') = ToSet(nav)
       IN /\ sure' = (sure /\ reordered)
          /\ steady' = (steady /\ reordered)
    /\ UNCHANGED <<site, stage, todo, found, print, look, settled, fresh>>

Next ==
    \/ Begin \/ Read \/ Miss
    \/ Same \/ Compare \/ Heal \/ HealFails \/ Abandon
    \/ Relink \/ \E p \in Pages : Edit(p)

Spec == Init /\ [][Next]_vars
-----------------------------------------------------------------------------
(* Properties *)

\* "A widget never displays a colour ... that is not the site's"
\* (architect.py:69): once a tool has been compared with, or made from, what
\* was found last, and something was found, its primary and secondary colours
\* are among it, or neutral, or were never recorded.
TrueToSite ==
    settled /\ print # <<>> =>
        \A f \in Fields : Grounded(look[f], print) \/ look[f] = Absent

\* A tool is not designed anew for a site on which nothing but the order of the
\* links has changed between two checks that read all its pages: which pages a
\* check reads depends on what is linked and not on where.  A page linked under
\* labels that make different things of it is the exception: only its first
\* link counts (evidence.py:400).
CalmSiteLeftAlone == stage = "drifted" => ~(sure /\ steady)
=============================================================================
