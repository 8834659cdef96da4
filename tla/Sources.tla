------------------------------- MODULE Sources -------------------------------
(***************************************************************************)
(* The pages that notes, items of the basket and knowledge objects name as *)
(* their sources, for modules SourceLinks and EvidenceBasket.              *)
(*                                                                         *)
(* What a selection is taken from (the text) and what a region is taken    *)
(* from (the image) are one thing here, the content of the page.           *)
(***************************************************************************)
EXTENDS Naturals, SessionRequests

CONSTANTS
    Pages,        \* ids of pages, each the only one of its document
    PageContents, \* what a page can hold
    MaxChanges    \* bound: changes of pages by others

ASSUME ChangesAssumption == MaxChanges \in Nat

VARIABLES
    pages,        \* page -> its content; {} once its document is deleted
    changes       \* changes of pages so far

\* An anchor of a whole page, or of a part of it: a selection of its text or a
\* region of its image.
AnchorKinds == {"page", "part"}

There(p) == pages[p] # {}

\* What page p holds, for a page that is there.
Content(p) == CHOOSE c \in pages[p] : TRUE

\* A page processed again, or its image replaced.
Changed(p, c) ==
    /\ There(p)
    /\ Content(p) # c
    /\ changes < MaxChanges
    /\ changes' = changes + 1
    /\ pages' = [pages EXCEPT ![p] = {c}]

\* The row of the page goes with its document.
Gone(p) ==
    /\ There(p)
    /\ pages' = [pages EXCEPT ![p] = {}]
    /\ UNCHANGED changes
=============================================================================
