--------------------------- MODULE EvidenceBasket ---------------------------
(***************************************************************************)
(* The evidence basket: src/evidence_basket_service.py and the rows of     *)
(* evidence_items.                                                         *)
(*                                                                         *)
(* An item is a page, or a part of one with the hash of what it was taken  *)
(* from; the page can change or go.  Items have places, unique at every    *)
(* moment of a statement.  A request reads on one connection and writes on *)
(* another, and other sessions come between.                               *)
(*                                                                         *)
(* Excerpts, coordinates, the user's remarks and display data are left     *)
(* out.  Users confirm items and take it back: whichever items a package   *)
(* asks for, they can be the confirmed ones.  There is one basket: no      *)
(* operation touches two.  The links of knowledge objects to items are in  *)
(* module SourceLinks.                                                     *)
(***************************************************************************)
EXTENDS Naturals, Sequences, FiniteSets, SequencesExt, Sources

CONSTANT
    MaxItems      \* bound: items ever added

ASSUME BasketAssumption == MaxItems \in Nat

Items == 1 .. MaxItems     \* AUTOINCREMENT: in the order they were added

VARIABLES
    basket,     \* id -> row of evidence_items, or None
    lastItem    \* the last id given out

basketVars == <<pages, basket, lastItem, session, changes>>

BasketInit ==
    /\ pages \in [Pages -> {{c} : c \in PageContents}]
    /\ basket = [i \in Items |-> None]
    /\ lastItem = 0
    /\ session = [s \in Sessions |-> None]
    /\ changes = 0

Present == {i \in Items : basket[i] # None}

\* ORDER BY position of the rows of some items.
Listings(rows, chosen) ==
    {order \in [1 .. Cardinality(chosen) -> chosen] :
        /\ \A m, n \in DOMAIN order :
               m < n => rows[order[m]].place < rows[order[n]].place
        /\ ToSet(order) = chosen}

-----------------------------------------------------------------------------
(* The evidence basket.                                                    *)

\* add_item, add_page_item, add_region_item: the page and its hash are read
\* first.  (A text may be quoted that the page does not hold: a user's excerpt.)
ReadAdd(s, p, kind) ==
    /\ There(p)
    /\ lastItem < MaxItems
    /\ Begin(s, [op |-> "add", page |-> p, kind |-> kind,
                 of |-> IF kind = "page" THEN None ELSE Content(p),
                 place |-> 0])
    /\ UNCHANGED <<pages, basket, lastItem, changes>>

LastPlace ==
    LET taken == {basket[i].place : i \in Present}
    IN  CHOOSE n \in taken \cup {0} : \A m \in taken : m <= n

\* insert_item asks for the place before its INSERT opens the transaction.
FindPlace(s) ==
    /\ Turn(s, "add")
    /\ session[s].place = 0
    /\ session' = [session EXCEPT ![s].place = LastPlace + 1]
    /\ UNCHANGED <<pages, basket, lastItem, changes>>

\* The foreign key of the page, UNIQUE (page, selection) and UNIQUE (place).
MayInsert(row) ==
    /\ There(row.page)
    /\ lastItem < MaxItems
    /\ \A i \in Present :
           /\ basket[i].place # row.place
           /\ basket[i].page # row.page \/ basket[i].kind # row.kind

NewItem(request) ==
    [page |-> request.page, kind |-> request.kind, of |-> request.of,
     place |-> request.place]

\* What an item is taken from.
Source(row) == [page |-> row.page, kind |-> row.kind, of |-> row.of]

AddItem(s) ==
    LET row == NewItem(session[s]) IN
    /\ Turn(s, "add")
    /\ session[s].place # 0
    /\ IF MayInsert(row)
       THEN /\ basket' = [basket EXCEPT ![lastItem + 1] = row]
            /\ lastItem' = lastItem + 1
       ELSE UNCHANGED <<basket, lastItem>>
    /\ End(s)
    /\ UNCHANGED <<pages, changes>>

\* UPDATE ... SET position = position + count visits the rows by id and
\* checks UNIQUE (place) at each: it fails if a row is moved to the place of
\* one that is still to come.
ShiftFails(rows, count) ==
    \E i, j \in {k \in Items : rows[k] # None} :
        i < j /\ rows[i].place + count = rows[j].place

\* The items of order at the places 1, 2, ..., the others shifted.
Placed(rows, order, count) ==
    [i \in Items |->
        IF rows[i] = None THEN None
        ELSE [rows[i] EXCEPT !.place =
                IF Contains(order, i)
                THEN CHOOSE n \in DOMAIN order : order[n] = i
                ELSE @ + count]]

Without(i) == [basket EXCEPT ![i] = None]

CanRemove(i) == ~ShiftFails(Without(i), Cardinality(Present) - 1)

\* delete_item: one transaction, the item and the places of the rest; an
\* error of the database takes all of it back.
DeleteItem(i) ==
    /\ i \in Present
    /\ CanRemove(i)
    /\ \E order \in Listings(Without(i), Present \ {i}) :
           basket' = Placed(Without(i), order, Len(order))
    /\ UNCHANGED <<pages, lastItem, session, changes>>

\* clear_items: all of it in one transaction.
ClearItems ==
    /\ Present # {}
    /\ basket' = [i \in Items |-> None]
    /\ UNCHANGED <<pages, lastItem, session, changes>>

\* The buttons of the evidence page: two neighbours change places.
Swapped(order, n) ==
    [order EXCEPT ![n] = order[n + 1], ![n + 1] = order[n]]

\* reorder compares the list it is given with the items before the first
\* UPDATE opens the transaction.
ReadReorder(s) ==
    /\ \E n \in 1 .. Cardinality(Present) - 1, order \in Listings(basket, Present) :
           Begin(s, [op |-> "reorder", order |-> Swapped(order, n)])
    /\ UNCHANGED <<pages, basket, lastItem, changes>>

Reorder(s) ==
    LET order == session[s].order IN
    /\ Turn(s, "reorder")
    /\ basket' = IF ShiftFails(basket, Len(order)) THEN basket
                ELSE Placed(basket, order, Len(order))
    /\ End(s)
    /\ UNCHANGED <<pages, lastItem, changes>>

-----------------------------------------------------------------------------
(* A package for a prompt: the confirmed items, each checked against its   *)
(* page.                                                                   *)

\* _confirmed_prompt_inputs lists the rows once, in their order.  quoted, what
\* the parts among them are of, and seen, what each page has held since, are
\* history variables.  Packages only read: one at a time is enough.
ReadPackage(s) ==
    /\ \A t \in Sessions : ~Turn(t, "package")
    /\ \E confirmed \in (SUBSET Present) \ {{}} :
       \E order \in Listings(basket, confirmed) :
           Begin(s, [op |-> "package",
                     left |-> [n \in DOMAIN order |-> Source(basket[order[n]])],
                     quoted |-> {Source(basket[i]) :
                                    i \in {j \in confirmed : basket[j].kind = "part"}},
                     seen |-> pages])
    /\ UNCHANGED <<pages, basket, lastItem, changes>>

\* Mutant: The page is there; what it holds is not compared.
ValidIfThere(source) == There(source.page)

\* _validated_snapshot: the page is there, and a part is of what it holds now.
Valid(source) ==
    /\ There(source.page)
    /\ source.kind # "page" => source.of = Content(source.page)

\* One item after the other; the first that is not valid ends the request.
Check(s) ==
    /\ Turn(s, "package")
    /\ session[s].left # <<>>
    /\ IF Valid(Head(session[s].left))
       THEN session' = [session EXCEPT ![s].left = Tail(@)]
       ELSE End(s)
    /\ UNCHANGED <<pages, basket, lastItem, changes>>

Deliver(s) ==
    /\ Turn(s, "package")
    /\ session[s].left = <<>>
    /\ End(s)
    /\ UNCHANGED <<pages, basket, lastItem, changes>>

-----------------------------------------------------------------------------
(* The pages, changed by other components.                                 *)

Seen(changed) ==
    [s \in Sessions |->
        IF session[s] # None /\ session[s].op = "package"
        THEN [session[s] EXCEPT !.seen =
                [p \in Pages |-> session[s].seen[p] \cup changed[p]]]
        ELSE session[s]]

ChangeSourcePage(p, c) ==
    /\ Changed(p, c)
    /\ session' = Seen(pages')
    /\ UNCHANGED <<basket, lastItem>>

\* _delete_database_records: the page, and its items by ON DELETE CASCADE.
\* The places of the other items stay.
DeleteSourcePage(p) ==
    /\ Gone(p)
    /\ basket' = [i \in Items |->
           IF i \in Present /\ basket[i].page = p THEN None ELSE basket[i]]
    /\ UNCHANGED <<lastItem, session>>

-----------------------------------------------------------------------------
BasketRequest(s) ==
    \/ \E p \in Pages, kind \in AnchorKinds : ReadAdd(s, p, kind)
    \/ FindPlace(s)
    \/ AddItem(s)
    \/ ReadReorder(s)
    \/ Reorder(s)
    \/ ReadPackage(s)
    \/ Check(s)
    \/ Deliver(s)

BasketNext ==
    \/ \E s \in Sessions : BasketRequest(s)
    \/ \E i \in Items : DeleteItem(i)
    \/ ClearItems
    \/ \E p \in Pages : DeleteSourcePage(p)
    \/ \E p \in Pages, c \in PageContents : ChangeSourcePage(p, c)

BasketSpec == BasketInit /\ [][BasketNext]_basketVars

-----------------------------------------------------------------------------
(* What the module promises.                                               *)

ItemRows ==
    [page: Pages, kind: {"page"}, of: {None}, place: Nat \ {0}] \cup
    [page: Pages, kind: {"part"}, of: PageContents, place: Nat \ {0}]

BasketTypeOK ==
    /\ \A p \in Pages : pages[p] \in {{}} \cup {{c} : c \in PageContents}
    /\ \A i \in Items : basket[i] = None \/ basket[i] \in ItemRows
    /\ \A i \in Present : i <= lastItem /\ There(basket[i].page)
    /\ lastItem \in 0 .. MaxItems
    /\ changes \in 0 .. MaxChanges

(***************************************************************************)
(* What a package for a prompt quotes was on its page at some moment since *)
(* the package was asked for, for every quotation in it.                   *)
(***************************************************************************)
PackageIsCurrent ==
    \A s \in Sessions :
        Turn(s, "package") /\ session[s].left = <<>> =>
            \A source \in session[s].quoted :
                source.of \in session[s].seen[source.page]
=============================================================================
