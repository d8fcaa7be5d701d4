-------------------------------- MODULE Visit --------------------------------
(***************************************************************************)
(* A visit to the shop: the menu, and from a category of it to a listing.  *)
(* Every page is a request of its own.                                     *)
(***************************************************************************)
EXTENDS Catalogue, Menu

visitVars == <<catalogueVars, menuVars>>

VisitInit == CatalogueInit /\ MenuInit

Home ==
    /\ step = "home" /\ menu = <<>>
    /\ MenuNext
    /\ UNCHANGED catalogueVars

CloseMenu ==
    /\ menu # <<>>
    /\ menu' = <<>> /\ trails' = <<>> /\ names' = <<>>
    /\ locale' = DefaultLocale
    /\ asked' = [explicit |-> NoHeader, header |-> <<>>, rows |-> {}]

\* The address /c/a/b stands for the path a.b.
Enter ==
    /\ CloseMenu
    /\ \E path \in DOMAIN menu.nodes : Browse(OfCategory(path))

Leave == CloseMenu /\ UNCHANGED catalogueVars

Listing ==
    /\ menu = <<>>
    /\ CatalogueNext
    /\ UNCHANGED menuVars

VisitNext == Home \/ Enter \/ Leave \/ Listing

VisitSpec == VisitInit /\ [][VisitNext]_visitVars

VisitInv == CatalogueInv /\ MenuHolds
=============================================================================
