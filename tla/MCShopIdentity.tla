-------------------------- MODULE MCShopIdentity --------------------------
(***************************************************************************)
(* ShopIdentity for TLC: a shop whose domain carries its number and begins *)
(* with a label of its own, so that it can have two rows, and one with one *)
(* id for everything, but the first shop's number in its domain.  The      *)
(* first shop's license is its label.  The shops share a cookie jar.       *)
(***************************************************************************)
EXTENDS ShopIdentity, FiniteSets

CONSTANTS anna, bert,
    n1, n2, sklep,      \* ids
    sklep1, butik1      \* hosts

MCShops == {anna, bert}
MCIds == {n1, n2, sklep}
MCHosts == {sklep1, butik1}
MCShopId == [s \in MCShops |-> IF s = anna THEN n1 ELSE n2]
MCLicenseId == [s \in MCShops |-> IF s = anna THEN sklep ELSE n2]
MCCanonical == [s \in MCShops |-> IF s = anna THEN sklep1 ELSE butik1]
MCAddresses == [s \in MCShops |-> {MCCanonical[s]}]
MCNumber == [h \in MCHosts |-> n1]
MCLabel == [h \in MCHosts |-> IF h = sklep1 THEN sklep ELSE n2]

\* A bound: one id at most has had a session that another shop used.
OneCrossing == Cardinality(crossed) <= 1
===========================================================================
