---------------------------- MODULE MCCatalogdHa ----------------------------
(* CatalogdHa on small instances. *)
EXTENDS CatalogdHa
=============================================================================
