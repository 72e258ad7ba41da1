-------------------------------- MODULE Reads --------------------------------
(***************************************************************************)
(* One reading request, a search or a bundle, while others write.          *)
(***************************************************************************)
EXTENDS Search, Bundles

vars == <<catalogue, search, bundle>>

TypeOK == CatalogueTypeOK /\ SearchTypeOK /\ BundleTypeOK

Init == CatalogueInit /\ SearchInit /\ BundleInit

UnderWay == \/ search.at \notin {"idle", "answered"}
            \/ bundle.at \notin {"idle", "read"}

\* Bound: a search reads no sizes, so all bodies are of the least.
Alike == \A o, t \in Objects : size[o] = size[t] /\ \A n \in Sizes : size[o] <= n

Next ==
  \/ bundle.at = "idle" /\ Alike /\ SearchNext /\ UNCHANGED bundle
  \/ search.at = "idle" /\ BundleNext /\ UNCHANGED search
  \/ UnderWay /\ Write /\ UNCHANGED <<search, bundle>>
  \/ /\ bundle.at \notin {"idle", "read"}
     /\ \E o \in Objects, n \in Sizes : Rewrite(o, n)
     /\ UNCHANGED <<search, bundle>>

Spec == Init /\ [][Next]_vars
=============================================================================
