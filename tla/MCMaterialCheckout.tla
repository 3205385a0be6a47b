------------------------- MODULE MCMaterialCheckout -------------------------
(* Bounds of the model checking of MaterialCheckout: see the .cfg files. *)
EXTENDS MaterialCheckout, TLC

\* All handlers but Cron are interchangeable, and so are the urls.
CheckoutSymmetry == Permutations(Handlers \ {Cron}) \cup Permutations(Urls)

=============================================================================
