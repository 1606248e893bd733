---- MODULE MCConfigPages ----
(* Two devices; three accounts of two types; two servers, one with more     *)
(* entries than a page takes and both with entries of each repository.      *)
EXTENDS ConfigPages

MCTypeOf == [a \in Accounts |-> IF a = "cloud" THEN "nextcloud" ELSE "google"]

At(i, r) == [id |-> i, repository |-> r]
MCListing ==
  [s \in Servers |->
     IF s = "kde" THEN <<At(1, "purpose"), At(2, "kio"), At(3, "purpose")>>
     ELSE <<At(4, "kio"), At(5, "purpose")>>]
====
