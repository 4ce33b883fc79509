-------------------------- MODULE MCIndexRegistry ---------------------------
(* Model values for IndexRegistry: two CAGRA indexes and a third one, in   *)
(* an array that is too small for all of them.                             *)
EXTENDS IndexRegistry, TLC

CONSTANTS i1, i2, i3

ThreeCagra == i1 :> "cagra" @@ i2 :> "cagra" @@ i3 :> "cagra"
WithFlat == i1 :> "cagra" @@ i2 :> "cagra" @@ i3 :> "flat"
WithIvfpq == i1 :> "cagra" @@ i2 :> "flat" @@ i3 :> "ivfpq"
=============================================================================
