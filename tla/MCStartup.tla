----------------------------- MODULE MCStartup ------------------------------
(* Small instances of Startup for TLC: three provinces, one merged. *)
EXTENDS Startup, TLC

CONSTANTS s1, s2, s3

MCPrefix == ("24010" :> "24") @@ ("36060" :> "36") @@ ("37011" :> "37")
MCMerges == "36" :> "24"

\* s1 in Pohang, s2 in Gwangyang and s3 not listed.
MCSiteToRegion == (s1 :> "37011") @@ (s2 :> "36060")

=============================================================================
