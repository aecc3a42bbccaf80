----------------------------- MODULE LawListing -----------------------------
(***************************************************************************)
(* LawIngest with a history variable: the laws that have been in the list  *)
(* of laws in force all the time since the current run began.  The list is *)
(* fetched page by page while the site may withdraw laws, which moves the  *)
(* entries behind them to earlier positions.                               *)
(***************************************************************************)
EXTENDS LawIngest

VARIABLE stayed

ListingInit == Init /\ stayed = {}

ListingNext ==
  /\ Next
  /\ stayed' = IF run = NoRun THEN ToSet(listing') ELSE stayed \cap ToSet(listing')

ListingSpec == ListingInit /\ [][ListingNext]_<<lawVars, stayed>>

\* A law is treated as repealed when it is no longer seen in the list of
\* laws in force (_repeal_missing_laws): never one that was in it all along.
ListedIsNotRepealed ==
  [][\A l \in stayed : laws[l] # Null /\ ~laws[l].repealed => ~laws'[l].repealed]_<<lawVars, stayed>>

=============================================================================
