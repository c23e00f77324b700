--------------------------- MODULE MCGuardedScripts ---------------------------
(***************************************************************************)
(* A volume and an address, selected alone, together, twice, and beside    *)
(* findings that are not eligible or of another account.                   *)
(***************************************************************************)
EXTENDS GuardedScripts

CONSTANTS volume, address, home, other

Eligible(r) == [resource |-> r, account |-> home, guarded |-> TRUE]
Foreign(r) == [resource |-> r, account |-> other, guarded |-> TRUE]
Ineligible(r) == [resource |-> r, account |-> home, guarded |-> FALSE]

MCSelections ==
  {<<Eligible(volume)>>, <<Eligible(address)>>,
   <<Ineligible(address), Eligible(volume), Foreign(address), Eligible(volume)>>,
   <<Eligible(address), Eligible(volume)>>}

OneVolume == {<<Eligible(volume)>>}
===============================================================================
