----------------------------- MODULE MCScanEngine -----------------------------
(***************************************************************************)
(* Three discovered regions, one of them not enabled, and one region only a *)
(* caller names; two detectors; two threads.                               *)
(***************************************************************************)
EXTENDS ScanEngine

CONSTANTS east, west, south, typo

MCRegion == {east, west, south, typo}
MCDetectors == <<"ebs", "eip">>
MCDiscovered == <<east, west, south>>
MCNotOptedIn == {south}

\* Nothing; a list with a repetition and an undiscovered region; the disabled
\* region alone; the empty list.
MCRequests == {NoRegions, <<east, typo, east, west>>, <<south>>, <<>>}

\* Discovery, and a list the settings page accepted with a repetition.
MCConfigured == {NoRegions, <<east, west, east>>}
===============================================================================
