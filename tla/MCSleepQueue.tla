---------------------------- MODULE MCSleepQueue ----------------------------
(***************************************************************************)
(* Instances of SleepQueue for TLC.                                        *)
(***************************************************************************)
EXTENDS SleepQueue

CONSTANTS s1, s2

\* One station with a legacy category, one without.
Mixed == {(s1 :> {"VO"}) @@ (s2 :> ACs)}
\* One station alone, of every kind that can fetch all its frames while it sleeps.
Single == [{s1} -> {{}, {"VO"}, ACs}]

\* What AnnouncedOnAir, AwakeMeansEmpty and DozeMatches say ends where a change of the
\* bitmaps has been undone, for good: a run for them need not go on from there.
BitmapsWhole == ~raced
=============================================================================
