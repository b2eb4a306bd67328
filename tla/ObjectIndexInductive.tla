------------------------ MODULE ObjectIndexInductive ------------------------
(***************************************************************************)
(* The inductive invariant of ObjectIndex: what is committed or retained   *)
(* is on disk, what is planned is on disk or still to be published, and    *)
(* readers hold a beginning of the committed entries.                      *)
(***************************************************************************)
EXTENDS ObjectIndex

\* Entries an index can hold: no record twice, no more than fit.
Lists == {es \in Seq(1 .. made) : IsInjective(es) /\ Fits(es)}

Stored ==
  /\ entries \in Lists /\ retained \in Seq(Lists)
  /\ \A es \in Range(retained) \cup {entries} : IndexPaths(es) \subseteq files

\* Only a recovery goes back behind the committed entries.
Planned ==
  plan # None =>
    /\ rev < MaxRev
    /\ plan \in [entries : Lists, left : Seq(File), recovers : BOOLEAN]
    /\ IndexPaths(plan.entries) \subseteq files \cup Range(plan.left)
    /\ ~plan.recovers => IsPrefix(entries, plan.entries)

ListingType == [got : Seq(1 .. MaxMade), more : BOOLEAN, taken : BOOLEAN]

Listings ==
  /\ DOMAIN listing = Readers
  /\ \A r \in Readers : listing[r] # None =>
       listing[r] \in ListingType /\ (~listing[r].taken => IsPrefix(listing[r].got, entries))

IInv == TypeOK /\ Stored /\ Planned /\ Listings
=============================================================================
