---------------------------- MODULE MCEditBuffer ----------------------------
(* Small instances of EditBuffer: one feature in the provider and one or two *)
(* added by the user.                                                        *)
EXTENDS EditBuffer

CONSTANTS g1, g2, v1

AllCaps == {Caps, Caps \ {"ChangeFeatures"}}
NoBulk == {Caps \ {"ChangeFeatures"}}
OneStored == [f \in ProviderIds |-> IF f = 1 THEN [geom |-> g1, attr |-> v1] ELSE None]
FeatsAdded == {[geom |-> g1, attr |-> v1], [geom |-> NoGeom, attr |-> Invalid]}
NoExtents == {}
WholeExtent == {Fids}
OneSelectable == {-2}
StoredSelectable == {1}
NoneSelectable == {}
=============================================================================
