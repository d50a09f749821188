---------------------------- MODULE MCFieldEdits ----------------------------
(* Small instances of FieldEdits: two fields and one feature in the provider. *)
EXTENDS FieldEdits

CONSTANTS a, b, c, v, w, old, new

TwoColumns == <<a, b>>
OneRow == [f \in Fids |-> IF f = old THEN <<v, Null>> ELSE None]
Attrs == {[i \in Index |-> IF i = 1 THEN v ELSE Null]}
=============================================================================
