-------------------------------- MODULE Texts --------------------------------
(***************************************************************************)
(* The screens keep lists of column names as texts joined by commas.  A    *)
(* text is the sequence of what lies between its commas, its pieces; a     *)
(* name is a text too: one piece, or more if the name itself has commas.   *)
(***************************************************************************)
EXTENDS SequencesExt, Naturals

\* componentsJoinedByString:@","
Joined(names) == FlattenSeq(names)

\* componentsSeparatedByString:@",", which makes one empty name of no text.
Split(text) == IF text = <<>> THEN <<(<<>>)>>
               ELSE [i \in DOMAIN text |-> <<text[i]>>]

Pieces(names) == ToSet(Joined(names))
=============================================================================
